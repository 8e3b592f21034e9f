--------------------------- MODULE ArtiModelProofs ---------------------------
(***************************************************************************)
(* Theorems about ArtiModel, for every value of its constants: every       *)
(* number of screens and buttons, whichever of them refresh themselves,    *)
(* open pages or swallow taps.                                             *)
(***************************************************************************)
EXTENDS ArtiModel, TemporalInduction, TLAPS

\* Deleting a position of a button array leaves a button array.
LEMMA RemoveAtType ==
  ASSUME NEW S, NEW s \in Seq(S), NEW n \in 1 .. Len(s)
  PROVE  RemoveAt(s, n) \in Seq(S)
BY DEF RemoveAt

\* A block of the main queue, taken off its front, leaves a queue of blocks.
LEMMA QueueType ==
  ASSUME NEW q \in Seq(Block), q # <<>>
  PROVE  /\ Head(q) \in Block
         /\ Tail(q) \in Seq(Block)
         /\ Head(q).kind # "reload" => Head(q).obj \in Obj
BY DEF Block

\* What Construct and InitTitle set up is well typed.
LEMMA AllocateType ==
  ASSUME TypeOK, NEW i \in ID, NEW r \in [ID -> Obj \cup {NoObj}], pc = "run", Allocate(i, r)
  PROVE  TypeOK'
<1>1. PICK o \in Obj \ Referenced(r), own \in [DOMAIN Builtin[i] -> Btn \ ReferencedBtn] :
        /\ reg' = [r EXCEPT ![i] = o]
        /\ owner' = [owner EXCEPT ![o] = i]
        /\ buttons' = [buttons EXCEPT ![o] = own]
        /\ returnID' = [returnID EXCEPT ![o] = NOKEY]
        /\ lastClick' = [lastClick EXCEPT ![o] = NoBtn]
        /\ reload' = [reload EXCEPT ![o] = FALSE]
        /\ other' = [other EXCEPT ![o] = FALSE]
        /\ fresh' = [fresh EXCEPT ![o] = FALSE]
        /\ btnId' = [b \in Btn |-> IF \E n \in DOMAIN own : own[n] = b
                                   THEN Builtin[i][CHOOSE n \in DOMAIN own : own[n] = b]
                                   ELSE btnId[b]]
        /\ btnStatus' = [b \in Btn |-> IF b \in Range(own) THEN ENABLE ELSE btnStatus[b]]
        /\ btnTemp' = [b \in Btn |-> IF b \in Range(own) THEN FALSE ELSE btnTemp[b]]
        /\ UNCHANGED <<timer, appVars, uiVars, mainVars>>
  BY DEF Allocate
<1>2. own \in Seq(Btn)
  BY ArtiAssumption
<1>3. btnId' \in [Btn -> Int]
  <2>1. ASSUME NEW b \in Btn, \E n \in DOMAIN own : own[n] = b
        PROVE  Builtin[i][CHOOSE n \in DOMAIN own : own[n] = b] \in Int
    BY <2>1, ArtiAssumption
  <2>2. QED BY <1>1, <2>1 DEF TypeOK
<1>4. /\ btnStatus' \in [Btn -> Status]
      /\ btnTemp' \in [Btn -> BOOLEAN]
  BY <1>1 DEF TypeOK, Status
<1>5. /\ reg' \in [ID -> Obj \cup {NoObj}]
      /\ owner' \in [Obj -> ID]
      /\ returnID' \in [Obj -> Int]
      /\ lastClick' \in [Obj -> Btn \cup {NoBtn}]
      /\ reload' \in [Obj -> BOOLEAN]
      /\ other' \in [Obj -> BOOLEAN]
      /\ fresh' \in [Obj -> BOOLEAN]
  BY <1>1 DEF TypeOK, NOKEY
<1>6. buttons' \in [Obj -> Seq(Btn)]
  BY <1>1, <1>2 DEF TypeOK
<1>7. UNCHANGED <<timer, pc, cur, ret, mainQ, vc, sub, bar, cells, live, mpc, clicked>>
  BY <1>1 DEF appVars, uiVars, mainVars
<1>8. QED
  BY <1>3, <1>4, <1>5, <1>6, <1>7 DEF TypeOK

\* Showing a screen leaves the view controller and the queue well typed.
LEMMA ArtiShowType ==
  ASSUME TypeOK, NEW o \in Obj, NEW rest \in Seq(Block), ArtiShow(o, rest)
  PROVE  /\ vc' \in Obj
         /\ sub' \in BOOLEAN
         /\ reload' \in [Obj -> BOOLEAN]
         /\ bar' \subseteq Btn
         /\ mainQ' \in Seq(Block)
         /\ timer' \in [Obj -> BOOLEAN]
<1>1. Reload \in Block
  BY DEF Reload, Block
<1>2. bar' \subseteq Btn
  BY DEF ArtiShow, TypeOK, Range
<1>3. sub' \in BOOLEAN
  BY Zenon DEF ArtiShow
<1>4. QED
  BY <1>1, <1>2, <1>3 DEF ArtiShow, TypeOK

\* TypeOK is inductive: Next preserves it, action by action.
LEMMA TypeStep ==
  ASSUME TypeOK, [Next]_vars
  PROVE  TypeOK'
<1> USE DEF NOKEY, BACK, REPORT, ENABLE, DISABLE, UNVISIBLE
<1>1. ASSUME NEW i \in ID, Construct(i) PROVE TypeOK'
  BY <1>1, AllocateType DEF Construct, TypeOK
<1>2. ASSUME NEW i \in ID, Destruct(i) PROVE TypeOK'
  BY <1>2 DEF Destruct, TypeOK, objVars, btnVars, appVars, uiVars, mainVars
<1>3. ASSUME NEW i \in ID, InitTitle(i) PROVE TypeOK'
  <2>1. [reg EXCEPT ![i] = NoObj] \in [ID -> Obj \cup {NoObj}]
    BY DEF TypeOK
  <2>2. QED BY <1>3, <2>1, AllocateType DEF InitTitle
<1>4. ASSUME NEW i \in ID, AddButtonEx(i) PROVE TypeOK'
  BY <1>4 DEF AddButtonEx, TypeOK, Status, appVars, uiVars, mainVars
<1>5. ASSUME NEW i \in ID, NEW k \in 0 .. MaxButtons - 1, DelButton(i, k) PROVE TypeOK'
  <2>1. reg[i] \in Obj /\ buttons[reg[i]] \in Seq(Btn)
    BY <1>5 DEF DelButton, TypeOK
  <2>2. RemoveAt(buttons[reg[i]], k + 1) \in Seq(Btn)
    BY <1>5, <2>1, RemoveAtType DEF DelButton
  <2>3. QED
    BY <1>5, <2>1, <2>2 DEF DelButton, TypeOK, btnVars, appVars, uiVars, mainVars
<1>6. ASSUME NEW i \in ID, NEW k \in 0 .. MaxButtons - 1, NEW s \in Status,
             SetButtonStatus(i, k, s) PROVE TypeOK'
  BY <1>6 DEF SetButtonStatus, TypeOK, appVars, uiVars, mainVars
<1>7. ASSUME NEW i \in ID, NEW k \in 0 .. MaxButtons - 1, SetButtonText(i, k) PROVE TypeOK'
  BY <1>7 DEF SetButtonText, TypeOK, btnVars, appVars, uiVars, mainVars
<1>8. ASSUME NEW i \in ID, ShowWithId(i) PROVE TypeOK'
  BY <1>8 DEF ShowWithId, TypeOK, objVars, btnVars, uiVars, mainVars
<1>9. CASE ShowEnter
  BY <1>9 DEF ShowEnter, TypeOK, objVars, btnVars, uiVars, mainVars
<1>10. CASE ShowReset
  BY <1>10 DEF ShowReset, TypeOK, btnVars, uiVars, mainVars
<1>11. CASE ShowPublish
  <2>1. cur \in Obj
    BY <1>11 DEF ShowPublish, TypeOK
  <2>2. Show(cur) \in Block /\ Arm(cur) \in Block
    BY <2>1 DEF Show, Arm, Block
  <2>3. mainQ' \in Seq(Block)
    BY <1>11, <2>2 DEF ShowPublish, TypeOK
  <2>4. /\ btnStatus' \in [Btn -> Status]
        /\ btnTemp' \in [Btn -> BOOLEAN]
        /\ reload' \in [Obj -> BOOLEAN]
    BY <1>11 DEF ShowPublish, TypeOK, Status
  <2>5. QED
    BY <1>11, <2>1, <2>3, <2>4 DEF ShowPublish, TypeOK, mainVars
<1>12. CASE ShowRead
  BY <1>12 DEF ShowRead, TypeOK, objVars, btnVars, uiVars, mainVars
<1>13. CASE ShowClear
  BY <1>13 DEF ShowClear, TypeOK, btnVars, uiVars, mainVars
<1>14. CASE RunBlock
  <2> DEFINE block == Head(mainQ)
  <2>1. /\ block \in Block
        /\ Tail(mainQ) \in Seq(Block)
        /\ block.kind # "reload" => block.obj \in Obj
    BY <1>14, QueueType DEF RunBlock, TypeOK
  <2>2. CASE /\ block.kind = "show"
             /\ ArtiShow(block.obj, Tail(mainQ))
             /\ UNCHANGED <<cells, live>>
    <3>1. block.obj \in Obj
      BY <2>1, <2>2
    <3>2. /\ vc' \in Obj /\ sub' \in BOOLEAN /\ bar' \subseteq Btn /\ mainQ' \in Seq(Block)
          /\ reload' \in [Obj -> BOOLEAN] /\ timer' \in [Obj -> BOOLEAN]
      BY <2>1, <2>2, <3>1, ArtiShowType
    <3>3. QED
      BY <1>14, <2>2, <3>2 DEF RunBlock, TypeOK, btnVars, appVars, mainVars
  <2>3. CASE /\ block.kind = "arm"
             /\ timer' = [timer EXCEPT ![block.obj] = TRUE]
             /\ mainQ' = Tail(mainQ)
             /\ UNCHANGED <<reload, vc, sub, bar, cells, live>>
    BY <1>14, <2>1, <2>3 DEF RunBlock, TypeOK, btnVars, appVars, mainVars
  <2>4. CASE /\ block.kind = "reload"
             /\ Bind(bar, btnStatus)
             /\ mainQ' = Tail(mainQ)
             /\ UNCHANGED <<reload, timer, vc, sub, bar>>
    BY <1>14, <2>1, <2>4 DEF RunBlock, TypeOK, Bind, btnVars, appVars, mainVars
  <2>5. QED
    BY <1>14, <2>2, <2>3, <2>4 DEF RunBlock
<1>15. ASSUME NEW b \in Btn, ClickButton(b) PROVE TypeOK'
  <2>1. /\ btnStatus' \in [Btn -> Status]
        /\ btnTemp' \in [Btn -> BOOLEAN]
        /\ cells' \subseteq Btn
        /\ live' \subseteq cells'
    BY <1>15 DEF ClickButton, TypeOK, Bind, Status
  <2>2. QED
    BY <1>15, <2>1 DEF ClickButton, TypeOK, appVars
<1>16. CASE AcceptClick
  BY <1>16 DEF AcceptClick, TypeOK, btnVars, appVars, uiVars
<1>17. CASE SwallowClick
  <2>1. Reload \in Block
    BY DEF Reload, Block
  <2>2. sub' \in BOOLEAN /\ vc' \in Obj
    BY <1>17, Zenon DEF SwallowClick, TypeOK
  <2>3. other' \in [Obj -> BOOLEAN]
    BY <1>17 DEF SwallowClick, TypeOK
  <2>4. bar' \subseteq Btn /\ mainQ' \in Seq(Block)
    <3>1. \/ bar' = {} /\ mainQ' = Append(mainQ, Reload)
          \/ bar' = bar /\ mainQ' = mainQ
      BY <1>17, Zenon DEF SwallowClick
    <3>2. Append(mainQ, Reload) \in Seq(Block) /\ mainQ \in Seq(Block) /\ bar \subseteq Btn
      BY <2>1 DEF TypeOK
    <3>3. QED BY <3>1, <3>2
  <2>5. /\ mpc' = "idle" /\ clicked' = NoBtn
        /\ UNCHANGED <<reg, owner, buttons, returnID, lastClick, reload, timer, btnId,
                       btnStatus, btnTemp, pc, cur, ret, cells, live, fresh>>
    BY <1>17 DEF SwallowClick, btnVars, appVars
  <2>6. QED
    BY <2>2, <2>3, <2>4, <2>5 DEF TypeOK
<1>18. CASE BackClick
  BY <1>18 DEF BackClick, TypeOK, btnVars, appVars, uiVars
<1>19. CASE SubBackClick
  <2>1. vc \in Obj /\ mainQ \in Seq(Block)
    BY <1>19 DEF SubBackClick, TypeOK
  <2>2. /\ vc' \in Obj /\ sub' \in BOOLEAN /\ bar' \subseteq Btn /\ mainQ' \in Seq(Block)
        /\ reload' \in [Obj -> BOOLEAN] /\ timer' \in [Obj -> BOOLEAN]
    BY <1>19, <2>1, ArtiShowType DEF SubBackClick
  <2>3. other' \in [Obj -> BOOLEAN]
    BY <1>19, <2>1 DEF SubBackClick, TypeOK
  <2>4. QED
    BY <1>19, <2>2, <2>3 DEF SubBackClick, TypeOK, btnVars, appVars, mainVars
<1>20. CASE ConditionSignal
  BY <1>20 DEF ConditionSignal, SignalTo, TypeOK, btnVars, uiVars
<1>21. ASSUME NEW o \in Obj, LockTimer(o) PROVE TypeOK'
  BY <1>21 DEF LockTimer, SignalTo, TypeOK, btnVars, uiVars, mainVars
<1>22. CASE UNCHANGED vars
  BY <1>22 DEF vars, TypeOK, objVars, btnVars, appVars, uiVars, mainVars
<1>23. QED
  BY <1>1, <1>2, <1>3, <1>4, <1>5, <1>6, <1>7, <1>8, <1>9, <1>10, <1>11, <1>12, <1>13, <1>14,
     <1>15, <1>16, <1>17, <1>18, <1>19, <1>20, <1>21, <1>22
  DEF Next, Fill, InShow, User, Main

\* What memory holds at the start is well typed.
LEMMA TypeInit == Init => TypeOK
<1>1. (CHOOSE i \in ID : TRUE) \in ID
  BY ArtiAssumption
<1>2. Init => sub \in BOOLEAN /\ (sub => vc \in Obj)
  BY Zenon DEF Init
<1>3. Init => mainQ \in Seq(Block) /\ buttons \in [Obj -> Seq(Btn)]
  BY DEF Init
<1>4. QED
  BY <1>1, <1>2, <1>3 DEF Init, TypeOK, Status, NOKEY, ENABLE

\* Every variable keeps its type; the thread inside show has an object, and a tap
\* being handled has a screen.
THEOREM TypeCorrect == Spec => []TypeOK
<1>1. Init => TypeOK
  BY TypeInit
<1>2. TypeOK /\ [Next]_vars => TypeOK'
  BY TypeStep
<1>3. QED
  BY <1>1, <1>2, PTL DEF Spec
-----------------------------------------------------------------------------
(* An answer is used once.  The button ids are never DF_ID_NOKEY, so that  *)
(* an answer in returnID can be told from none.                            *)

IdsAreAnswers == \A b \in Btn : btnId[b] # NOKEY

\* Inductive: a returnID without a fresh answer is only the one show is clearing.
FreshInv == TypeOK /\ IdsAreAnswers /\ AnswerIsFresh

\* Whatever a new object's buttons are called, none is called DF_ID_NOKEY.
LEMMA AllocateFresh ==
  ASSUME FreshInv, NEW i \in ID, NEW r \in [ID -> Obj \cup {NoObj}], pc = "run", Allocate(i, r)
  PROVE  /\ IdsAreAnswers'
         /\ \E o \in Obj :
              /\ returnID' = [returnID EXCEPT ![o] = NOKEY]
              /\ fresh' = [fresh EXCEPT ![o] = FALSE]
              /\ UNCHANGED <<pc, cur, ret>>
<1>1. PICK o \in Obj \ Referenced(r), own \in [DOMAIN Builtin[i] -> Btn \ ReferencedBtn] :
        /\ returnID' = [returnID EXCEPT ![o] = NOKEY]
        /\ fresh' = [fresh EXCEPT ![o] = FALSE]
        /\ btnId' = [b \in Btn |-> IF \E n \in DOMAIN own : own[n] = b
                                   THEN Builtin[i][CHOOSE n \in DOMAIN own : own[n] = b]
                                   ELSE btnId[b]]
        /\ UNCHANGED <<pc, cur, ret>>
  BY DEF Allocate, appVars
<1>2. ASSUME NEW b \in Btn PROVE btnId'[b] # NOKEY
  <2>1. CASE \E n \in DOMAIN own : own[n] = b
    <3>1. (CHOOSE n \in DOMAIN own : own[n] = b) \in DOMAIN Builtin[i]
      BY <2>1
    <3>2. Builtin[i][CHOOSE n \in DOMAIN own : own[n] = b] \in Range(Builtin[i])
      BY <3>1 DEF Range
    <3>3. QED BY <1>1, <2>1, <3>2, ArtiAssumption
  <2>2. CASE ~\E n \in DOMAIN own : own[n] = b
    BY <1>1, <2>2 DEF FreshInv, IdsAreAnswers
  <2>3. QED BY <2>1, <2>2
<1>3. QED
  BY <1>1, <1>2 DEF IdsAreAnswers

\* FreshInv is inductive.
LEMMA FreshStep ==
  ASSUME FreshInv, [Next]_vars
  PROVE  FreshInv'
<1> USE DEF NOKEY, BACK, REPORT
<1>0. TypeOK /\ IdsAreAnswers /\ AnswerIsFresh /\ TypeOK'
  BY TypeStep DEF FreshInv
<1> SUFFICES IdsAreAnswers' /\ AnswerIsFresh'
  BY <1>0 DEF FreshInv
<1>1. ASSUME NEW i \in ID, NEW r \in [ID -> Obj \cup {NoObj}], pc = "run", Allocate(i, r)
      PROVE  IdsAreAnswers' /\ AnswerIsFresh'
  <2>1. PICK o \in Obj :
          /\ returnID' = [returnID EXCEPT ![o] = NOKEY]
          /\ fresh' = [fresh EXCEPT ![o] = FALSE]
          /\ UNCHANGED <<pc, cur, ret>>
    BY <1>1, AllocateFresh
  <2>2. AnswerIsFresh'
    BY <1>0, <1>1, <2>1 DEF AnswerIsFresh, TypeOK
  <2>3. QED BY <1>1, <2>2, AllocateFresh
<1>2. ASSUME NEW i \in ID, Construct(i) \/ InitTitle(i)
      PROVE  IdsAreAnswers' /\ AnswerIsFresh'
  <2>1. reg \in [ID -> Obj \cup {NoObj}] /\ [reg EXCEPT ![i] = NoObj] \in [ID -> Obj \cup {NoObj}]
    BY <1>0 DEF TypeOK
  <2>2. QED BY <1>1, <1>2, <2>1 DEF Construct, InitTitle
<1>3. ASSUME NEW i \in ID, AddButtonEx(i) PROVE IdsAreAnswers' /\ AnswerIsFresh'
  <2>1. AnswerIsFresh'
    BY <1>0, <1>3 DEF AddButtonEx, AnswerIsFresh, appVars
  <2>2. Len(buttons[reg[i]]) \in Nat
    BY <1>0, <1>3 DEF AddButtonEx, TypeOK
  <2>3. IdsAreAnswers'
    BY <1>0, <1>3, <2>2 DEF AddButtonEx, IdsAreAnswers, TypeOK
  <2>4. QED BY <2>1, <2>3
<1>4. ASSUME UNCHANGED <<btnId, returnID, fresh>>,
             UNCHANGED <<pc, cur>> \/ (pc # "clear" /\ pc' # "clear")
      PROVE  IdsAreAnswers' /\ AnswerIsFresh'
  BY <1>0, <1>4 DEF IdsAreAnswers, AnswerIsFresh
<1>5. CASE ShowReset
  BY <1>0, <1>5 DEF ShowReset, IdsAreAnswers, AnswerIsFresh, TypeOK, btnVars
<1>6. CASE ShowRead
  BY <1>0, <1>6 DEF ShowRead, IdsAreAnswers, AnswerIsFresh, TypeOK, btnVars, objVars
<1>7. CASE ShowClear
  BY <1>0, <1>7 DEF ShowClear, IdsAreAnswers, AnswerIsFresh, TypeOK, btnVars
<1>8. CASE AcceptClick
  BY <1>0, <1>8 DEF AcceptClick, IdsAreAnswers, AnswerIsFresh, TypeOK, btnVars, appVars
<1>9. CASE BackClick
  BY <1>0, <1>9 DEF BackClick, IdsAreAnswers, AnswerIsFresh, TypeOK, btnVars, appVars
<1>10. CASE \E i \in ID : Destruct(i) \/ ShowWithId(i)
  BY <1>4, <1>10 DEF Destruct, ShowWithId, objVars, btnVars, appVars
<1>11. CASE \E i \in ID, k \in 0 .. MaxButtons - 1 :
             DelButton(i, k) \/ SetButtonText(i, k) \/ \E s \in Status : SetButtonStatus(i, k, s)
  BY <1>4, <1>11 DEF DelButton, SetButtonText, SetButtonStatus, btnVars, appVars
<1>12. CASE ShowEnter
  BY <1>4, <1>12 DEF ShowEnter, objVars, btnVars
<1>13. CASE ShowPublish
  BY <1>4, <1>13 DEF ShowPublish
<1>14. CASE RunBlock
  BY <1>4, <1>14 DEF RunBlock, btnVars, appVars
<1>15. CASE SwallowClick
  BY <1>4, <1>15 DEF SwallowClick, btnVars, appVars
<1>16. CASE SubBackClick
  BY <1>4, <1>16 DEF SubBackClick, btnVars, appVars
<1>17. CASE ConditionSignal
  BY <1>4, <1>17 DEF ConditionSignal, SignalTo, btnVars
<1>18. CASE \E b \in Btn : ClickButton(b)
  BY <1>4, <1>18 DEF ClickButton, appVars
<1>19. CASE \E o \in Obj : LockTimer(o)
  BY <1>4, <1>19 DEF LockTimer, SignalTo, btnVars
<1>20. CASE UNCHANGED vars
  BY <1>4, <1>20 DEF vars, objVars, btnVars, appVars
<1>21. QED
  BY <1>2, <1>3, <1>5, <1>6, <1>7, <1>8, <1>9, <1>10, <1>11, <1>12, <1>13, <1>14, <1>15,
     <1>16, <1>17, <1>18, <1>19, <1>20
  DEF Next, Fill, InShow, User, Main

\* An answer reaches the vehicle application at most once, for any number of screens.
THEOREM AnswersAreFresh == Spec => []AnswerIsFresh
<1>1. Init => FreshInv
  <2>1. Init => TypeOK
    BY TypeInit
  <2>2. QED BY <2>1 DEF Init, FreshInv, IdsAreAnswers, AnswerIsFresh, NOKEY
<1>2. FreshInv /\ [Next]_vars => FreshInv'
  BY FreshStep
<1>3. FreshInv => AnswerIsFresh
  BY DEF FreshInv
<1>4. QED
  BY <1>1, <1>2, <1>3, PTL DEF Spec
-----------------------------------------------------------------------------
(* The waiting thread can be reached.  Other screens' show blocks may be   *)
(* queued, and may replace the waiter's screen, but only before its own    *)
(* block has run.                                                          *)

\* No block of another screen's show comes after position n of the queue.
LastAsked(n) ==
  \A m \in DOMAIN mainQ : m > n /\ mainQ[m].kind = "show" => mainQ[m].obj = cur

\* The waiter's own block is queued, and is the last to change the screen.
QueuedFor(n) == mainQ[n] \in {Show(cur), Arm(cur)} /\ LastAsked(n)

\* Its timer runs, its block is queued, or its screen is up to stay.
WillBeReached ==
  timer[cur] \/ (\E n \in DOMAIN mainQ : QueuedFor(n)) \/ (vc = cur /\ LastAsked(0))

WaiterInv == TypeOK /\ (pc = "wait" => WillBeReached)

\* Reloading the button bar, or nothing at all, leaves the waiter reachable.
LEMMA ReachKept ==
  ASSUME TypeOK, TypeOK', WillBeReached, cur \in Obj, cur' = cur, vc' = vc,
         timer[cur] => timer'[cur],
         mainQ' = mainQ \/ mainQ' = Append(mainQ, Reload)
  PROVE  WillBeReached'
<1>1. mainQ \in Seq(Block) /\ mainQ' \in Seq(Block)
  BY DEF TypeOK
<1>2. \A n \in DOMAIN mainQ : n \in DOMAIN mainQ' /\ mainQ'[n] = mainQ[n]
  BY <1>1 DEF Reload, Block
<1>3. \A n \in DOMAIN mainQ' : n \in DOMAIN mainQ \/ mainQ'[n].kind # "show"
  BY <1>1 DEF Reload, Block
<1>4. \A n : LastAsked(n) => LastAsked(n)'
  BY <1>2, <1>3 DEF LastAsked
<1>5. CASE timer[cur]
  BY <1>5 DEF WillBeReached
<1>6. CASE \E n \in DOMAIN mainQ : QueuedFor(n)
  BY <1>2, <1>4, <1>6 DEF WillBeReached, QueuedFor, Show, Arm
<1>7. CASE vc = cur /\ LastAsked(0)
  BY <1>4, <1>7 DEF WillBeReached
<1>8. QED
  BY <1>5, <1>6, <1>7 DEF WillBeReached

\* A block taken off the queue either brings the waiter's screen up, starts its
\* timer, or leaves it as reachable as before.
LEMMA ReachRunBlock ==
  ASSUME TypeOK, TypeOK', WillBeReached, cur \in Obj, RunBlock
  PROVE  WillBeReached'
<1> DEFINE block == Head(mainQ)
<1>1. /\ mainQ \in Seq(Block) /\ mainQ # <<>> /\ block \in Block /\ Tail(mainQ) \in Seq(Block)
      /\ block = mainQ[1] /\ cur' = cur
  BY DEF RunBlock, TypeOK, appVars
<1>2. /\ \A n \in DOMAIN Tail(mainQ) : n + 1 \in DOMAIN mainQ /\ Tail(mainQ)[n] = mainQ[n + 1]
      /\ \A n \in DOMAIN mainQ : n # 1 => n - 1 \in DOMAIN Tail(mainQ) /\ Tail(mainQ)[n - 1] = mainQ[n]
  BY <1>1
<1>3. CASE block.kind = "show" /\ ArtiShow(block.obj, Tail(mainQ))
  <2>1. /\ vc' = block.obj
        /\ timer[cur] => timer'[cur]
        /\ mainQ' = Tail(mainQ) \/ mainQ' = Append(Tail(mainQ), Reload)
    BY <1>3 DEF ArtiShow, TypeOK
  <2>2. /\ \A n \in DOMAIN Tail(mainQ) : n \in DOMAIN mainQ' /\ mainQ'[n] = Tail(mainQ)[n]
        /\ \A n \in DOMAIN mainQ' : n \in DOMAIN Tail(mainQ) \/ mainQ'[n].kind # "show"
    BY <1>1, <2>1 DEF Reload, Block
  <2>3. \A n \in DOMAIN mainQ : LastAsked(n) => LastAsked(n - 1)'
    BY <1>1, <1>2, <2>2 DEF LastAsked
  <2>4. CASE timer[cur]
    BY <1>1, <2>1, <2>4 DEF WillBeReached
  <2>5. CASE \E n \in DOMAIN mainQ : QueuedFor(n)
    <3>1. PICK n \in DOMAIN mainQ : QueuedFor(n)
      BY <2>5
    <3>2. CASE n = 1
      <4>1. block.obj = cur
        BY <1>1, <3>1, <3>2 DEF QueuedFor, Show, Arm
      <4>2. LastAsked(0)'
        BY <2>3, <3>1, <3>2 DEF QueuedFor
      <4>3. QED BY <1>1, <2>1, <4>1, <4>2 DEF WillBeReached
    <3>3. CASE n # 1
      <4>1. n - 1 \in DOMAIN mainQ' /\ mainQ'[n - 1] = mainQ[n]
        BY <1>2, <2>2, <3>3
      <4>2. QueuedFor(n - 1)'
        BY <1>1, <2>3, <3>1, <4>1 DEF QueuedFor, Show, Arm
      <4>3. QED BY <4>1, <4>2 DEF WillBeReached
    <3>4. QED BY <3>2, <3>3
  <2>6. CASE vc = cur /\ LastAsked(0)
    <3>1. 1 \in DOMAIN mainQ
      BY <1>1
    <3>2. block.obj = cur
      BY <1>1, <1>3, <2>6, <3>1 DEF LastAsked
    <3>3. LastAsked(1)
      BY <1>1, <2>6 DEF LastAsked
    <3>4. LastAsked(0)'
      BY <2>3, <3>1, <3>3
    <3>5. QED BY <1>1, <2>1, <3>2, <3>4 DEF WillBeReached
  <2>7. QED
    BY <2>4, <2>5, <2>6 DEF WillBeReached
<1>4. CASE block.kind # "show"
  <2>1. vc' = vc /\ mainQ' = Tail(mainQ)
    BY <1>4 DEF RunBlock
  <2>2. /\ timer[cur] => timer'[cur]
        /\ block = Arm(cur) => timer'[cur]
    BY <1>1, <1>4 DEF RunBlock, TypeOK, Arm
  <2>3. \A n \in DOMAIN mainQ : LastAsked(n) => LastAsked(n - 1)'
    BY <1>1, <1>2, <2>1 DEF LastAsked
  <2>4. CASE timer[cur]
    BY <1>1, <2>2, <2>4 DEF WillBeReached
  <2>5. CASE \E n \in DOMAIN mainQ : QueuedFor(n)
    <3>1. PICK n \in DOMAIN mainQ : QueuedFor(n)
      BY <2>5
    <3>2. CASE n = 1
      BY <1>1, <1>4, <2>2, <3>1, <3>2 DEF QueuedFor, WillBeReached, Show
    <3>3. CASE n # 1
      <4>1. n - 1 \in DOMAIN mainQ' /\ mainQ'[n - 1] = mainQ[n]
        BY <1>2, <2>1, <3>3
      <4>2. QueuedFor(n - 1)'
        BY <1>1, <2>3, <3>1, <4>1 DEF QueuedFor, Show, Arm
      <4>3. QED BY <4>1, <4>2 DEF WillBeReached
    <3>4. QED BY <3>2, <3>3
  <2>6. CASE vc = cur /\ LastAsked(0)
    <3>1. LastAsked(0)'
      BY <1>1, <1>2, <2>1, <2>6 DEF LastAsked
    <3>2. QED BY <1>1, <2>1, <2>6, <3>1 DEF WillBeReached
  <2>7. QED
    BY <2>4, <2>5, <2>6 DEF WillBeReached
<1>5. QED
  BY <1>3, <1>4 DEF RunBlock

\* WaiterInv is inductive.
LEMMA WaiterStep ==
  ASSUME WaiterInv, [Next]_vars
  PROVE  WaiterInv'
<1>1. TypeOK /\ TypeOK' /\ (pc = "wait" => WillBeReached)
  BY TypeStep DEF WaiterInv
<1> SUFFICES ASSUME pc' = "wait" PROVE WillBeReached'
  BY <1>1 DEF WaiterInv
<1>2. CASE ShowPublish
  <2>0. PICK last \in Nat : last = Len(mainQ) + 1
    BY <1>1 DEF TypeOK
  <2>1. /\ mainQ \in Seq(Block) /\ cur' = cur
        /\ mainQ' = Append(mainQ, Show(cur)) \/ mainQ' = Append(mainQ, Arm(cur))
    BY <1>1, <1>2 DEF ShowPublish, TypeOK
  <2>2. last \in DOMAIN mainQ' /\ mainQ'[last] \in {Show(cur), Arm(cur)}
    BY <2>0, <2>1
  <2>3. LastAsked(last)'
    BY <2>0, <2>1 DEF LastAsked
  <2>4. QueuedFor(last)'
    BY <2>1, <2>2, <2>3 DEF QueuedFor, Show, Arm
  <2>5. QED BY <2>2, <2>4 DEF WillBeReached
<1>3. ASSUME UNCHANGED <<pc, cur, vc, timer>>,
             mainQ' = mainQ \/ mainQ' = Append(mainQ, Reload)
      PROVE  WillBeReached'
  BY <1>1, <1>3, ReachKept DEF TypeOK
<1>4. CASE RunBlock
  <2>1. pc = "wait" /\ cur \in Obj
    BY <1>1, <1>4 DEF RunBlock, appVars, TypeOK
  <2>2. QED BY <1>1, <1>4, <2>1, ReachRunBlock
<1>5. CASE SubBackClick
  <2>1. pc = "wait" /\ cur' = cur /\ cur \in Obj
    BY <1>1, <1>5 DEF SubBackClick, appVars, TypeOK
  <2>2. /\ vc' = vc
        /\ timer[cur] => timer'[cur]
        /\ mainQ' = mainQ \/ mainQ' = Append(mainQ, Reload)
    BY <1>1, <1>5 DEF SubBackClick, ArtiShow, TypeOK
  <2>3. QED BY <1>1, <2>1, <2>2, ReachKept
<1>6. ASSUME NEW o \in Obj, SignalTo(o), timer' = [timer EXCEPT ![o] = FALSE],
             UNCHANGED <<cur, vc, mainQ>>
      PROVE  WillBeReached'
  <2>1. pc = "wait" /\ cur # o /\ cur \in Obj
    BY <1>1, <1>6 DEF SignalTo, TypeOK
  <2>2. timer[cur] => timer'[cur]
    BY <1>1, <1>6, <2>1 DEF TypeOK
  <2>3. QED BY <1>1, <1>6, <2>1, <2>2, ReachKept
<1>7. CASE ConditionSignal
  BY <1>1, <1>6, <1>7 DEF ConditionSignal, TypeOK, uiVars
<1>8. CASE \E o \in Obj : LockTimer(o)
  BY <1>1, <1>6, <1>8 DEF LockTimer, uiVars
<1>9. ASSUME NEW i \in ID, NEW r, pc = "run", Allocate(i, r)
      PROVE  FALSE
  BY <1>9 DEF Allocate, appVars
<1>10. CASE Fill \/ \E i \in ID : ShowWithId(i)
  BY <1>3, <1>9, <1>10
  DEF Fill, Construct, Destruct, InitTitle, AddButtonEx, DelButton, SetButtonText,
      SetButtonStatus, ShowWithId, appVars
<1>11. CASE ShowEnter \/ ShowReset \/ ShowRead \/ ShowClear
  BY <1>11 DEF ShowEnter, ShowReset, ShowRead, ShowClear
<1>12. CASE AcceptClick \/ BackClick
  BY <1>3, <1>12 DEF AcceptClick, BackClick, appVars, uiVars
<1>13. CASE SwallowClick
  BY <1>3, <1>13 DEF SwallowClick, appVars
<1>14. CASE \E b \in Btn : ClickButton(b)
  BY <1>3, <1>14 DEF ClickButton, appVars
<1>15. CASE UNCHANGED vars
  BY <1>3, <1>15 DEF vars, objVars, appVars, uiVars
<1>16. QED
  BY <1>2, <1>4, <1>5, <1>7, <1>8, <1>10, <1>11, <1>12, <1>13, <1>14, <1>15
  DEF Next, InShow, User, Main

\* The thread that waits in show can always be reached, however screens replace,
\* cover and destroy one another.
THEOREM WaitersAreReachable == Spec => []WaiterReachable
<1>1. Init => WaiterInv
  BY TypeInit DEF Init, WaiterInv
<1>2. WaiterInv /\ [Next]_vars => WaiterInv'
  BY WaiterStep
<1>3. WaiterInv => WaiterReachable
  BY DEF WaiterInv, WillBeReached, QueuedFor, WaiterReachable
<1>4. QED
  BY <1>1, <1>2, <1>3, PTL DEF Spec
-----------------------------------------------------------------------------
(* ArtiModel implements Dialog.                                            *)

\* A box holds the answers the user has given and nobody has taken.
Box == {o \in Obj : fresh[o] /\ returnID[o] # NOKEY}

\* A step that touches neither an answer nor the progress of show is invisible.
LEMMA Invisible ==
  ASSUME UNCHANGED <<cur, ret, returnID, fresh>>,
         PhaseOf[pc'] = PhaseOf[pc], pc' = "clear" <=> pc = "clear"
  PROVE  UNCHANGED Abstract!dvars
<1>1. UNCHANGED Box
  BY DEF Box
<1>2. QED
  BY <1>1 DEF Abstract!dvars, Box

\* Constructing a screen discards the answer its memory held.
LEMMA AllocateDiscards ==
  ASSUME FreshInv, NEW i \in ID, NEW r \in [ID -> Obj \cup {NoObj}], pc = "run", Allocate(i, r)
  PROVE  Abstract!Next
<1>1. PICK o \in Obj :
        /\ returnID' = [returnID EXCEPT ![o] = NOKEY]
        /\ fresh' = [fresh EXCEPT ![o] = FALSE]
        /\ UNCHANGED <<pc, cur, ret>>
  BY AllocateFresh
<1>2. Box' = Box \ {o}
  BY <1>1 DEF FreshInv, TypeOK, Box
<1>3. PhaseOf[pc] = "idle"
  BY DEF PhaseOf
<1>4. Abstract!Discard(o)
  BY <1>1, <1>2, <1>3 DEF Abstract!Discard, Box
<1>5. QED
  BY <1>4 DEF Abstract!Next

\* Every step of ArtiModel is a step of Dialog, or none.
LEMMA DialogStep ==
  ASSUME FreshInv, [Next]_vars
  PROVE  [Abstract!Next]_Abstract!dvars
<1> USE DEF NOKEY, BACK, REPORT
<1>0. TypeOK /\ IdsAreAnswers /\ AnswerIsFresh
  BY DEF FreshInv
<1>1. ASSUME NEW i \in ID, Construct(i) \/ InitTitle(i) PROVE Abstract!Next
  <2>1. reg \in [ID -> Obj \cup {NoObj}] /\ [reg EXCEPT ![i] = NoObj] \in [ID -> Obj \cup {NoObj}]
    BY <1>0 DEF TypeOK
  <2>2. QED BY <1>1, <2>1, AllocateDiscards DEF Construct, InitTitle
<1>2. ASSUME NEW i \in ID, ShowWithId(i) PROVE Abstract!Next
  <2>1. /\ reg[i] \in Obj /\ cur' = reg[i]
        /\ pc = "run" /\ pc' = "enter" /\ UNCHANGED <<returnID, fresh>>
    BY <1>0, <1>2 DEF ShowWithId, TypeOK, objVars
  <2>2. UNCHANGED Box
    BY <2>1 DEF Box
  <2>3. PhaseOf[pc] = "idle" /\ PhaseOf[pc'] = "entering"
    BY <2>1 DEF PhaseOf
  <2>4. Abstract!Ask(reg[i])
    BY <2>1, <2>2, <2>3 DEF Abstract!Ask, Box
  <2>5. QED BY <2>1, <2>4 DEF Abstract!Next
<1>3. CASE ShowReset
  <2>1. /\ pc = "reset" /\ pc' = "publish" /\ cur \in Obj /\ UNCHANGED <<cur, ret, fresh>>
        /\ returnID' = [returnID EXCEPT ![cur] = NOKEY]
    BY <1>0, <1>3 DEF ShowReset, TypeOK
  <2>2. Box' = Box \ {cur}
    BY <1>0, <2>1 DEF TypeOK, Box
  <2>3. PhaseOf[pc] = "entering" /\ PhaseOf[pc'] = "entering"
    BY <2>1 DEF PhaseOf
  <2>4. PICK o \in Obj : o = cur
    BY <2>1
  <2>5. Abstract!Discard(o)
    BY <2>1, <2>2, <2>3, <2>4 DEF Abstract!Discard, Box
  <2>6. QED BY <2>5 DEF Abstract!Next
<1>4. CASE ShowPublish
  <2>1. pc = "publish" /\ pc' = "wait" /\ UNCHANGED <<cur, ret, returnID, fresh>>
    BY <1>4 DEF ShowPublish
  <2>2. UNCHANGED Box
    BY <2>1 DEF Box
  <2>3. PhaseOf[pc] = "entering" /\ PhaseOf[pc'] = "waiting"
    BY <2>1 DEF PhaseOf
  <2>4. Abstract!Wait
    BY <2>1, <2>2, <2>3 DEF Abstract!Wait, Box
  <2>5. QED BY <2>4 DEF Abstract!Next
<1>5. CASE ShowRead
  <2>1. /\ pc = "woken" /\ pc' = "clear" /\ cur \in Obj /\ UNCHANGED <<cur, returnID>>
        /\ ret' = returnID[cur] /\ fresh' = [fresh EXCEPT ![cur] = FALSE]
    BY <1>0, <1>5 DEF ShowRead, TypeOK, objVars
  <2>2. Box' = Box \ {cur}
    BY <1>0, <2>1 DEF TypeOK, Box
  <2>3. cur \in Box <=> ret' # NOKEY
    BY <1>0, <2>1 DEF AnswerIsFresh, Box
  <2>4. PhaseOf[pc] = "waiting" /\ PhaseOf[pc'] = "replying"
    BY <2>1 DEF PhaseOf
  <2>5. Abstract!Take
    BY <2>1, <2>2, <2>3, <2>4 DEF Abstract!Take, Box
  <2>6. QED BY <2>5 DEF Abstract!Next
<1>6. CASE ShowClear
  <2>1. /\ pc = "clear" /\ pc' = "run" /\ cur \in Obj /\ cur' = NoObj
        /\ returnID' = [returnID EXCEPT ![cur] = NOKEY] /\ UNCHANGED fresh
    BY <1>0, <1>6 DEF ShowClear, TypeOK
  <2>2. Box' = Box \ {cur}
    BY <1>0, <2>1 DEF TypeOK, Box
  <2>3. PhaseOf[pc] = "replying" /\ PhaseOf[pc'] = "idle"
    BY <2>1 DEF PhaseOf
  <2>4. Abstract!Return
    BY <2>1, <2>2, <2>3 DEF Abstract!Return, Box
  <2>5. QED BY <2>4 DEF Abstract!Next
<1>7. CASE AcceptClick \/ BackClick
  <2>1. /\ vc \in Obj /\ UNCHANGED <<pc, cur, ret>> /\ fresh' = [fresh EXCEPT ![vc] = TRUE]
        /\ \E id \in Int : id # NOKEY /\ returnID' = [returnID EXCEPT ![vc] = id]
    BY <1>0, <1>7 DEF AcceptClick, BackClick, TypeOK, IdsAreAnswers, appVars
  <2>2. Box' = Box \cup {vc}
    BY <1>0, <2>1 DEF TypeOK, Box
  <2>3. PICK o \in Obj : o = vc
    BY <2>1
  <2>4. Abstract!Answer(o)
    BY <2>1, <2>2, <2>3 DEF Abstract!Answer, Box
  <2>5. QED BY <2>4 DEF Abstract!Next
<1>8. ASSUME UNCHANGED <<cur, ret, returnID, fresh>>,
             \/ UNCHANGED pc
             \/ pc = "wait" /\ pc' = "woken"
             \/ pc = "enter" /\ pc' \in {"reset", "publish"}
      PROVE  UNCHANGED Abstract!dvars
  <2>1. PhaseOf[pc'] = PhaseOf[pc] /\ (pc' = "clear" <=> pc = "clear")
    BY <1>8 DEF PhaseOf
  <2>2. QED BY <1>8, <2>1, Invisible
<1>9. CASE \E i \in ID : AddButtonEx(i) \/ Destruct(i)
  BY <1>8, <1>9 DEF AddButtonEx, Destruct, objVars, btnVars, appVars
<1>10. CASE \E i \in ID, k \in 0 .. MaxButtons - 1 :
             DelButton(i, k) \/ SetButtonText(i, k) \/ \E s \in Status : SetButtonStatus(i, k, s)
  BY <1>8, <1>10 DEF DelButton, SetButtonText, SetButtonStatus, btnVars, appVars
<1>11. CASE ShowEnter
  BY <1>8, <1>11 DEF ShowEnter, objVars, btnVars
<1>12. CASE RunBlock
  BY <1>8, <1>12 DEF RunBlock, btnVars, appVars
<1>13. CASE SwallowClick
  BY <1>8, <1>13 DEF SwallowClick, btnVars, appVars
<1>14. CASE SubBackClick
  BY <1>8, <1>14 DEF SubBackClick, btnVars, appVars
<1>15. CASE ConditionSignal
  BY <1>8, <1>15 DEF ConditionSignal, SignalTo, btnVars
<1>16. CASE \E b \in Btn : ClickButton(b)
  BY <1>8, <1>16 DEF ClickButton, appVars
<1>17. CASE \E o \in Obj : LockTimer(o)
  BY <1>8, <1>17 DEF LockTimer, SignalTo, btnVars
<1>18. CASE UNCHANGED vars
  BY <1>8, <1>18 DEF vars, objVars, btnVars, appVars
<1>19. QED
  BY <1>1, <1>2, <1>3, <1>4, <1>5, <1>6, <1>7, <1>9, <1>10, <1>11, <1>12, <1>13, <1>14, <1>15,
     <1>16, <1>17, <1>18
  DEF Next, Fill, InShow, User, Main

\* The handshake of threads, queue, views and timers is the abstract dialogue: an
\* answer is handed over at most once and never lost once show waits.
THEOREM DialogImplemented == Spec => ImplementsDialog
<1>1. Init => Abstract!Init
  BY DEF Init, Abstract!Init, PhaseOf
<1>2. Init => FreshInv
  BY TypeInit DEF Init, FreshInv, IdsAreAnswers, AnswerIsFresh, NOKEY
<1>3. FreshInv /\ [Next]_vars => FreshInv'
  BY FreshStep
<1>4. FreshInv /\ [Next]_vars => [Abstract!Next]_Abstract!dvars
  BY DialogStep
<1>5. QED
  BY <1>1, <1>2, <1>3, <1>4, PTL DEF Spec, ImplementsDialog, Abstract!Spec
-----------------------------------------------------------------------------
(* What is on the screen is what the model holds, and which answers given  *)
(* early are kept.                                                         *)

\* The objects something points to.
Held == Referenced(reg) \cap Obj

\* No button belongs to two of them.
Apart == \A o, p \in Held : o # p => Range(buttons[o]) \cap Range(buttons[p]) = {}

\* No screen is born with two report buttons, and none swallows the tap of a report
\* button that greys itself.
OneReport ==
  /\ REPORT \notin SwallowIds
  /\ \A i \in ID : \A m, n \in DOMAIN Builtin[i] :
       Builtin[i][m] = REPORT /\ Builtin[i][n] = REPORT => m = n

Reports ==
  \A o \in Held : \A m, n \in DOMAIN buttons[o] :
    btnId[buttons[o][m]] = REPORT /\ btnId[buttons[o][n]] = REPORT => m = n

Visible(o) == {b \in Range(buttons[o]) : btnStatus[b] # UNVISIBLE}
NoReload == \A n \in DOMAIN mainQ : mainQ[n] # Reload
Bound == cells = bar /\ live = {b \in bar : btnStatus[b] = ENABLE}

\* A hidden report button whose cell was still there for a tap: greyed, and so no
\* longer hidden.
Ghosts(o) == {b \in Visible(o) : b \notin bar}

\* The bar has the screen's buttons unless a reload is asked for; the cells have
\* the bar's unless a block for them is queued.
Showing ==
  vc \in Obj /\ ~sub /\ ~reload[vc] =>
    /\ bar \subseteq Visible(vc)
    /\ \A b \in Ghosts(vc) : btnTemp[b] /\ btnId[b] = REPORT
    /\ NoReload => Bound

\* While the thread waits a ghost can only be of a tap still being handled.
Ghostless ==
  pc = "wait" /\ vc = cur /\ ~sub /\ ~reload[vc] =>
    \/ Ghosts(vc) = {}
    \/ mpc = "signal"
    \/ mpc = "accept" /\ btnId[clicked] = REPORT

\* A reload asked for before the thread has begun to wait is on its way.
Coming == pc = "wait" /\ reload[cur] => other[cur] \/ \E n \in DOMAIN mainQ : mainQ[n] = Show(cur)

ScreenInv == TypeOK /\ Apart /\ Reports /\ Showing /\ Ghostless /\ Coming

\* An answer other than "back" is the last clicked button's, or is about to be
\* overwritten by it.
Named ==
  \A o \in Held : returnID[o] \notin {NOKEY, BACK} =>
    /\ lastClick[o] \in Btn
    /\ returnID[o] = btnId[lastClick[o]] \/ (mpc = "accept" /\ vc = o)

Clicked == mpc = "accept" => clicked = lastClick[vc]

AnswerInv == TypeOK /\ Named /\ Clicked

\* A swallowed tap would replace lastClickButtonModel and leave returnID alone.
NoSwallow == SwallowIds = {}
-----------------------------------------------------------------------------
(* What is held.                                                           *)

\* An object is held while objectDic, the view controller, a block, a timer or show has it.
LEMMA HeldIs ==
  ASSUME TypeOK, NEW o \in Obj
  PROVE  o \in Held <=> \/ \E i \in ID : reg[i] = o
                        \/ vc = o
                        \/ \E n \in DOMAIN mainQ : mainQ[n].obj = o
                        \/ timer[o]
                        \/ cur = o
BY DEF Held, Referenced, Range, TypeOK

\* The same after a step.
LEMMA HeldIsNext ==
  ASSUME TypeOK', NEW o \in Obj
  PROVE  o \in Held' <=> \/ \E i \in ID : reg'[i] = o
                         \/ vc' = o
                         \/ \E n \in DOMAIN mainQ' : mainQ'[n].obj = o
                         \/ timer'[o]
                         \/ cur' = o
BY DEF Held, Referenced, Range, TypeOK

\* The buttons of a held object, and the one last clicked there, are not free memory.
LEMMA HeldButtons ==
  ASSUME TypeOK, NEW o \in Held
  PROVE  Range(buttons[o]) \subseteq ReferencedBtn /\ lastClick[o] \in ReferencedBtn
BY DEF Held, ReferencedBtn

\* A held object's buttonArr holds buttons, none of them free memory.
LEMMA HeldRange ==
  ASSUME TypeOK, NEW o \in Held
  PROVE  /\ o \in Obj /\ buttons[o] \in Seq(Btn)
         /\ Range(buttons[o]) \subseteq ReferencedBtn /\ Range(buttons[o]) \subseteq Btn
<1>1. o \in Obj BY DEF Held
<1>2. buttons[o] \in Seq(Btn) BY <1>1 DEF TypeOK
<1>3. Range(buttons[o]) \subseteq Btn BY <1>2 DEF Range
<1> QED BY <1>1, <1>2, <1>3, HeldButtons

\* Whatever is registered, shown, queued, waited in or timed is held.
LEMMA HeldObjects ==
  ASSUME TypeOK
  PROVE  /\ Held \subseteq Obj
         /\ \A i \in ID : reg[i] \in Obj => reg[i] \in Held
         /\ vc \in Obj => vc \in Held
         /\ cur \in Obj => cur \in Held
         /\ \A n \in DOMAIN mainQ : mainQ[n].obj \in Obj => mainQ[n].obj \in Held
         /\ \A o \in Obj : timer[o] => o \in Held
BY HeldIs DEF Held

\* Appending an element adds it to what the sequence holds.
LEMMA AppendItems ==
  ASSUME NEW S, NEW s \in Seq(S), NEW e \in S
  PROVE  Range(Append(s, e)) = Range(s) \cup {e}
<1>1. /\ DOMAIN s = 1 .. Len(s) /\ Len(s) \in Nat
      /\ DOMAIN Append(s, e) = 1 .. Len(s) + 1
      /\ Append(s, e)[Len(s) + 1] = e
      /\ \A n \in 1 .. Len(s) : Append(s, e)[n] = s[n]
  OBVIOUS
<1>2. Range(Append(s, e)) \subseteq Range(s) \cup {e} BY <1>1 DEF Range
<1>3. e \in Range(Append(s, e)) BY <1>1 DEF Range
<1>4. Range(s) \subseteq Range(Append(s, e)) BY <1>1 DEF Range
<1> QED BY <1>2, <1>3, <1>4

\* Deleting a position of a sequence closes the gap.
LEMMA RemoveAtItems ==
  ASSUME NEW S, NEW s \in Seq(S), NEW k \in 1 .. Len(s)
  PROVE  /\ DOMAIN RemoveAt(s, k) = 1 .. Len(s) - 1
         /\ \A n \in 1 .. Len(s) - 1 : RemoveAt(s, k)[n] = IF n < k THEN s[n] ELSE s[n + 1]
<1>1. /\ SubSeq(s, 1, k - 1) \in Seq(S) /\ Len(SubSeq(s, 1, k - 1)) = k - 1
      /\ \A n \in 1 .. k - 1 : SubSeq(s, 1, k - 1)[n] = s[n]
  OBVIOUS
<1>2. /\ SubSeq(s, k + 1, Len(s)) \in Seq(S) /\ Len(SubSeq(s, k + 1, Len(s))) = Len(s) - k
      /\ \A n \in 1 .. Len(s) - k : SubSeq(s, k + 1, Len(s))[n] = s[n + k]
  OBVIOUS
<1>3. RemoveAt(s, k) = SubSeq(s, 1, k - 1) \o SubSeq(s, k + 1, Len(s)) BY DEF RemoveAt
<1> DEFINE a == SubSeq(s, 1, k - 1)
           b == SubSeq(s, k + 1, Len(s))
<1> HIDE DEF a, b
<1>4. /\ a \in Seq(S) /\ Len(a) = k - 1 /\ \A n \in 1 .. k - 1 : a[n] = s[n]
      /\ b \in Seq(S) /\ Len(b) = Len(s) - k /\ \A n \in 1 .. Len(s) - k : b[n] = s[n + k]
  BY <1>1, <1>2 DEF a, b
<1>5. /\ DOMAIN (a \o b) = 1 .. Len(s) - 1
      /\ \A n \in 1 .. Len(s) - 1 : (a \o b)[n] = IF n < k THEN s[n] ELSE s[n + 1]
  BY <1>4
<1> QED BY <1>3, <1>5 DEF a, b

\* A step after which only held objects are pointed to holds nothing new.
LEMMA HeldShrinks ==
  ASSUME TypeOK, TypeOK',
         \A i \in ID : reg'[i] \in {reg[i], NoObj},
         vc' \in Obj => vc' \in Held,
         cur' \in Obj => cur' \in Held,
         \A n \in DOMAIN mainQ' : mainQ'[n].obj \in Obj => mainQ'[n].obj \in Held,
         \A o \in Obj : timer'[o] => o \in Held
  PROVE  Held' \subseteq Held
<1>1. ASSUME NEW o \in Held' PROVE o \in Held
  <2>1. o \in Obj BY DEF Held
  <2> QED BY <2>1, HeldIsNext, HeldIs, ArtiAssumption
<1> QED BY <1>1

\* Showing a held screen holds nothing new.
LEMMA ArtiShowHeld ==
  ASSUME TypeOK, TypeOK', NEW o \in Held, NEW rest \in Seq(Block), ArtiShow(o, rest),
         \A n \in DOMAIN rest : rest[n].obj \in Obj => rest[n].obj \in Held,
         UNCHANGED <<reg, cur>>
  PROVE  Held' \subseteq Held
<1>1. vc' = o /\ o \in Obj BY DEF ArtiShow, Held
<1>2. \A n \in DOMAIN mainQ' : mainQ'[n].obj \in Obj => mainQ'[n].obj \in Held
  <2>1. CASE mainQ' = rest BY <2>1
  <2>2. CASE mainQ' = Append(rest, Reload) BY <2>2, ArtiAssumption DEF Reload
  <2> QED BY <2>1, <2>2 DEF ArtiShow
<1>3. \A p \in Obj : timer'[p] => p \in Held BY HeldObjects DEF ArtiShow, TypeOK
<1> QED BY <1>1, <1>2, <1>3, HeldShrinks, HeldObjects

\* Serving the main queue holds nothing new.
LEMMA RunBlockHeld == ASSUME TypeOK, TypeOK', RunBlock PROVE Held' \subseteq Held
<1>1. /\ Head(mainQ) \in Block /\ Tail(mainQ) \in Seq(Block)
      /\ Head(mainQ).kind # "reload" => Head(mainQ).obj \in Obj
      /\ Head(mainQ) = mainQ[1] /\ 1 \in DOMAIN mainQ
      /\ DOMAIN Tail(mainQ) = 1 .. Len(mainQ) - 1
      /\ \A n \in DOMAIN Tail(mainQ) : Tail(mainQ)[n] = mainQ[n + 1] /\ n + 1 \in DOMAIN mainQ
  BY QueueType DEF RunBlock, TypeOK
<1>2. \A n \in DOMAIN Tail(mainQ) : Tail(mainQ)[n].obj \in Obj => Tail(mainQ)[n].obj \in Held
  BY <1>1, HeldObjects
<1>3. UNCHANGED <<reg, cur>> BY DEF RunBlock, appVars
<1>4. CASE Head(mainQ).kind = "show"
  <2>1. ArtiShow(Head(mainQ).obj, Tail(mainQ)) BY <1>4 DEF RunBlock
  <2>2. Head(mainQ).obj \in Held BY <1>1, <1>4, HeldObjects
  <2> QED BY <1>1, <1>2, <1>3, <2>1, <2>2, ArtiShowHeld
<1>5. CASE Head(mainQ).kind = "arm"
  <2>1. /\ timer' = [timer EXCEPT ![Head(mainQ).obj] = TRUE] /\ mainQ' = Tail(mainQ) /\ vc' = vc
    BY <1>5 DEF RunBlock
  <2>2. \A p \in Obj : timer'[p] => p \in Held BY <1>1, <1>5, <2>1, HeldObjects DEF TypeOK
  <2> QED BY <1>2, <1>3, <2>1, <2>2, HeldShrinks, HeldObjects
<1>6. CASE Head(mainQ).kind = "reload"
  <2>1. mainQ' = Tail(mainQ) /\ vc' = vc /\ timer' = timer BY <1>6 DEF RunBlock
  <2> QED BY <1>2, <1>3, <2>1, HeldShrinks, HeldObjects
<1> QED BY <1>4, <1>5, <1>6 DEF RunBlock

\* Only Construct and InitTitle take memory that nothing held.
LEMMA HeldStep ==
  ASSUME TypeOK, TypeOK', [Next]_vars, \A i \in ID : ~Construct(i) /\ ~InitTitle(i)
  PROVE  Held' \subseteq Held
<1>1. ASSUME \A i \in ID : reg'[i] \in {reg[i], NoObj}, UNCHANGED <<vc, mainQ>>,
             cur' \in {cur, NoObj}, \A o \in Obj : timer'[o] => timer[o]
      PROVE  Held' \subseteq Held
  BY <1>1, HeldShrinks, HeldObjects, ArtiAssumption
<1>2. CASE Fill
  BY <1>1, <1>2
  DEF Fill, Destruct, AddButtonEx, DelButton, SetButtonText, SetButtonStatus, TypeOK,
      objVars, appVars, uiVars
<1>3. ASSUME NEW i \in ID, ShowWithId(i) PROVE Held' \subseteq Held
  BY <1>3, HeldShrinks, HeldObjects, ArtiAssumption DEF ShowWithId, TypeOK, objVars, uiVars
<1>4. CASE ShowEnter \/ ShowReset \/ ShowRead \/ ShowClear
  BY <1>1, <1>4 DEF ShowEnter, ShowReset, ShowRead, ShowClear, objVars, uiVars
<1>5. CASE ShowPublish
  <2>1. /\ cur \in Obj /\ mainQ \in Seq(Block) /\ UNCHANGED <<reg, timer, cur, vc>>
        /\ \/ mainQ' = Append(mainQ, Show(cur))
           \/ mainQ' = Append(mainQ, Arm(cur))
    BY <1>5 DEF ShowPublish, TypeOK
  <2>2. \A n \in DOMAIN mainQ' : mainQ'[n].obj = cur \/ (n \in DOMAIN mainQ /\ mainQ'[n] = mainQ[n])
    BY <2>1 DEF Show, Arm
  <2> QED BY <2>1, <2>2, HeldShrinks, HeldObjects
<1>6. CASE SwallowClick
  <2>1. /\ mainQ \in Seq(Block) /\ UNCHANGED <<reg, timer, cur, vc>>
        /\ mainQ' = mainQ \/ mainQ' = Append(mainQ, Reload)
    BY <1>6 DEF SwallowClick, TypeOK, appVars
  <2>2. \A n \in DOMAIN mainQ' : mainQ'[n].obj = NoObj \/ (n \in DOMAIN mainQ /\ mainQ'[n] = mainQ[n])
    BY <2>1 DEF Reload
  <2> QED BY <2>1, <2>2, HeldShrinks, HeldObjects, ArtiAssumption
<1>7. CASE SubBackClick
  <2>1. vc \in Obj /\ ArtiShow(vc, mainQ) /\ UNCHANGED <<reg, cur>> /\ mainQ \in Seq(Block)
    BY <1>7 DEF SubBackClick, TypeOK, appVars
  <2> QED BY <2>1, HeldObjects, ArtiShowHeld
<1>8. CASE AcceptClick \/ BackClick \/ \E b \in Btn : ClickButton(b)
  BY <1>1, <1>8 DEF AcceptClick, BackClick, ClickButton, appVars, uiVars
<1>9. CASE ConditionSignal \/ \E o \in Obj : LockTimer(o)
  BY <1>1, <1>9 DEF ConditionSignal, LockTimer, TypeOK, uiVars
<1>10. CASE UNCHANGED vars
  BY <1>1, <1>10 DEF vars, objVars, appVars, uiVars
<1> QED
  BY <1>2, <1>3, <1>4, <1>5, <1>6, <1>7, <1>8, <1>9, <1>10, RunBlockHeld
  DEF Next, InShow, User, Main

\* What Construct and InitTitle leave alone: all that is held.
LEMMA AllocateKeeps ==
  ASSUME TypeOK, TypeOK', NEW i \in ID, Construct(i) \/ InitTitle(i)
  PROVE  \E o \in Obj, own \in [DOMAIN Builtin[i] -> Btn \ ReferencedBtn] :
           /\ o # vc /\ o # cur /\ Held' \subseteq Held \cup {o}
           /\ \A m, n \in DOMAIN own : m # n => own[m] # own[n]
           /\ buttons' = [buttons EXCEPT ![o] = own]
           /\ returnID' = [returnID EXCEPT ![o] = NOKEY]
           /\ lastClick' = [lastClick EXCEPT ![o] = NoBtn]
           /\ reload' = [reload EXCEPT ![o] = FALSE]
           /\ other' = [other EXCEPT ![o] = FALSE]
           /\ \A b \in ReferencedBtn \cap Btn :
                btnId'[b] = btnId[b] /\ btnStatus'[b] = btnStatus[b] /\ btnTemp'[b] = btnTemp[b]
           /\ \A n \in DOMAIN own : btnId'[own[n]] = Builtin[i][n]
           /\ pc' = "run" /\ UNCHANGED <<uiVars, mainVars>>
<1>1. PICK r \in {reg, [reg EXCEPT ![i] = NoObj]} : Allocate(i, r) /\ pc = "run"
  BY DEF Construct, InitTitle
<1>2. PICK o \in Obj \ Referenced(r), own \in [DOMAIN Builtin[i] -> Btn \ ReferencedBtn] :
        /\ \A m, n \in DOMAIN own : m # n => own[m] # own[n]
        /\ reg' = [r EXCEPT ![i] = o]
        /\ owner' = [owner EXCEPT ![o] = i]
        /\ buttons' = [buttons EXCEPT ![o] = own]
        /\ returnID' = [returnID EXCEPT ![o] = NOKEY]
        /\ lastClick' = [lastClick EXCEPT ![o] = NoBtn]
        /\ reload' = [reload EXCEPT ![o] = FALSE]
        /\ other' = [other EXCEPT ![o] = FALSE]
        /\ fresh' = [fresh EXCEPT ![o] = FALSE]
        /\ btnId' = [b \in Btn |-> IF \E n \in DOMAIN own : own[n] = b
                                   THEN Builtin[i][CHOOSE n \in DOMAIN own : own[n] = b]
                                   ELSE btnId[b]]
        /\ btnStatus' = [b \in Btn |-> IF b \in Range(own) THEN ENABLE ELSE btnStatus[b]]
        /\ btnTemp' = [b \in Btn |-> IF b \in Range(own) THEN FALSE ELSE btnTemp[b]]
        /\ UNCHANGED <<timer, appVars, uiVars, mainVars>>
  BY <1>1 DEF Allocate
<1>3. o # vc /\ o # cur
  BY <1>2 DEF Referenced
<1>4. \A b \in ReferencedBtn \cap Btn :
        btnId'[b] = btnId[b] /\ btnStatus'[b] = btnStatus[b] /\ btnTemp'[b] = btnTemp[b]
  <2> SUFFICES ASSUME NEW b \in ReferencedBtn \cap Btn
               PROVE  btnId'[b] = btnId[b] /\ btnStatus'[b] = btnStatus[b] /\ btnTemp'[b] = btnTemp[b]
    OBVIOUS
  <2>1. \A n \in DOMAIN own : own[n] # b
    BY <1>2
  <2>2. b \notin Range(own)
    BY <2>1 DEF Range
  <2> QED BY <1>2, <2>1, <2>2
<1>5. \A n \in DOMAIN own : btnId'[own[n]] = Builtin[i][n]
  <2> SUFFICES ASSUME NEW n \in DOMAIN own PROVE btnId'[own[n]] = Builtin[i][n]
    OBVIOUS
  <2>1. own[n] \in Btn /\ \A m \in DOMAIN own : own[m] = own[n] => m = n
    BY <1>2
  <2>2. btnId'[own[n]] = Builtin[i][CHOOSE m \in DOMAIN own : own[m] = own[n]]
    BY <1>2, <2>1
  <2>3. (CHOOSE m \in DOMAIN own : own[m] = own[n]) = n
    BY <2>1
  <2> QED BY <2>2, <2>3
<1>6. \A p \in Obj : p \in Held' => p \in Held \cup {o}
  <2> SUFFICES ASSUME NEW p \in Obj, p \in Held', p # o PROVE p \in Held
    OBVIOUS
  <2>1. \A j \in ID : reg'[j] = p => reg[j] = p
    BY <1>1, <1>2, ArtiAssumption DEF TypeOK
  <2>2. UNCHANGED <<vc, mainQ, timer, cur>>
    BY <1>2 DEF appVars, uiVars
  <2> QED BY <2>1, <2>2, HeldIs, HeldIsNext
<1>7. Held' \subseteq Held \cup {o}
  BY <1>6 DEF Held
<1>8. pc' = "run"
  BY <1>1, <1>2 DEF appVars
<1> QED
  BY <1>2, <1>3, <1>4, <1>5, <1>7, <1>8
-----------------------------------------------------------------------------
(* Answers given early.                                                    *)

\* A step that gives and takes no answer.
LEMMA AnswerKept ==
  ASSUME AnswerInv, TypeOK', Held' \subseteq Held, UNCHANGED <<returnID, lastClick, vc>>,
         \A o \in Held : lastClick[o] \in Btn => btnId'[lastClick[o]] = btnId[lastClick[o]],
         UNCHANGED mainVars \/ (mpc # "accept" /\ mpc' # "accept")
  PROVE  AnswerInv'
<1>1. Named'
  <2> SUFFICES ASSUME NEW o \in Held', returnID'[o] \notin {NOKEY, BACK}
               PROVE  /\ lastClick'[o] \in Btn
                      /\ returnID'[o] = btnId'[lastClick'[o]] \/ (mpc' = "accept" /\ vc' = o)
    BY DEF Named, NOKEY, BACK
  <2>1. o \in Held OBVIOUS
  <2> QED BY <2>1 DEF AnswerInv, Named, mainVars
<1>2. Clicked' BY DEF AnswerInv, Clicked, mainVars
<1> QED BY <1>1, <1>2 DEF AnswerInv

\* AnswerInv is inductive where no screen swallows a tap.
LEMMA AnswerStep ==
  ASSUME NoSwallow, AnswerInv, [Next]_vars
  PROVE  AnswerInv'
<1>0. TypeOK /\ TypeOK' /\ Named /\ Clicked BY TypeStep DEF AnswerInv
<1>1. CASE \E i \in ID : Construct(i) \/ InitTitle(i)
  <2>1. PICK i \in ID : Construct(i) \/ InitTitle(i) BY <1>1
  <2>2. PICK o \in Obj, own \in [DOMAIN Builtin[i] -> Btn \ ReferencedBtn] :
          /\ o # vc /\ o # cur /\ Held' \subseteq Held \cup {o}
          /\ returnID' = [returnID EXCEPT ![o] = NOKEY]
          /\ lastClick' = [lastClick EXCEPT ![o] = NoBtn]
          /\ \A b \in ReferencedBtn \cap Btn : btnId'[b] = btnId[b]
          /\ UNCHANGED <<uiVars, mainVars>>
    BY <1>0, <2>1, AllocateKeeps
  <2>3. Named'
    <3> SUFFICES ASSUME NEW p \in Held', returnID'[p] \notin {NOKEY, BACK}
                 PROVE  /\ lastClick'[p] \in Btn
                        /\ returnID'[p] = btnId'[lastClick'[p]] \/ (mpc' = "accept" /\ vc' = p)
      BY DEF Named, NOKEY, BACK
    <3>1. p \in Held /\ p \in Obj /\ p # o BY <1>0, <2>2 DEF TypeOK, Held
    <3>2. returnID'[p] = returnID[p] /\ lastClick'[p] = lastClick[p] BY <1>0, <2>2, <3>1 DEF TypeOK
    <3>3. lastClick[p] \in ReferencedBtn BY <1>0, <3>1, HeldButtons
    <3> QED BY <1>0, <2>2, <3>1, <3>2, <3>3 DEF Named, uiVars, mainVars
  <2>4. Clicked' BY <1>0, <2>2 DEF Clicked, TypeOK, uiVars, mainVars
  <2> QED BY <1>0, <2>3, <2>4 DEF AnswerInv
<1> SUFFICES ASSUME \A i \in ID : ~Construct(i) /\ ~InitTitle(i) PROVE AnswerInv'
  BY <1>1
<1>2. Held' \subseteq Held /\ Held \subseteq Obj BY <1>0, HeldStep, HeldObjects
<1>3. ASSUME UNCHANGED <<returnID, lastClick, vc, btnId>>,
             UNCHANGED mainVars \/ (mpc # "accept" /\ mpc' # "accept")
      PROVE  AnswerInv'
  BY <1>0, <1>2, <1>3, AnswerKept
<1>4. CASE \E i \in ID : AddButtonEx(i)
  <2>1. PICK i \in ID, b \in Btn \ ReferencedBtn :
          btnId' = [btnId EXCEPT ![b] = Len(buttons[reg[i]])]
    BY <1>4 DEF AddButtonEx
  <2>2. \A o \in Held : lastClick[o] \in Btn => btnId'[lastClick[o]] = btnId[lastClick[o]]
    BY <1>0, <2>1, HeldButtons DEF TypeOK
  <2> QED BY <1>0, <1>2, <1>4, <2>2, AnswerKept DEF AddButtonEx, uiVars
<1>5. CASE Fill
  BY <1>3, <1>4, <1>5
  DEF Fill, Destruct, DelButton, SetButtonText, SetButtonStatus, objVars, btnVars, uiVars
<1>6. CASE (\E i \in ID : ShowWithId(i)) \/ ShowEnter \/ ShowPublish \/ ShowRead
  BY <1>3, <1>6 DEF ShowWithId, ShowEnter, ShowPublish, ShowRead, objVars, btnVars, uiVars
<1>7. ASSUME cur \in Obj, returnID' = [returnID EXCEPT ![cur] = NOKEY],
             UNCHANGED <<lastClick, vc, btnId, mainVars>>
      PROVE  AnswerInv'
  BY <1>0, <1>2, <1>7 DEF AnswerInv, Named, Clicked, TypeOK, mainVars
<1>8. CASE ShowReset \/ ShowClear
  BY <1>0, <1>7, <1>8 DEF ShowReset, ShowClear, TypeOK, btnVars, uiVars
<1>9. CASE RunBlock
  <2>1. UNCHANGED <<returnID, lastClick, btnId, mpc>> /\ mpc = "idle"
    BY <1>9 DEF RunBlock, btnVars, mainVars
  <2> QED BY <1>0, <1>2, <2>1 DEF AnswerInv, Named, Clicked
<1>10. CASE \E b \in Btn : ClickButton(b)
  <2>1. PICK b \in Btn : /\ mpc = "idle" /\ vc \in Obj /\ lastClick' = [lastClick EXCEPT ![vc] = b]
                         /\ clicked' = b /\ mpc' = "accept" /\ UNCHANGED <<returnID, btnId, vc>>
    BY <1>0, <1>10 DEF ClickButton, TypeOK
  <2> QED BY <1>0, <1>2, <2>1 DEF AnswerInv, Named, Clicked, TypeOK
<1>11. CASE AcceptClick
  <2>1. /\ vc \in Obj /\ clicked = lastClick[vc] /\ clicked \in Btn /\ mpc' = "signal"
        /\ returnID' = [returnID EXCEPT ![vc] = btnId[clicked]]
        /\ UNCHANGED <<lastClick, btnId, vc>>
    BY <1>0, <1>11 DEF AcceptClick, Clicked, TypeOK, btnVars, uiVars
  <2> QED BY <1>0, <1>2, <2>1 DEF AnswerInv, Named, Clicked, TypeOK
<1>12. CASE SwallowClick
  BY <1>12 DEF SwallowClick, NoSwallow
<1>13. CASE BackClick
  <2>1. /\ vc \in Obj /\ mpc = "idle" /\ mpc' = "signal"
        /\ returnID' = [returnID EXCEPT ![vc] = BACK]
        /\ UNCHANGED <<lastClick, btnId, vc>>
    BY <1>0, <1>13 DEF BackClick, TypeOK, btnVars, uiVars
  <2> QED BY <1>0, <1>2, <2>1 DEF AnswerInv, Named, Clicked, TypeOK
<1>14. CASE SubBackClick
  <2>1. vc' = vc /\ UNCHANGED <<returnID, lastClick, btnId, mainVars>>
    BY <1>14 DEF SubBackClick, ArtiShow, btnVars
  <2> QED BY <1>3, <2>1
<1>15. CASE ConditionSignal \/ \E o \in Obj : LockTimer(o)
  BY <1>3, <1>15 DEF ConditionSignal, LockTimer, btnVars, uiVars
<1>16. CASE UNCHANGED vars
  BY <1>3, <1>16 DEF vars, objVars, btnVars, uiVars
<1> QED
  BY <1>5, <1>6, <1>8, <1>9, <1>10, <1>11, <1>12, <1>13, <1>14, <1>15, <1>16
  DEF Next, InShow, User, Main

\* An answer given before show was called is kept only if a button that is there
\* and enabled can have given it: true where no screen swallows a tap, for a
\* swallowed tap replaces lastClickButtonModel and leaves the earlier answer.
THEOREM EarlyAnswersChecked == NoSwallow /\ Spec => StaleAnswerDropped
<1> DEFINE Inductive == NoSwallow /\ AnswerInv
           Kept == (ShowEnter /\ pc' = "publish" /\ ~(mpc = "accept" /\ vc = cur))
                     => returnID[cur] \in {NOKEY, BACK} \/ Enabled(cur, returnID[cur])
<1>1. NoSwallow /\ Init => Inductive
  BY TypeInit DEF Init, AnswerInv, Named, Clicked, Held
<1>2. Inductive /\ [Next]_vars => Inductive'
  BY AnswerStep DEF NoSwallow
<1>3. Inductive /\ [Next]_vars => [Kept]_vars
  <2> SUFFICES ASSUME Inductive, ShowEnter, pc' = "publish", ~(mpc = "accept" /\ vc = cur),
                      returnID[cur] \notin {NOKEY, BACK}
               PROVE  Enabled(cur, returnID[cur])
    OBVIOUS
  <2>1. TypeOK /\ cur \in Obj BY DEF AnswerInv, ShowEnter, TypeOK
  <2>2. cur \in Held BY <2>1, HeldObjects
  <2>3. lastClick[cur] \in Btn /\ returnID[cur] = btnId[lastClick[cur]]
    BY <2>1, <2>2 DEF AnswerInv, Named
  <2>4. ~StaleAnswer(cur) BY DEF ShowEnter
  <2> QED BY <2>1, <2>3, <2>4, ArtiAssumption DEF StaleAnswer, Enabled, TypeOK, Status
<1> QED BY <1>1, <1>2, <1>3, PTL DEF Spec, StaleAnswerDropped
-----------------------------------------------------------------------------
(* What is on the screen.                                                  *)

\* A step that changes nothing of the screen that is up, or asks for it to reload.
LEMMA ShowingKept ==
  ASSUME TypeOK, TypeOK', Showing, UNCHANGED <<vc, sub, bar, cells, live>>,
         NoReload' => NoReload,
         vc \in Obj /\ ~reload'[vc] =>
           /\ ~reload[vc] /\ buttons'[vc] = buttons[vc]
           /\ \A b \in Range(buttons[vc]) :
                btnId'[b] = btnId[b] /\ btnStatus'[b] = btnStatus[b] /\ btnTemp'[b] = btnTemp[b]
  PROVE  Showing'
<1> SUFFICES ASSUME vc \in Obj, ~sub, ~reload'[vc]
             PROVE  /\ bar \subseteq Visible(vc)'
                    /\ \A b \in Ghosts(vc)' : btnTemp'[b] /\ btnId'[b] = REPORT
                    /\ NoReload' => Bound'
  BY DEF Showing, Ghosts, Visible
<1>1. Visible(vc)' = Visible(vc)
  BY DEF Visible
<1>2. /\ bar \subseteq Visible(vc)
      /\ \A b \in Ghosts(vc) : btnTemp[b] /\ btnId[b] = REPORT
      /\ NoReload => Bound
  BY DEF Showing
<1>3. \A b \in Ghosts(vc)' : b \in Ghosts(vc) /\ b \in Range(buttons[vc])
  BY <1>1 DEF Ghosts, Visible
<1>4. Bound => Bound'
  BY <1>2 DEF Bound, Visible
<1> QED
  BY <1>1, <1>2, <1>3, <1>4

\* A step that changes no button, no block and nothing that is on the screen.
LEMMA ScreenKept ==
  ASSUME ScreenInv, TypeOK', Held' \subseteq Held,
         UNCHANGED <<buttons, btnId, btnStatus, btnTemp, reload, other, vc, sub, bar, cells,
                     live, mainQ>>,
         pc' = "wait" => /\ pc = "wait" /\ cur' = cur
                         /\ mpc = "idle" \/ mpc' = "signal" \/ vc # cur \/ UNCHANGED mainVars
  PROVE  ScreenInv'
<1>1. Apart' /\ Reports'
  BY DEF ScreenInv, Apart, Reports
<1>2. Showing'
  BY ShowingKept DEF ScreenInv, NoReload
<1>3. Ghostless'
  BY DEF ScreenInv, Ghostless, Ghosts, Visible, mainVars
<1>4. Coming'
  BY DEF ScreenInv, Coming
<1> QED BY <1>1, <1>2, <1>3, <1>4 DEF ScreenInv

\* The vehicle application fills in one screen and asks for it to reload.
LEMMA EditKept ==
  ASSUME TypeOK, TypeOK', Apart, Showing, NEW p \in Obj, p \in Held,
         pc = "run", UNCHANGED <<pc, mainQ, vc, sub, bar, cells, live>>,
         reload' = [reload EXCEPT ![p] = TRUE],
         \A o \in Held : o # p =>
           /\ buttons'[o] = buttons[o]
           /\ \A b \in Range(buttons[o]) :
                btnId'[b] = btnId[b] /\ btnStatus'[b] = btnStatus[b] /\ btnTemp'[b] = btnTemp[b]
  PROVE  Showing' /\ Ghostless' /\ Coming'
<1>1. vc \in Obj => vc \in Held
  BY HeldObjects
<1>2. Showing'
  BY <1>1, ShowingKept DEF TypeOK, NoReload
<1> QED BY <1>2 DEF Ghostless, Coming

\* A screen constructed in free memory disturbs none that is held.
LEMMA AllocateScreen ==
  ASSUME OneReport, ScreenInv, TypeOK', NEW i \in ID, Construct(i) \/ InitTitle(i)
  PROVE  ScreenInv'
<1>0. TypeOK /\ Apart /\ Reports /\ Showing BY DEF ScreenInv
<1>1. PICK o \in Obj, own \in [DOMAIN Builtin[i] -> Btn \ ReferencedBtn] :
        /\ o # vc /\ o # cur /\ Held' \subseteq Held \cup {o}
        /\ \A m, n \in DOMAIN own : m # n => own[m] # own[n]
        /\ buttons' = [buttons EXCEPT ![o] = own]
        /\ returnID' = [returnID EXCEPT ![o] = NOKEY]
        /\ lastClick' = [lastClick EXCEPT ![o] = NoBtn]
        /\ reload' = [reload EXCEPT ![o] = FALSE]
        /\ other' = [other EXCEPT ![o] = FALSE]
        /\ \A b \in ReferencedBtn \cap Btn :
             btnId'[b] = btnId[b] /\ btnStatus'[b] = btnStatus[b] /\ btnTemp'[b] = btnTemp[b]
        /\ \A n \in DOMAIN own : btnId'[own[n]] = Builtin[i][n]
        /\ pc' = "run" /\ UNCHANGED <<uiVars, mainVars>>
  BY <1>0, AllocateKeeps
<1>2. \A p \in Held' : p # o => p \in Held /\ p \in Obj /\ buttons'[p] = buttons[p]
  BY <1>0, <1>1 DEF TypeOK, Held
<1>3. buttons'[o] = own
  BY <1>0, <1>1 DEF TypeOK
<1>4. \A p \in Held : Range(buttons[p]) \subseteq ReferencedBtn \cap Btn
  BY <1>0, HeldRange
<1>5. Range(own) \cap ReferencedBtn = {}
  BY DEF Range
<1>6. Apart'
  <2> SUFFICES ASSUME NEW p \in Held', NEW q \in Held', p # q
               PROVE  Range(buttons'[p]) \cap Range(buttons'[q]) = {}
    BY DEF Apart
  <2> QED BY <1>0, <1>2, <1>3, <1>4, <1>5 DEF Apart
<1>7. Reports'
  <2> SUFFICES ASSUME NEW p \in Held', NEW m \in DOMAIN buttons'[p], NEW n \in DOMAIN buttons'[p],
                      btnId'[buttons'[p][m]] = REPORT, btnId'[buttons'[p][n]] = REPORT
               PROVE  m = n
    BY DEF Reports, REPORT
  <2>1. CASE p = o
    BY <1>1, <1>3, <2>1 DEF OneReport
  <2>2. CASE p # o
    <3>1. buttons[p][m] \in Range(buttons[p]) /\ buttons[p][n] \in Range(buttons[p])
      BY <1>2, <2>2 DEF Range
    <3> QED BY <1>0, <1>1, <1>2, <1>4, <2>2, <3>1 DEF Reports
  <2> QED BY <2>1, <2>2
<1>8. Showing'
  <2>1. vc \in Obj => vc \in Held
    BY <1>0, HeldObjects
  <2>2. UNCHANGED <<vc, sub, bar, cells, live, mainQ>>
    BY <1>1 DEF uiVars
  <2> QED BY <1>0, <1>1, <1>4, <2>1, <2>2, ShowingKept DEF TypeOK, NoReload
<1> QED BY <1>1, <1>6, <1>7, <1>8 DEF ScreenInv, Ghostless, Coming

\* A button added to a screen, shown or not, comes with a reload.
LEMMA AddScreen ==
  ASSUME ScreenInv, TypeOK', Held' \subseteq Held, NEW i \in ID, AddButtonEx(i)
  PROVE  ScreenInv'
<1>0. TypeOK /\ Apart /\ Reports /\ Showing BY DEF ScreenInv
<1> DEFINE p == reg[i]
<1>1. PICK b \in Btn \ ReferencedBtn :
        /\ btnId' = [btnId EXCEPT ![b] = Len(buttons[p])]
        /\ btnStatus' = [btnStatus EXCEPT ![b] = ENABLE]
        /\ btnTemp' = [btnTemp EXCEPT ![b] = FALSE]
        /\ buttons' = [buttons EXCEPT ![p] = Append(@, b)]
        /\ reload' = [reload EXCEPT ![p] = TRUE]
  BY DEF AddButtonEx
<1>2. p \in Obj /\ p \in Held /\ Held \subseteq Obj /\ pc = "run"
  BY <1>0, HeldObjects DEF AddButtonEx, TypeOK
<1>3. \A o \in Held : /\ Range(buttons[o]) \subseteq Btn /\ b \notin Range(buttons[o])
                      /\ buttons[o] \in Seq(Btn)
                      /\ o # p => buttons'[o] = buttons[o]
  <2>1. \A o \in Held : o # p => buttons'[o] = buttons[o]
    BY <1>0, <1>1, <1>2 DEF TypeOK
  <2> QED BY <1>0, <2>1, HeldRange
<1>4. \A x \in Btn : x # b =>
        btnId'[x] = btnId[x] /\ btnStatus'[x] = btnStatus[x] /\ btnTemp'[x] = btnTemp[x]
  BY <1>0, <1>1 DEF TypeOK
<1>5. buttons'[p] = Append(buttons[p], b)
  BY <1>0, <1>1, <1>2 DEF TypeOK
<1>6. Range(buttons'[p]) = Range(buttons[p]) \cup {b}
  <2>1. Range(Append(buttons[p], b)) = Range(buttons[p]) \cup {b}
    BY <1>2, <1>3, AppendItems
  <2> QED BY <1>5, <2>1
<1>7. Apart'
  <2> SUFFICES ASSUME NEW o \in Held', NEW q \in Held', o # q
               PROVE  Range(buttons'[o]) \cap Range(buttons'[q]) = {}
    BY DEF Apart
  <2>1. o \in Held /\ q \in Held /\ Range(buttons[o]) \cap Range(buttons[q]) = {}
    BY <1>0 DEF Apart
  <2>2. CASE o = p
    BY <1>3, <1>6, <2>1, <2>2
  <2>3. CASE q = p
    BY <1>3, <1>6, <2>1, <2>3
  <2>4. CASE o # p /\ q # p
    BY <1>3, <2>1, <2>4
  <2> QED BY <2>2, <2>3, <2>4
<1>8. Reports'
  <2> SUFFICES ASSUME NEW o \in Held', NEW m \in DOMAIN buttons'[o], NEW n \in DOMAIN buttons'[o],
                      btnId'[buttons'[o][m]] = REPORT, btnId'[buttons'[o][n]] = REPORT
               PROVE  m = n
    BY DEF Reports, REPORT
  <2>1. o \in Held OBVIOUS
  <2>2. \A l \in DOMAIN buttons[o] :
          buttons[o][l] \in Btn /\ btnId'[buttons[o][l]] = btnId[buttons[o][l]]
    BY <1>3, <1>4, <2>1 DEF Range
  <2>3. CASE o # p
    BY <1>0, <1>3, <2>1, <2>2, <2>3 DEF Reports
  <2>4. CASE o = p
    <3>1. btnId'[b] # REPORT
      BY <1>0, <1>1, <1>2 DEF TypeOK, REPORT
    <3>2. \A l \in DOMAIN buttons'[p] :
            buttons'[p][l] = b \/ (l \in DOMAIN buttons[p] /\ buttons'[p][l] = buttons[p][l])
      BY <1>2, <1>3, <1>5
    <3> QED BY <1>0, <2>1, <2>2, <2>4, <3>1, <3>2 DEF Reports
  <2> QED BY <2>3, <2>4
<1>9. Showing' /\ Ghostless' /\ Coming'
  <2>1. UNCHANGED <<pc, mainQ, vc, sub, bar, cells, live>>
    BY DEF AddButtonEx, appVars, uiVars
  <2>2. reload' = [reload EXCEPT ![p] = TRUE]
    BY <1>1
  <2>3. \A o \in Held : o # p =>
          /\ buttons'[o] = buttons[o]
          /\ \A x \in Range(buttons[o]) :
               btnId'[x] = btnId[x] /\ btnStatus'[x] = btnStatus[x] /\ btnTemp'[x] = btnTemp[x]
    BY <1>3, <1>4
  <2> HIDE DEF p
  <2> QED BY <1>0, <1>2, <2>1, <2>2, <2>3, EditKept
<1> QED BY <1>7, <1>8, <1>9 DEF ScreenInv

\* A button deleted from a screen goes with a reload.
LEMMA DelScreen ==
  ASSUME ScreenInv, TypeOK', Held' \subseteq Held, NEW i \in ID, NEW k \in 0 .. MaxButtons - 1,
         DelButton(i, k)
  PROVE  ScreenInv'
<1>0. TypeOK /\ Apart /\ Reports /\ Showing BY DEF ScreenInv
<1> DEFINE p == reg[i]
           s == buttons[p]
<1>1. /\ p \in Obj /\ p \in Held /\ Held \subseteq Obj /\ pc = "run"
      /\ s \in Seq(Btn) /\ k + 1 \in 1 .. Len(s)
      /\ buttons' = [buttons EXCEPT ![p] = RemoveAt(s, k + 1)]
      /\ reload' = [reload EXCEPT ![p] = TRUE]
      /\ UNCHANGED <<btnId, btnStatus, btnTemp, pc, mainQ, vc, sub, bar, cells, live>>
  BY <1>0, HeldObjects DEF DelButton, TypeOK, btnVars, appVars, uiVars
<1>2. \A o \in Held : o # p => buttons'[o] = buttons[o]
  BY <1>0, <1>1 DEF TypeOK
<1>3. buttons'[p] = RemoveAt(s, k + 1)
  BY <1>0, <1>1 DEF TypeOK
<1> HIDE DEF s
<1>4. /\ DOMAIN buttons'[p] = 1 .. Len(s) - 1
      /\ \A n \in 1 .. Len(s) - 1 :
           buttons'[p][n] = IF n < k + 1 THEN s[n] ELSE s[n + 1]
  BY <1>1, <1>3, RemoveAtItems
<1>5. \A m, n \in DOMAIN buttons'[p] : m # n =>
        \E x, y \in DOMAIN s : x # y /\ buttons'[p][m] = s[x] /\ buttons'[p][n] = s[y]
  <2> TAKE m, n \in DOMAIN buttons'[p]
  <2> HAVE m # n
  <2>0. m \in 1 .. Len(s) - 1 /\ n \in 1 .. Len(s) - 1
    BY <1>4
  <2> DEFINE old(j) == IF j < k + 1 THEN j ELSE j + 1
  <2>1. old(m) \in DOMAIN s /\ old(n) \in DOMAIN s /\ old(m) # old(n)
    BY <1>1, <2>0
  <2>2. buttons'[p][m] = s[old(m)] /\ buttons'[p][n] = s[old(n)]
    BY <1>4, <2>0
  <2> QED BY <2>1, <2>2
<1>6. Range(buttons'[p]) \subseteq Range(s)
  <2>1. \A n \in DOMAIN buttons'[p] : \E x \in DOMAIN s : buttons'[p][n] = s[x]
    BY <1>1, <1>4
  <2> HIDE DEF p
  <2> QED BY <2>1 DEF Range
<1> USE DEF s
<1>7. Apart'
  <2> SUFFICES ASSUME NEW o \in Held', NEW q \in Held', o # q
               PROVE  Range(buttons'[o]) \cap Range(buttons'[q]) = {}
    BY DEF Apart
  <2>1. o \in Held /\ q \in Held /\ Range(buttons[o]) \cap Range(buttons[q]) = {}
    BY <1>0 DEF Apart
  <2>2. Range(buttons'[o]) \subseteq Range(buttons[o]) /\ Range(buttons'[q]) \subseteq Range(buttons[q])
    BY <1>2, <1>6, <2>1
  <2> QED BY <2>1, <2>2
<1>8. Reports'
  <2> SUFFICES ASSUME NEW o \in Held', NEW m \in DOMAIN buttons'[o], NEW n \in DOMAIN buttons'[o],
                      btnId'[buttons'[o][m]] = REPORT, btnId'[buttons'[o][n]] = REPORT, m # n
               PROVE  FALSE
    BY DEF Reports, REPORT
  <2>1. o \in Held OBVIOUS
  <2>2. CASE o # p
    BY <1>0, <1>1, <1>2, <2>1, <2>2 DEF Reports
  <2>3. CASE o = p
    <3>1. PICK x \in DOMAIN buttons[p], y \in DOMAIN buttons[p] :
            x # y /\ buttons'[o][m] = buttons[p][x] /\ buttons'[o][n] = buttons[p][y]
      BY <1>5, <2>3
    <3> QED BY <1>0, <1>1, <2>1, <2>3, <3>1 DEF Reports
  <2> QED BY <2>2, <2>3
<1>9. Showing' /\ Ghostless' /\ Coming'
  <2> HIDE DEF p
  <2> QED BY <1>0, <1>1, <1>2, EditKept
<1> QED BY <1>7, <1>8, <1>9 DEF ScreenInv

\* A button's new text or status comes with a reload.
LEMMA SetScreen ==
  ASSUME ScreenInv, TypeOK', Held' \subseteq Held, NEW i \in ID, NEW k \in 0 .. MaxButtons - 1,
         SetButtonText(i, k) \/ \E status \in Status : SetButtonStatus(i, k, status)
  PROVE  ScreenInv'
<1>0. TypeOK /\ Apart /\ Reports /\ Showing BY DEF ScreenInv
<1> DEFINE p == reg[i]
<1>1. /\ p \in Obj /\ p \in Held /\ pc = "run"
      /\ k + 1 \in DOMAIN buttons[p]
      /\ reload' = [reload EXCEPT ![p] = TRUE]
      /\ UNCHANGED <<buttons, btnId, btnTemp, pc, mainQ, vc, sub, bar, cells, live>>
      /\ \A x \in Btn : x # buttons[p][k + 1] => btnStatus'[x] = btnStatus[x]
  BY <1>0, HeldObjects DEF SetButtonText, SetButtonStatus, TypeOK, btnVars, appVars, uiVars
<1>2. Apart' /\ Reports'
  BY <1>0, <1>1 DEF Apart, Reports
<1>3. buttons[p][k + 1] \in Range(buttons[p])
  BY <1>1 DEF Range
<1>4. \A o \in Held : o # p => \A x \in Range(buttons[o]) : btnStatus'[x] = btnStatus[x]
  <2> SUFFICES ASSUME NEW o \in Held, o # p, NEW x \in Range(buttons[o])
               PROVE  btnStatus'[x] = btnStatus[x]
    OBVIOUS
  <2>1. x \in Btn
    BY <1>0, HeldRange
  <2>2. x \notin Range(buttons[p])
    BY <1>0, <1>1 DEF Apart
  <2> QED BY <1>1, <1>3, <2>1, <2>2
<1>5. Showing' /\ Ghostless' /\ Coming'
  <2> HIDE DEF p
  <2> QED BY <1>0, <1>1, <1>4, EditKept
<1> QED BY <1>2, <1>5 DEF ScreenInv

\* A screen that comes up shows its buttons, or already did.
LEMMA ArtiShowScreen ==
  ASSUME ScreenInv, TypeOK', Held' \subseteq Held, NEW o \in Obj, NEW rest \in Seq(Block),
         ArtiShow(o, rest), mpc = "idle",
         UNCHANGED <<buttons, btnId, btnStatus, btnTemp, cells, live, pc, cur>>,
         (\A n \in DOMAIN rest : rest[n] # Reload) => NoReload
  PROVE  Apart' /\ Reports' /\ Showing' /\ Ghostless'
<1>0. TypeOK /\ Apart /\ Reports /\ Showing /\ Ghostless BY DEF ScreenInv
<1>1. Apart' /\ Reports'
  BY <1>0 DEF Apart, Reports
<1>2. Visible(o)' = Visible(o) /\ vc' = o
  BY DEF Visible, ArtiShow
<1>3. CASE reload[o] \/ vc # o \/ sub
  <2>1. bar' = Visible(o) /\ mainQ' = Append(rest, Reload)
    BY <1>3 DEF ArtiShow, Visible
  <2>2. ~NoReload'
    <3>1. Len(rest) + 1 \in DOMAIN mainQ' /\ mainQ'[Len(rest) + 1] = Reload
      BY <2>1 DEF Reload, Block
    <3> QED BY <3>1 DEF NoReload
  <2>3. Ghosts(vc)' = {}
    BY <1>2, <2>1 DEF Ghosts, Visible
  <2> QED BY <1>1, <1>2, <2>1, <2>2, <2>3 DEF Showing, Ghostless, Visible
<1>4. CASE ~reload[o] /\ vc = o /\ ~sub
  <2>1. bar' = bar /\ mainQ' = rest
    BY <1>4 DEF ArtiShow
  <2>2. NoReload' => NoReload
    BY <2>1 DEF NoReload
  <2>3. Ghosts(o)' = Ghosts(o)
    BY <1>2, <2>1 DEF Ghosts, Visible
  <2>4. Showing'
    <3>1. /\ bar \subseteq Visible(o)
          /\ \A b \in Ghosts(o) : btnTemp[b] /\ btnId[b] = REPORT
          /\ NoReload => Bound
      BY <1>0, <1>4 DEF Showing
    <3>2. Bound => Bound'
      BY <2>1 DEF Bound
    <3>3. \A b \in Ghosts(o)' : btnTemp'[b] /\ btnId'[b] = REPORT
      BY <2>3, <3>1
    <3>4. bar' \subseteq Visible(vc)' /\ Ghosts(vc)' = Ghosts(o)'
      BY <1>2, <2>1, <3>1 DEF Ghosts, Visible
    <3> QED BY <2>2, <3>1, <3>2, <3>3, <3>4 DEF Showing
  <2>5. Ghostless'
    <3>1. pc = "wait" /\ vc = cur => Ghosts(o) = {}
      BY <1>0, <1>4 DEF Ghostless
    <3>2. Ghosts(vc)' = Ghosts(o)
      BY <1>2, <2>1, <2>3 DEF Ghosts, Visible
    <3> QED BY <1>2, <1>4, <3>1, <3>2 DEF Ghostless
  <2> QED BY <1>1, <2>4, <2>5
<1> QED BY <1>0, <1>3, <1>4 DEF TypeOK

\* Serving the main queue brings the bar, then the cells, up to the model.
LEMMA RunBlockScreen ==
  ASSUME ScreenInv, TypeOK', Held' \subseteq Held, RunBlock
  PROVE  ScreenInv'
<1>0. TypeOK /\ Apart /\ Reports /\ Showing /\ Ghostless /\ Coming BY DEF ScreenInv
<1> DEFINE block == Head(mainQ)
<1>1. /\ mainQ \in Seq(Block) /\ Tail(mainQ) \in Seq(Block) /\ block \in Block
      /\ block.kind # "reload" => block.obj \in Obj
      /\ block = mainQ[1] /\ 1 \in DOMAIN mainQ
      /\ \A n \in DOMAIN Tail(mainQ) : n + 1 \in DOMAIN mainQ /\ Tail(mainQ)[n] = mainQ[n + 1]
      /\ \A n \in DOMAIN mainQ : n # 1 => n - 1 \in DOMAIN Tail(mainQ) /\ Tail(mainQ)[n - 1] = mainQ[n]
  <2>1. /\ mainQ \in Seq(Block) /\ mainQ # <<>> /\ Tail(mainQ) \in Seq(Block) /\ block \in Block
        /\ block.kind # "reload" => block.obj \in Obj
    BY <1>0, QueueType DEF RunBlock, TypeOK
  <2>2. /\ block = mainQ[1] /\ 1 \in DOMAIN mainQ
        /\ \A n \in DOMAIN Tail(mainQ) : n + 1 \in DOMAIN mainQ /\ Tail(mainQ)[n] = mainQ[n + 1]
    BY <2>1
  <2>3. \A n \in DOMAIN mainQ : n # 1 => n - 1 \in DOMAIN Tail(mainQ) /\ Tail(mainQ)[n - 1] = mainQ[n]
    BY <2>1
  <2> QED BY <2>1, <2>2, <2>3
<1>2. /\ mpc = "idle" /\ UNCHANGED <<pc, cur, other, mpc>>
      /\ UNCHANGED <<buttons, btnId, btnStatus, btnTemp>>
  BY DEF RunBlock, btnVars, appVars, mainVars
<1>3. block # Reload => ((\A n \in DOMAIN Tail(mainQ) : Tail(mainQ)[n] # Reload) => NoReload)
  BY <1>1 DEF NoReload
<1>4. CASE block.kind = "show"
  <2>1. ArtiShow(block.obj, Tail(mainQ)) /\ UNCHANGED <<cells, live>>
    BY <1>4 DEF RunBlock
  <2>2. block # Reload /\ block.obj \in Obj
    BY <1>1, <1>4 DEF Reload
  <2>3. Apart' /\ Reports' /\ Showing' /\ Ghostless'
    BY <1>1, <1>2, <1>3, <2>1, <2>2, ArtiShowScreen
  <2>4. Coming'
    <3> SUFFICES ASSUME pc = "wait", reload'[cur]
                 PROVE  other[cur] \/ \E n \in DOMAIN mainQ' : mainQ'[n] = Show(cur)
      BY <1>2 DEF Coming, Show
    <3>1. cur # block.obj /\ reload[cur] /\ cur \in Obj
      BY <1>0, <2>1, <2>2 DEF ArtiShow, TypeOK
    <3>2. CASE other[cur] BY <3>2
    <3>3. CASE \E n \in DOMAIN mainQ : mainQ[n] = Show(cur)
      <4>1. PICK n \in DOMAIN mainQ : mainQ[n] = Show(cur) BY <3>3
      <4>2. n # 1 BY <1>1, <3>1, <4>1 DEF Show
      <4>3. n - 1 \in DOMAIN Tail(mainQ) /\ Tail(mainQ)[n - 1] = Show(cur) BY <1>1, <4>1, <4>2
      <4>4. n - 1 \in DOMAIN mainQ' /\ mainQ'[n - 1] = Tail(mainQ)[n - 1]
        BY <1>1, <2>1, <4>3 DEF ArtiShow, Reload, Block
      <4> QED BY <4>3, <4>4
    <3> QED BY <1>0, <3>1, <3>2, <3>3 DEF Coming
  <2> QED BY <2>3, <2>4 DEF ScreenInv
<1>5. CASE block.kind # "show"
  <2>1. UNCHANGED <<reload, vc, sub, bar>> /\ mainQ' = Tail(mainQ)
    BY <1>5 DEF RunBlock
  <2>2. Apart' /\ Reports'
    BY <1>0, <1>2 DEF Apart, Reports
  <2>3. Ghostless'
    BY <1>0, <1>2, <2>1 DEF Ghostless, Ghosts, Visible
  <2>4. Coming'
    <3> SUFFICES ASSUME pc = "wait", reload[cur]
                 PROVE  other[cur] \/ \E n \in DOMAIN mainQ' : mainQ'[n] = Show(cur)
      BY <1>2, <2>1 DEF Coming, Show
    <3>1. \A n \in DOMAIN mainQ : mainQ[n] = Show(cur) => n # 1
      BY <1>1, <1>5 DEF Show
    <3> QED BY <1>0, <1>1, <2>1, <3>1 DEF Coming
  <2>5. Showing'
    <3>1. CASE block.kind = "arm"
      <4>1. UNCHANGED <<cells, live>> /\ block # Reload
        BY <3>1 DEF RunBlock, Reload
      <4>2. NoReload' => NoReload
        BY <1>3, <2>1, <4>1 DEF NoReload
      <4> QED BY <1>0, <1>2, <2>1, <4>1, <4>2, ShowingKept
    <3>2. CASE block.kind = "reload"
      <4>1. Bound'
        BY <1>2, <2>1, <3>2 DEF RunBlock, Bind, Bound
      <4>2. Visible(vc)' = Visible(vc) /\ Ghosts(vc)' = Ghosts(vc)
        BY <1>2, <2>1 DEF Visible, Ghosts
      <4> QED BY <1>0, <1>2, <2>1, <4>1, <4>2 DEF Showing
    <3> QED BY <1>1, <1>5, <3>1, <3>2 DEF Block
  <2> QED BY <2>2, <2>3, <2>4, <2>5 DEF ScreenInv
<1> QED BY <1>4, <1>5

\* Leaving the live-data page reloads the live data's buttons.
LEMMA SubBackScreen ==
  ASSUME ScreenInv, TypeOK', Held' \subseteq Held, SubBackClick
  PROVE  ScreenInv'
<1>0. TypeOK /\ Coming BY DEF ScreenInv
<1>1. /\ mpc = "idle" /\ vc \in Obj /\ mainQ \in Seq(Block) /\ ArtiShow(vc, mainQ)
      /\ UNCHANGED <<buttons, btnId, btnStatus, btnTemp, cells, live, pc, cur, mpc>>
      /\ other' = [other EXCEPT ![vc] = FALSE]
  BY <1>0 DEF SubBackClick, TypeOK, btnVars, appVars, mainVars
<1>2. Apart' /\ Reports' /\ Showing' /\ Ghostless'
  BY <1>1, ArtiShowScreen DEF NoReload
<1>3. Coming'
  <2> SUFFICES ASSUME pc = "wait", reload'[cur]
               PROVE  other'[cur] \/ \E n \in DOMAIN mainQ' : mainQ'[n] = Show(cur)
    BY <1>1 DEF Coming, Show
  <2>1. cur # vc /\ reload[cur] /\ other'[cur] = other[cur]
    BY <1>0, <1>1 DEF ArtiShow, TypeOK
  <2>2. \A n \in DOMAIN mainQ : n \in DOMAIN mainQ' /\ mainQ'[n] = mainQ[n]
    BY <1>1 DEF ArtiShow, Reload, Block
  <2> QED BY <1>0, <2>1, <2>2 DEF Coming
<1> QED BY <1>2, <1>3 DEF ScreenInv

\* The thread begins to wait: a ghost on its own screen would be its one report
\* button, greyed, and that comes back and asks for a reload.
LEMMA PublishScreen ==
  ASSUME ScreenInv, TypeOK', Held' \subseteq Held, ShowPublish
  PROVE  ScreenInv'
<1>0. TypeOK /\ Apart /\ Reports /\ Showing BY DEF ScreenInv
<1> DEFINE grey == GreyReport(cur)
<1>1. /\ cur \in Obj /\ cur \in Held /\ Held \subseteq Obj /\ mainQ \in Seq(Block)
      /\ btnStatus' = [b \in Btn |-> IF b \in grey THEN ENABLE ELSE btnStatus[b]]
      /\ btnTemp' = [b \in Btn |-> IF b \in grey THEN FALSE ELSE btnTemp[b]]
      /\ reload' = [reload EXCEPT ![cur] = @ \/ grey # {}]
      /\ mainQ' = Append(mainQ, IF other[cur] THEN Arm(cur) ELSE Show(cur))
      /\ UNCHANGED <<buttons, btnId, other, cur, vc, sub, bar, cells, live>>
  BY <1>0, HeldObjects DEF ShowPublish, TypeOK
<1>2. Apart' /\ Reports'
  BY <1>0, <1>1 DEF Apart, Reports
<1>3. grey \subseteq Range(buttons[cur])
  BY DEF GreyReport, Range
<1>4. vc \in Obj /\ ~reload'[vc] =>
        /\ ~reload[vc]
        /\ \A b \in Range(buttons[vc]) : btnStatus'[b] = btnStatus[b] /\ btnTemp'[b] = btnTemp[b]
  <2> SUFFICES ASSUME vc \in Obj, ~reload'[vc]
               PROVE  /\ ~reload[vc]
                      /\ \A b \in Range(buttons[vc]) :
                           btnStatus'[b] = btnStatus[b] /\ btnTemp'[b] = btnTemp[b]
    OBVIOUS
  <2>1. vc \in Held /\ Range(buttons[vc]) \subseteq Btn
    BY <1>0, HeldObjects, HeldRange
  <2>2. ~reload[vc] /\ (vc = cur => grey = {})
    BY <1>0, <1>1 DEF TypeOK
  <2>3. \A b \in Range(buttons[vc]) : b \notin grey
    BY <1>0, <1>1, <1>3, <2>1, <2>2 DEF Apart
  <2> QED BY <1>1, <2>1, <2>2, <2>3
<1>5. \A n \in DOMAIN mainQ : n \in DOMAIN mainQ' /\ mainQ'[n] = mainQ[n]
  BY <1>1
<1>6. Showing'
  <2>1. NoReload' => NoReload
    BY <1>5 DEF NoReload
  <2> QED BY <1>0, <1>1, <1>4, <2>1, ShowingKept
<1>7. Ghostless'
  <2> SUFFICES ASSUME vc = cur, ~sub, ~reload'[vc] PROVE Ghosts(vc)' = {}
    BY <1>1 DEF Ghostless
  <2>1. ~reload[cur] /\ grey = {}
    BY <1>0, <1>1 DEF TypeOK
  <2>2. Ghosts(vc)' = Ghosts(cur)
    BY <1>1, <1>4 DEF Ghosts, Visible
  <2>3. ASSUME NEW b \in Ghosts(cur) PROVE FALSE
    <3>1. btnTemp[b] /\ btnId[b] = REPORT /\ b \in Range(buttons[cur])
      BY <1>0, <1>1, <2>1 DEF Showing, Ghosts, Visible
    <3>2. PICK n \in DOMAIN buttons[cur] : buttons[cur][n] = b
      BY <3>1 DEF Range
    <3>3. \A m \in 1 .. n - 1 : btnId[buttons[cur][m]] # REPORT
      <4>1. n \in 1 .. Len(buttons[cur]) /\ DOMAIN buttons[cur] = 1 .. Len(buttons[cur])
            /\ Len(buttons[cur]) \in Nat
        BY <1>0, <1>1, <3>2, HeldRange
      <4>2. \A m \in DOMAIN buttons[cur] : btnId[buttons[cur][m]] = REPORT => m = n
        BY <1>0, <1>1, <3>1, <3>2 DEF Reports
      <4>3. \A m \in 1 .. n - 1 : m \in 1 .. Len(buttons[cur]) /\ m # n
        BY <4>1
      <4> QED BY <4>1, <4>2, <4>3
    <3>4. b \in Btn
      BY <1>0, <1>1, <3>1, HeldRange
    <3>5. b \in grey
      BY <3>1, <3>2, <3>3, <3>4 DEF GreyReport
    <3> QED BY <2>1, <3>5
  <2> QED BY <2>2, <2>3
<1>8. Coming'
  <2>1. ~other[cur] => Len(mainQ) + 1 \in DOMAIN mainQ' /\ mainQ'[Len(mainQ) + 1] = Show(cur)
    BY <1>1
  <2> QED BY <1>1, <2>1 DEF Coming, Show
<1> QED BY <1>2, <1>6, <1>7, <1>8 DEF ScreenInv

\* A tap greys at most a report button, and rebinds the cells when it does.
LEMMA ClickScreen ==
  ASSUME ScreenInv, TypeOK', Held' \subseteq Held, NEW b \in Btn, ClickButton(b)
  PROVE  ScreenInv'
<1>0. TypeOK /\ Apart /\ Reports /\ Showing /\ Ghostless /\ Coming BY DEF ScreenInv
<1>1. /\ mpc = "idle" /\ mpc' = "accept" /\ clicked' = b
      /\ UNCHANGED <<buttons, reload, other, btnId, pc, cur, mainQ, vc, sub, bar>>
  BY DEF ClickButton, appVars
<1>2. Apart' /\ Reports' /\ Coming'
  BY <1>0, <1>1 DEF Apart, Reports, Coming
<1>3. CASE btnId[b] = REPORT
  <2>1. /\ btnStatus' = [btnStatus EXCEPT ![b] = DISABLE]
        /\ btnTemp' = [btnTemp EXCEPT ![b] = TRUE]
        /\ Bind(bar, btnStatus')
    BY <1>3 DEF ClickButton
  <2>2. Ghostless'
    BY <1>1, <1>3 DEF Ghostless
  <2>3. Showing'
    <3> SUFFICES ASSUME vc \in Obj, ~sub, ~reload[vc]
                 PROVE  /\ bar \subseteq Visible(vc)'
                        /\ \A x \in Ghosts(vc)' : btnTemp'[x] /\ btnId[x] = REPORT
                        /\ Bound'
      BY <1>1 DEF Showing, Ghosts, Visible
    <3>1. bar \subseteq Visible(vc) /\ \A x \in Ghosts(vc) : btnTemp[x] /\ btnId[x] = REPORT
      BY <1>0 DEF Showing
    <3>2. \A x \in Range(buttons[vc]) : x \in Btn
      BY <1>0, HeldObjects, HeldRange
    <3>3. \A x \in Range(buttons[vc]) :
            IF x = b THEN btnStatus'[x] = DISABLE /\ btnTemp'[x]
                     ELSE btnStatus'[x] = btnStatus[x] /\ btnTemp'[x] = btnTemp[x]
      BY <1>0, <2>1, <3>2 DEF TypeOK
    <3>4. bar \subseteq Visible(vc)'
      BY <1>1, <3>1, <3>3 DEF Visible, DISABLE, UNVISIBLE
    <3>5. \A x \in Ghosts(vc)' : btnTemp'[x] /\ btnId[x] = REPORT
      BY <1>1, <1>3, <3>1, <3>3 DEF Ghosts, Visible
    <3>6. Bound'
      BY <1>1, <2>1 DEF Bind, Bound
    <3> QED BY <3>4, <3>5, <3>6
  <2> QED BY <1>2, <2>2, <2>3 DEF ScreenInv
<1>4. CASE btnId[b] # REPORT
  BY <1>1, <1>4, ScreenKept DEF ClickButton
<1> QED BY <1>3, <1>4

\* A swallowed tap is none on a report button, and leaves the bar or covers it.
LEMMA SwallowScreen ==
  ASSUME OneReport, ScreenInv, TypeOK', Held' \subseteq Held, SwallowClick
  PROVE  ScreenInv'
<1>0. TypeOK /\ Apart /\ Reports /\ Showing /\ Ghostless /\ Coming BY DEF ScreenInv
<1>1. /\ mpc = "accept" /\ vc \in Obj /\ btnId[clicked] # REPORT /\ mainQ \in Seq(Block)
      /\ UNCHANGED <<buttons, btnId, btnStatus, btnTemp, reload, pc, cur, vc, cells, live>>
  BY <1>0 DEF SwallowClick, OneReport, TypeOK, btnVars, appVars
<1>2. Apart' /\ Reports'
  BY <1>0, <1>1 DEF Apart, Reports
<1>3. CASE owner[vc] \in WithSubPage
  <2>1. other' = [other EXCEPT ![vc] = TRUE] /\ sub' = TRUE /\ mainQ' = Append(mainQ, Reload)
    BY <1>3 DEF SwallowClick
  <2>2. \A n \in DOMAIN mainQ : n \in DOMAIN mainQ' /\ mainQ'[n] = mainQ[n]
    BY <1>1, <2>1 DEF Reload, Block
  <2>3. pc = "wait" /\ other[cur] => other'[cur]
    BY <1>0, <2>1 DEF TypeOK
  <2>4. Showing' /\ Ghostless'
    BY <2>1 DEF Showing, Ghostless
  <2>5. Coming'
    BY <1>0, <1>1, <2>2, <2>3 DEF Coming, Show
  <2> QED BY <1>2, <2>4, <2>5 DEF ScreenInv
<1>4. CASE owner[vc] \notin WithSubPage
  <2>1. UNCHANGED <<other, sub, bar, mainQ>>
    BY <1>4 DEF SwallowClick
  <2>2. Showing'
    BY <1>0, <1>1, <2>1, ShowingKept DEF NoReload
  <2>3. Ghostless'
    BY <1>0, <1>1, <2>1 DEF Ghostless, Ghosts, Visible
  <2>4. Coming'
    BY <1>0, <1>1, <2>1 DEF Coming
  <2> QED BY <1>2, <2>2, <2>3, <2>4 DEF ScreenInv
<1> QED BY <1>3, <1>4

\* ScreenInv is inductive where screens have at most one report button.
LEMMA ScreenStep ==
  ASSUME OneReport, ScreenInv, [Next]_vars
  PROVE  ScreenInv'
<1>0. TypeOK /\ TypeOK' BY TypeStep DEF ScreenInv
<1>1. CASE \E i \in ID : Construct(i) \/ InitTitle(i)
  BY <1>0, <1>1, AllocateScreen
<1> SUFFICES ASSUME \A i \in ID : ~Construct(i) /\ ~InitTitle(i) PROVE ScreenInv'
  BY <1>1
<1>2. Held' \subseteq Held
  BY <1>0, HeldStep
<1>3. CASE \E i \in ID : AddButtonEx(i)
  BY <1>0, <1>2, <1>3, AddScreen
<1>4. CASE \E i \in ID, k \in 0 .. MaxButtons - 1 : DelButton(i, k)
  BY <1>0, <1>2, <1>4, DelScreen
<1>5. CASE \E i \in ID, k \in 0 .. MaxButtons - 1 :
             SetButtonText(i, k) \/ \E status \in Status : SetButtonStatus(i, k, status)
  BY <1>0, <1>2, <1>5, SetScreen
<1>6. CASE ShowPublish
  BY <1>0, <1>2, <1>6, PublishScreen
<1>7. CASE RunBlock
  BY <1>0, <1>2, <1>7, RunBlockScreen
<1>8. CASE \E b \in Btn : ClickButton(b)
  BY <1>0, <1>2, <1>8, ClickScreen
<1>9. CASE SwallowClick
  BY <1>0, <1>2, <1>9, SwallowScreen
<1>10. CASE SubBackClick
  BY <1>0, <1>2, <1>10, SubBackScreen
<1>11. ASSUME UNCHANGED <<buttons, btnId, btnStatus, btnTemp, reload, other, vc, sub, bar, cells,
                          live, mainQ>>,
              pc' = "wait" => /\ pc = "wait" /\ cur' = cur
                              /\ mpc = "idle" \/ mpc' = "signal" \/ vc # cur \/ UNCHANGED mainVars
       PROVE  ScreenInv'
  BY <1>0, <1>2, <1>11, ScreenKept
<1>12. CASE \E i \in ID : Destruct(i) \/ ShowWithId(i)
  BY <1>11, <1>12 DEF Destruct, ShowWithId, objVars, btnVars, appVars, uiVars
<1>13. CASE ShowEnter \/ ShowReset \/ ShowRead \/ ShowClear
  BY <1>11, <1>13 DEF ShowEnter, ShowReset, ShowRead, ShowClear, objVars, btnVars, uiVars
<1>14. CASE AcceptClick \/ BackClick
  BY <1>11, <1>14 DEF AcceptClick, BackClick, btnVars, appVars, uiVars
<1>15. CASE ConditionSignal
  BY <1>11, <1>15 DEF ConditionSignal, SignalTo, btnVars, uiVars
<1>16. CASE \E o \in Obj : LockTimer(o)
  BY <1>11, <1>16 DEF LockTimer, SignalTo, btnVars, uiVars
<1>17. CASE UNCHANGED vars
  BY <1>11, <1>17 DEF vars, objVars, btnVars, appVars, uiVars, mainVars
<1> QED
  BY <1>3, <1>4, <1>5, <1>6, <1>7, <1>8, <1>9, <1>10, <1>12, <1>13, <1>14, <1>15, <1>16, <1>17
  DEF Next, Fill, InShow, User, Main

\* A screen that waits with nothing left on the main queue shows exactly what its
\* model holds: however its buttons are added, deleted, hidden, greyed by a tap,
\* replaced by another screen or covered by a page, no change is lost.
THEOREM ScreenShowsModel == OneReport /\ Spec => []ScreenMatchesModel
<1> DEFINE Inductive == OneReport /\ ScreenInv
<1>1. OneReport /\ Init => Inductive
  <2> SUFFICES ASSUME Init PROVE ScreenInv OBVIOUS
  <2>1. Held = {} BY ArtiAssumption DEF Init, Held, Referenced, Range
  <2> QED BY <2>1, TypeInit, ArtiAssumption
          DEF Init, ScreenInv, Apart, Reports, Showing, Ghostless, Coming
<1>2. Inductive /\ [Next]_vars => Inductive'
  BY ScreenStep DEF OneReport
<1>3. Inductive => ScreenMatchesModel
  <2> SUFFICES ASSUME ScreenInv, pc = "wait", mainQ = <<>>, mpc = "idle", vc = cur, ~sub, ~other[cur]
               PROVE  /\ cells = {b \in Range(buttons[cur]) : btnStatus[b] # UNVISIBLE}
                      /\ live = {b \in Range(buttons[cur]) : btnStatus[b] = ENABLE}
    BY DEF ScreenMatchesModel
  <2>1. vc \in Obj /\ ~reload[vc]
    BY DEF ScreenInv, Coming, TypeOK
  <2>2. NoReload
    BY DEF NoReload
  <2>3. cells = bar /\ live = {b \in bar : btnStatus[b] = ENABLE} /\ bar = Visible(cur)
    BY <2>1, <2>2 DEF ScreenInv, Showing, Bound, Ghostless, Ghosts
  <2> QED BY <2>3 DEF Visible, ENABLE, UNVISIBLE
<1> QED BY <1>1, <1>2, <1>3, PTL DEF Spec

-----------------------------------------------------------------------------
(* Waiting ends.  From a signal, or from a timer that runs, the way back   *)
(* to the vehicle application has finitely many stages, so that fairness   *)
(* can be applied to one after the other.  What ENABLED says of the        *)
(* actions on the way, which follows from their guards, is a hypothesis.   *)

\* Show can go on once it has been woken, the main thread can finish the touch
\* it is in the middle of, and when it is idle a queued block can run and a
\* timer can fire.
TimerCanFire(o) == mpc = "idle" /\ timer[o] => ENABLED <<LockTimer(o)>>_vars
GuardsEnable ==
  /\ pc \in {"woken", "clear"} => ENABLED <<InShow>>_vars
  /\ mpc # "idle" => ENABLED <<HandleTouch>>_vars
  /\ mpc = "idle" /\ mainQ # <<>> => ENABLED <<RunBlock>>_vars
  /\ \A o \in Obj : TimerCanFire(o)

\* A signal to the waiter is about to be sent; the waiter's timer runs.
Signalled == pc = "wait" /\ mpc = "signal" /\ vc = cur
TimerSet(o) == pc = "wait" /\ cur = o /\ timer[o]

\* Show returns once a timer runs that will wake it, whatever the user does and
\* whichever screens come and go meanwhile.
TimerEnds(o) == TimerSet(o) ~> pc = "run"
TimerEndsShow == \A o \in Obj : TimerEnds(o)

\* Until show has returned, a step is show's own, or wakes it, or leaves the thread
\* where it is, with its timer and a signal about to be sent.
LEMMA WaitKept ==
  ASSUME TypeOK, [Next]_vars, pc \in {"wait", "woken", "clear"}
  PROVE  \/ InShow
         \/ pc = "wait" /\ pc' = "woken"
         \/ /\ UNCHANGED <<pc, cur>>
            /\ pc = "wait" /\ timer[cur] => timer'[cur]
            /\ Signalled => UNCHANGED <<mpc, vc>>
<1>. USE DEF Signalled
<1>1. cur \in Obj
  BY DEF TypeOK
<1>3. CASE Fill \/ \E i \in ID : ShowWithId(i)
  BY <1>3 DEF Fill, Construct, Destruct, InitTitle, AddButtonEx, DelButton, SetButtonText,
              SetButtonStatus, ShowWithId
<1>4. CASE RunBlock
  <2>1. \A q \in Obj : timer[q] => timer'[q]
    BY <1>4 DEF RunBlock, ArtiShow, TypeOK
  <2>. QED
    BY <1>1, <1>4, <2>1 DEF RunBlock, appVars
<1>5. CASE AcceptClick \/ SwallowClick
  BY <1>5 DEF AcceptClick, SwallowClick, appVars
<1>6. CASE ConditionSignal
  BY <1>1, <1>6 DEF ConditionSignal, SignalTo, TypeOK
<1>7. ASSUME NEW o \in Obj, LockTimer(o)
      PROVE  \/ pc = "wait" /\ pc' = "woken"
             \/ UNCHANGED <<pc, cur>> /\ (pc = "wait" /\ timer[cur] => timer'[cur]) /\ mpc = "idle"
  BY <1>1, <1>7 DEF LockTimer, SignalTo, TypeOK
<1>8. CASE BackClick
  BY <1>8 DEF BackClick, appVars
<1>9. CASE SubBackClick
  <2>1. \A q \in Obj : timer[q] => timer'[q]
    BY <1>9 DEF SubBackClick, ArtiShow, TypeOK
  <2>. QED
    BY <1>1, <1>9, <2>1 DEF SubBackClick, appVars
<1>10. ASSUME NEW b \in Btn, ClickButton(b) PROVE UNCHANGED <<pc, cur, timer>> /\ mpc = "idle"
  BY <1>10 DEF ClickButton, appVars
<1>11. CASE UNCHANGED vars
  BY <1>11 DEF vars, appVars, objVars, mainVars, uiVars
<1>. QED
  BY <1>3, <1>4, <1>5, <1>6, <1>7, <1>8, <1>9, <1>10, <1>11 DEF Next, User, Main

\* The main thread finishes the touch it is in the middle of.
LEMMA TouchKept ==
  ASSUME TypeOK', [Next]_vars
  PROVE  /\ mpc = "signal" => mpc' = "signal" \/ mpc' = "idle"
         /\ HandleTouch => mpc' \in {"signal", "idle"} /\ (mpc = "signal" => mpc' = "idle")
<1>1. HandleTouch => mpc' \in {"signal", "idle"} /\ (mpc = "signal" => mpc' = "idle")
  BY DEF HandleTouch, AcceptClick, SwallowClick, ConditionSignal
<1>2. ASSUME Fill \/ (\E i \in ID : ShowWithId(i)) \/ InShow \/ UNCHANGED vars
      PROVE  UNCHANGED mpc
  <2>1. ASSUME NEW i, NEW r, Allocate(i, r) PROVE UNCHANGED mpc
    BY <2>1 DEF Allocate, mainVars
  <2>2. CASE Fill
    BY <2>1, <2>2 DEF Fill, Construct, Destruct, InitTitle, AddButtonEx, DelButton,
                      SetButtonText, SetButtonStatus, mainVars
  <2>3. CASE \E i \in ID : ShowWithId(i)
    BY <2>3 DEF ShowWithId, mainVars
  <2>4. CASE InShow \/ UNCHANGED vars
    BY <2>4 DEF InShow, ShowEnter, ShowReset, ShowPublish, ShowRead, ShowClear, mainVars, vars
  <2>. QED
    BY <1>2, <2>2, <2>3, <2>4
<1>3. CASE User \/ RunBlock \/ \E o \in Obj : LockTimer(o)
  BY <1>1, <1>3 DEF User, BackClick, SubBackClick, ClickButton, RunBlock, LockTimer
<1>. QED
  BY <1>1, <1>2, <1>3 DEF Next, Main, HandleTouch

\* What fairness gives for the timer of one screen.
LEMMA TimersRun == Fairness => \A o \in Obj : TimerRuns(o)
BY PTL DEF Fairness

\* Once the thread has been woken, show returns.
LEMMA WokenReturns == FairSpec /\ []GuardsEnable => (pc = "woken" ~> pc = "run")
<1>1. TypeOK /\ [Next]_vars =>
        /\ pc = "woken" => (pc = "woken")' \/ (pc = "clear")'
        /\ pc = "clear" => (pc = "clear")' \/ (pc = "run")'
  BY WaitKept DEF InShow, ShowEnter, ShowReset, ShowPublish, ShowRead, ShowClear
<1>2. <<InShow>>_vars => /\ pc = "woken" => (pc = "clear")'
                         /\ pc = "clear" => (pc = "run")'
  BY DEF InShow, ShowEnter, ShowReset, ShowPublish, ShowRead, ShowClear
<1>3. GuardsEnable => (pc = "woken" \/ pc = "clear" => ENABLED <<InShow>>_vars)
  BY DEF GuardsEnable
<1>4. Fairness => WF_vars(InShow)
  BY PTL DEF Fairness
<1>5. FairSpec /\ []GuardsEnable => (pc = "woken" ~> pc = "clear")
  BY <1>1, <1>2, <1>3, <1>4, TypeCorrect, PTL DEF FairSpec, Spec
<1>6. FairSpec /\ []GuardsEnable => (pc = "clear" ~> pc = "run")
  BY <1>1, <1>2, <1>3, <1>4, TypeCorrect, PTL DEF FairSpec, Spec
<1>. QED
  BY <1>5, <1>6, PTL

\* A signal sent by the screen that is up ends the show that waits on it, for any
\* number of screens: nothing comes between the touch and its signal that would
\* replace the screen, and the signal finds the thread waiting.
THEOREM AnswersEndShows == FairSpec /\ []GuardsEnable => AnswerEndsShow
<1>1. TypeOK /\ [Next]_vars => (Signalled => Signalled' \/ (pc = "woken")')
  BY WaitKept DEF Signalled, InShow, ShowEnter, ShowReset, ShowPublish, ShowRead, ShowClear
<1>2. <<HandleTouch>>_vars => (Signalled => (pc = "woken")')
  BY DEF Signalled, HandleTouch, AcceptClick, SwallowClick, ConditionSignal, SignalTo
<1>3. GuardsEnable => (Signalled => ENABLED <<HandleTouch>>_vars)
  BY DEF GuardsEnable, Signalled
<1>4. Fairness => WF_vars(HandleTouch)
  BY PTL DEF Fairness
<1>5. FairSpec /\ []GuardsEnable => (Signalled ~> pc = "woken")
  BY <1>1, <1>2, <1>3, <1>4, TypeCorrect, PTL DEF FairSpec, Spec
<1>. QED
  BY <1>5, WokenReturns, PTL DEF AnswerEndsShow, Signalled

\* The main thread is idle again and again: a touch has two stages.
LEMMA IdleRecurs == FairSpec /\ []GuardsEnable => []<>(mpc = "idle")
<1>1. TypeOK => mpc = "accept" \/ mpc = "signal" \/ mpc = "idle"
  BY DEF TypeOK
<1>2. TypeOK' /\ [Next]_vars => (mpc = "signal" => (mpc = "signal")' \/ (mpc = "idle")')
  BY TouchKept
<1>3. TypeOK' /\ <<HandleTouch>>_vars => /\ (mpc = "signal")' \/ (mpc = "idle")'
                                         /\ mpc = "signal" => (mpc = "idle")'
  <2>1. HandleTouch => [Next]_vars
    BY DEF HandleTouch, Next, Main
  <2>. QED
    BY <2>1, TouchKept
<1>4. GuardsEnable => (mpc = "accept" \/ mpc = "signal" => ENABLED <<HandleTouch>>_vars)
  BY DEF GuardsEnable
<1>5. Fairness => WF_vars(HandleTouch)
  BY PTL DEF Fairness
<1>6. FairSpec /\ []GuardsEnable => (mpc = "accept" ~> mpc = "signal" \/ mpc = "idle")
  BY <1>1, <1>3, <1>4, <1>5, TypeCorrect, PTL DEF FairSpec, Spec
<1>7. FairSpec /\ []GuardsEnable => (mpc = "signal" ~> mpc = "idle")
  BY <1>2, <1>3, <1>4, <1>5, TypeCorrect, PTL DEF FairSpec, Spec
<1>. QED
  BY <1>1, <1>6, <1>7, TypeCorrect, PTL DEF FairSpec

\* The timer of one screen, chained.
LEMMA TimerWakes ==
  ASSUME NEW o \in Obj
  PROVE  FairSpec /\ []GuardsEnable => TimerEnds(o)
<1>1. TypeOK /\ [Next]_vars => (TimerSet(o) => TimerSet(o)' \/ (pc = "woken")')
  BY WaitKept DEF TimerSet, InShow, ShowEnter, ShowReset, ShowPublish, ShowRead, ShowClear
<1>2. <<LockTimer(o)>>_vars => (TimerSet(o) => (pc = "woken")')
  BY DEF TimerSet, LockTimer, SignalTo
<1>3. GuardsEnable => (mpc = "idle" /\ TimerSet(o) => ENABLED <<LockTimer(o)>>_vars)
  BY DEF GuardsEnable, TimerSet, TimerCanFire
<1>4. Fairness => TimerRuns(o)
  BY TimersRun
<1>5. TimerRuns(o) => SF_vars(LockTimer(o))
  BY PTL DEF TimerRuns
<1>6. FairSpec /\ []GuardsEnable => (TimerSet(o) ~> pc = "woken")
  BY <1>1, <1>2, <1>3, <1>4, <1>5, IdleRecurs, TypeCorrect, PTL DEF FairSpec, Spec
<1>. QED
  BY <1>6, WokenReturns, PTL DEF TimerEnds

\* A refreshing screen whose timer runs returns to the vehicle application without
\* the user, for any number of screens.
THEOREM TimersEndShows == FairSpec /\ []GuardsEnable => TimerEndsShow
BY TimerWakes DEF TimerEndsShow

\* The thread waits for a screen that refreshes itself; a block that will start
\* the screen's timer is on the main queue, among its first n blocks.
Refreshes(o) == pc = "wait" /\ cur = o /\ owner[o] \in Refreshing
StartsAt(o, k) == k \in DOMAIN mainQ /\ mainQ[k] \in {Show(o), Arm(o)}
Queued(o, n) == Refreshes(o) /\ \E k \in 1 .. n : StartsAt(o, k)

\* It always is, unless the timer already runs.
WillRefresh == \A o \in Obj : Refreshes(o) => timer[o] \/ \E k \in DOMAIN mainQ : StartsAt(o, k)

\* The queue is bounded: only a tap that opens a page of its own may find it full.
QueueBounded == Len(mainQ) <= (IF mpc = "accept" THEN MaxQueue ELSE MaxQueue + 1)

RefreshInv == TypeOK /\ QueueBounded /\ WillRefresh

\* While the thread waits the main queue only grows at its end, unless its head is
\* served.
LEMMA QueueKept ==
  ASSUME TypeOK, [Next]_vars, pc = "wait"
  PROVE  /\ owner' = owner
         /\ RunBlock \/ mainQ' = mainQ \/ mainQ' = Append(mainQ, Reload)
<1>1. CASE Fill \/ (\E i \in ID : ShowWithId(i)) \/ InShow
  BY <1>1 DEF Fill, Construct, Destruct, InitTitle, AddButtonEx, DelButton, SetButtonText,
              SetButtonStatus, ShowWithId, InShow, ShowEnter, ShowReset, ShowPublish, ShowRead,
              ShowClear
<1>2. CASE UNCHANGED vars
  BY <1>2 DEF vars, objVars, uiVars
<1>3. CASE RunBlock
  BY <1>3 DEF RunBlock
<1>4. CASE AcceptClick \/ SwallowClick \/ ConditionSignal \/ BackClick
  BY <1>4 DEF AcceptClick, SwallowClick, ConditionSignal, BackClick, uiVars
<1>5. CASE SubBackClick
  BY <1>5 DEF SubBackClick, ArtiShow
<1>6. ASSUME NEW o \in Obj, LockTimer(o) PROVE UNCHANGED <<owner, mainQ>>
  BY <1>6 DEF LockTimer, uiVars
<1>7. ASSUME NEW b \in Btn, ClickButton(b) PROVE UNCHANGED <<owner, mainQ>>
  BY <1>7 DEF ClickButton
<1>. QED
  BY <1>1, <1>2, <1>3, <1>4, <1>5, <1>6, <1>7 DEF Next, User, Main

\* Serving the head of the queue starts the timer or brings the block that will one
\* place forward.
LEMMA BlockServed ==
  ASSUME TypeOK, RunBlock, NEW o \in Obj, owner[o] \in Refreshing,
         NEW k \in DOMAIN mainQ, StartsAt(o, k)
  PROVE  timer'[o] \/ (k - 1 \in 1 .. k /\ StartsAt(o, k - 1)')
<1>1. /\ mainQ \in Seq(Block) /\ mainQ # <<>> /\ Head(mainQ) = mainQ[1] /\ Tail(mainQ) \in Seq(Block)
      /\ \A n \in DOMAIN mainQ : n # 1 =>
           n - 1 \in 1 .. n /\ n - 1 \in DOMAIN Tail(mainQ) /\ Tail(mainQ)[n - 1] = mainQ[n]
  BY DEF RunBlock, TypeOK
<1>2. mainQ' = Tail(mainQ) \/ mainQ' = Append(Tail(mainQ), Reload)
  BY DEF RunBlock, ArtiShow
<1>3. \A n \in DOMAIN Tail(mainQ) : n \in DOMAIN mainQ' /\ mainQ'[n] = Tail(mainQ)[n]
  BY <1>1, <1>2 DEF Reload, Block
<1>4. CASE k = 1
  <2>1. Head(mainQ) = Show(o) \/ Head(mainQ) = Arm(o)
    BY <1>1, <1>4 DEF StartsAt
  <2>2. CASE Head(mainQ) = Show(o)
    <3>1. Head(mainQ).kind = "show" /\ Head(mainQ).obj = o
      BY <2>2 DEF Show
    <3>2. timer' = [timer EXCEPT ![o] = @ \/ owner[o] \in Refreshing]
      BY <3>1 DEF RunBlock, ArtiShow
    <3>. QED
      BY <3>2 DEF TypeOK
  <2>3. CASE Head(mainQ) = Arm(o)
    <3>1. Head(mainQ).kind = "arm" /\ Head(mainQ).obj = o
      BY <2>3 DEF Arm
    <3>2. timer' = [timer EXCEPT ![o] = TRUE]
      BY <3>1 DEF RunBlock
    <3>. QED
      BY <3>2 DEF TypeOK
  <2>. QED
    BY <2>1, <2>2, <2>3
<1>5. CASE k # 1
  BY <1>1, <1>3, <1>5 DEF StartsAt, Show, Arm
<1>. QED
  BY <1>4, <1>5

\* What is queued stays queued.
LEMMA BlockStays ==
  ASSUME TypeOK, mainQ' = mainQ \/ mainQ' = Append(mainQ, Reload), NEW o, NEW k, StartsAt(o, k)
  PROVE  StartsAt(o, k)'
<1>1. mainQ \in Seq(Block) /\ Reload \in Block
  BY DEF TypeOK, Reload, Block
<1>2. k \in DOMAIN mainQ' /\ mainQ'[k] = mainQ[k]
  BY <1>1 DEF StartsAt
<1>. QED
  BY <1>2 DEF StartsAt, Show, Arm

\* The queue stays bounded.
LEMMA BoundStep ==
  ASSUME TypeOK, QueueBounded, [Next]_vars
  PROVE  QueueBounded'
<1>. USE DEF QueueBounded
<1>0. MaxQueue \in Nat /\ mainQ \in Seq(Block) /\ Len(mainQ) \in Nat
  BY ArtiAssumption DEF TypeOK
<1>1. ASSUME UNCHANGED <<mainQ, mpc>> PROVE QueueBounded'
  BY <1>1
<1>2. ASSUME NEW i, NEW r, Allocate(i, r) PROVE QueueBounded'
  BY <1>1, <1>2 DEF Allocate, uiVars, mainVars
<1>3. CASE Fill \/ \E i \in ID : ShowWithId(i)
  BY <1>1, <1>2, <1>3 DEF Fill, Construct, Destruct, InitTitle, AddButtonEx, DelButton,
        SetButtonText, SetButtonStatus, ShowWithId, uiVars, mainVars
<1>4. CASE ShowEnter \/ ShowReset \/ ShowRead \/ ShowClear \/ UNCHANGED vars
  BY <1>1, <1>4 DEF ShowEnter, ShowReset, ShowRead, ShowClear, uiVars, mainVars, vars
<1>5. CASE ShowPublish
  <2>1. PICK b \in {Show(cur), Arm(cur)} : mainQ' = Append(mainQ, b)
    BY <1>5 DEF ShowPublish
  <2>2. Len(mainQ') = Len(mainQ) + 1
    BY <1>0, <2>1
  <2>. QED
    BY <1>0, <1>5, <2>2 DEF ShowPublish, mainVars
<1>6. ASSUME NEW o, NEW rest \in Seq(Block), Len(rest) \in Nat, Len(rest) <= MaxQueue,
             ArtiShow(o, rest)
      PROVE  Len(mainQ') <= MaxQueue + 1
  BY <1>0, <1>6 DEF ArtiShow
<1>7. CASE RunBlock
  <2>1. Tail(mainQ) \in Seq(Block) /\ Len(Tail(mainQ)) = Len(mainQ) - 1 /\ Len(mainQ) >= 1
    BY <1>0, <1>7 DEF RunBlock
  <2>2. mpc = "idle" /\ mpc' = "idle"
    BY <1>7 DEF RunBlock, mainVars
  <2>3. mainQ' = Tail(mainQ) \/ mainQ' = Append(Tail(mainQ), Reload)
    BY <1>7 DEF RunBlock, ArtiShow
  <2>4. Len(mainQ') <= Len(mainQ)
    BY <1>0, <2>1, <2>3
  <2>. QED
    BY <1>0, <2>2, <2>4
<1>8. CASE SubBackClick
  <2>1. mpc' = mpc /\ mpc = "idle" /\ Len(mainQ) < MaxQueue /\ ArtiShow(vc, mainQ)
    BY <1>8 DEF SubBackClick, mainVars
  <2>. QED
    BY <1>0, <1>6, <2>1
<1>9. CASE BackClick \/ AcceptClick \/ ConditionSignal
  BY <1>0, <1>9 DEF BackClick, AcceptClick, ConditionSignal, uiVars
<1>10. CASE SwallowClick
  <2>1. mpc = "accept" /\ mpc' = "idle" /\ (mainQ' = mainQ \/ mainQ' = Append(mainQ, Reload))
    BY <1>10 DEF SwallowClick
  <2>. QED
    BY <1>0, <2>1
<1>11. ASSUME NEW o \in Obj, LockTimer(o) PROVE QueueBounded'
  BY <1>1, <1>11 DEF LockTimer, uiVars, mainVars
<1>12. ASSUME NEW b \in Btn, ClickButton(b) PROVE QueueBounded'
  BY <1>0, <1>12 DEF ClickButton
<1>. QED
  BY <1>3, <1>4, <1>5, <1>7, <1>8, <1>9, <1>10, <1>11, <1>12
     DEF Next, InShow, User, Main

\* Only ShowPublish begins a wait.
LEMMA Published ==
  ASSUME TypeOK, [Next]_vars, pc # "wait", pc' = "wait"
  PROVE  ShowPublish
<1>1. ASSUME UNCHANGED pc PROVE FALSE
  BY <1>1
<1>2. ASSUME NEW i, NEW r, Allocate(i, r) PROVE FALSE
  BY <1>1, <1>2 DEF Allocate, appVars
<1>3. CASE Fill \/ \E i \in ID : ShowWithId(i)
  BY <1>1, <1>2, <1>3 DEF Fill, Construct, Destruct, InitTitle, AddButtonEx, DelButton,
        SetButtonText, SetButtonStatus, ShowWithId, appVars
<1>4. CASE InShow \/ UNCHANGED vars
  BY <1>4 DEF InShow, ShowEnter, ShowReset, ShowRead, ShowClear, vars, appVars
<1>5. CASE User
  BY <1>1, <1>5 DEF User, BackClick, SubBackClick, ClickButton, appVars
<1>6. CASE RunBlock \/ AcceptClick \/ SwallowClick
  BY <1>1, <1>6 DEF RunBlock, AcceptClick, SwallowClick, appVars
<1>7. CASE ConditionSignal \/ \E o \in Obj : LockTimer(o)
  BY <1>7 DEF ConditionSignal, LockTimer, SignalTo
<1>. QED
  BY <1>3, <1>4, <1>5, <1>6, <1>7 DEF Next, Main

\* A waiter keeps what will start its timer.
LEMMA RefreshStep ==
  ASSUME RefreshInv, [Next]_vars
  PROVE  RefreshInv'
<1>1. TypeOK /\ TypeOK' /\ QueueBounded'
  BY TypeStep, BoundStep DEF RefreshInv
<1>. SUFFICES ASSUME NEW o \in Obj, Refreshes(o)', ~timer'[o]
              PROVE  \E k \in DOMAIN mainQ' : StartsAt(o, k)'
  BY <1>1 DEF RefreshInv, WillRefresh
<1>2. CASE pc = "wait"
  <2>1. UNCHANGED <<pc, cur, owner>> /\ (timer[o] => timer'[o])
    BY <1>1, <1>2, WaitKept, QueueKept DEF Refreshes, InShow, ShowEnter, ShowReset, ShowPublish,
       ShowRead, ShowClear
  <2>2. Refreshes(o) /\ ~timer[o]
    BY <2>1 DEF Refreshes
  <2>3. PICK k \in DOMAIN mainQ : StartsAt(o, k)
    BY <2>2 DEF RefreshInv, WillRefresh
  <2>4. CASE RunBlock
    BY <1>1, <2>2, <2>3, <2>4, BlockServed DEF Refreshes, StartsAt
  <2>5. CASE ~RunBlock
    BY <1>1, <1>2, <2>3, <2>5, QueueKept, BlockStays DEF StartsAt
  <2>. QED
    BY <2>4, <2>5
<1>3. CASE pc # "wait"
  <2>1. ShowPublish
    BY <1>1, <1>3, Published DEF Refreshes
  <2>2. PICK b \in {Show(cur), Arm(cur)} : mainQ' = Append(mainQ, b)
    BY <2>1 DEF ShowPublish
  <2>3. cur' = cur /\ mainQ \in Seq(Block) /\ Len(mainQ) \in Nat
    BY <1>1, <2>1 DEF ShowPublish, TypeOK
  <2>4. Len(mainQ) + 1 \in DOMAIN mainQ' /\ mainQ'[Len(mainQ) + 1] = b
    BY <2>2, <2>3
  <2>. QED
    BY <2>2, <2>3, <2>4 DEF StartsAt, Refreshes, Show, Arm
<1>. QED
  BY <1>2, <1>3

\* RefreshInv holds throughout.
LEMMA RefreshAlways == Spec => []RefreshInv
<1>1. Init => RefreshInv
  <2>1. Init => TypeOK
    BY TypeInit
  <2>. QED
    BY <2>1, ArtiAssumption DEF Init, RefreshInv, QueueBounded, WillRefresh, Refreshes
<1>. QED
  BY <1>1, RefreshStep, PTL DEF Spec

\* A block that will start the timer of o, at most n blocks away, ends the wait.
Drains(o, n) == FairSpec /\ []GuardsEnable => (Queued(o, n) ~> pc = "run")

\* One block less is in the way each time the head of the queue is served.
LEMMA DrainStep ==
  ASSUME NEW o \in Obj, NEW n \in Nat
  PROVE  Drains(o, n) => Drains(o, n + 1)
<1>1. ASSUME RefreshInv, Queued(o, n + 1), [Next]_vars
      PROVE  Queued(o, n + 1)' \/ Queued(o, n)' \/ TimerSet(o)' \/ (pc = "woken")'
  <2>1. PICK k \in 1 .. n + 1 : StartsAt(o, k)
    BY <1>1 DEF Queued
  <2>2. pc = "wait" /\ cur = o /\ owner[o] \in Refreshing /\ TypeOK /\ k \in DOMAIN mainQ
    BY <1>1, <2>1 DEF Queued, Refreshes, RefreshInv, StartsAt
  <2>3. CASE pc' = "woken"
    BY <2>3
  <2>4. CASE pc' # "woken"
    <3>1. Refreshes(o)'
      BY <1>1, <2>2, <2>4, WaitKept, QueueKept
         DEF Refreshes, InShow, ShowEnter, ShowReset, ShowPublish, ShowRead, ShowClear
    <3>2. CASE RunBlock
      BY <2>1, <2>2, <3>1, <3>2, BlockServed DEF Queued, TimerSet, Refreshes
    <3>3. CASE ~RunBlock
      BY <1>1, <2>1, <2>2, <3>1, <3>3, QueueKept, BlockStays DEF Queued
    <3>. QED
      BY <3>2, <3>3
  <2>. QED
    BY <2>3, <2>4
<1>2. ASSUME RefreshInv, Queued(o, n + 1), RunBlock
      PROVE  Queued(o, n)' \/ TimerSet(o)'
  <2>1. PICK k \in 1 .. n + 1 : StartsAt(o, k)
    BY <1>2 DEF Queued
  <2>2. owner[o] \in Refreshing /\ TypeOK /\ k \in DOMAIN mainQ
    BY <1>2, <2>1 DEF Queued, Refreshes, RefreshInv, StartsAt
  <2>3. Refreshes(o)'
    BY <1>2 DEF RunBlock, Queued, Refreshes, appVars
  <2>. QED
    BY <1>2, <2>1, <2>2, <2>3, BlockServed DEF Queued, TimerSet, Refreshes
<1>3. GuardsEnable /\ RefreshInv => (mpc = "idle" /\ Queued(o, n + 1) => ENABLED <<RunBlock>>_vars)
  BY DEF GuardsEnable, Queued, StartsAt, RefreshInv, TypeOK
<1>4. Fairness => SF_vars(RunBlock)
  BY PTL DEF Fairness
<1>5. FairSpec /\ []GuardsEnable => TimerEnds(o)
  BY TimerWakes
<1>6. FairSpec /\ []GuardsEnable =>
        (Queued(o, n + 1) ~> Queued(o, n) \/ TimerSet(o) \/ pc = "woken")
  BY <1>1, <1>2, <1>3, <1>4, IdleRecurs, RefreshAlways, PTL DEF FairSpec, Spec
<1>. QED
  BY <1>5, <1>6, WokenReturns, PTL DEF Drains, TimerEnds

\* However many blocks are in the way, all of them are served.
LEMMA QueueDrains ==
  ASSUME NEW o \in Obj
  PROVE  \A n \in Nat : Drains(o, n)
<1>. DEFINE Drain == [n \in Nat |-> Drains(o, n)]
<1>1. Drains(o, 0)
  <2>1. ~Queued(o, 0)
    BY DEF Queued
  <2>. QED
    BY <2>1, PTL DEF Drains
<1>2. ASSUME NEW n \in Nat PROVE Drains(o, n) => Drains(o, n + 1)
  BY DrainStep
<1>3. \E U : Available(U) /\ \A n \in Nat : U[n] <=> Drains(o, n)
  <2>1. Available(Drain)
    BY DEF Available
  <2>. QED
    BY <2>1
<1>. QED
  BY <1>1, <1>2, <1>3, FunctionInduction

\* The refreshing screen of one object.
LEMMA RefreshEnds ==
  ASSUME NEW o \in Obj
  PROVE  FairSpec /\ []GuardsEnable => ReturnsByItself(o)
<1>. DEFINE Longest == MaxQueue + 1
<1>1. RefreshInv => (Refreshes(o) => TimerSet(o) \/ Queued(o, Longest))
  <2>1. ASSUME RefreshInv, NEW k \in DOMAIN mainQ PROVE k \in 1 .. Longest
    BY <2>1, ArtiAssumption DEF RefreshInv, QueueBounded, TypeOK
  <2>2. ASSUME RefreshInv, Refreshes(o) PROVE TimerSet(o) \/ Queued(o, Longest)
    <3>1. timer[o] \/ \E k \in DOMAIN mainQ : StartsAt(o, k)
      BY <2>2 DEF RefreshInv, WillRefresh
    <3>. HIDE DEF Longest
    <3>. QED
      BY <2>1, <2>2, <3>1 DEF TimerSet, Queued, Refreshes
  <2>. QED
    BY <2>2
<1>2. Drains(o, Longest)
  BY QueueDrains, ArtiAssumption
<1>3. FairSpec /\ []GuardsEnable => TimerEnds(o)
  BY TimerWakes
<1>. QED
  BY <1>1, <1>2, <1>3, RefreshAlways, PTL
     DEF Drains, TimerEnds, ReturnsByItself, Refreshes, FairSpec

\* A screen that refreshes itself returns to the vehicle application without the
\* user, for any number of screens and any length of the main queue.
THEOREM RefreshesReturn == FairSpec /\ []GuardsEnable => RefreshReturns
BY RefreshEnds DEF RefreshReturns
=============================================================================
