------------------------------ MODULE ArtiModel ------------------------------
(***************************************************************************)
(* The blocking dialogue between the vehicle application and the screen.   *)
(*                                                                         *)
(* A vehicle application runs on the diagnosis thread.  It fills in a      *)
(* TDD_ArtiModelBase (a menu, a list, a message box, live data ...) and    *)
(* calls Show, which blocks on the model's NSCondition until the main      *)
(* thread signals it; the value Show returns is whatever returnID holds    *)
(* at that moment.  TDD_DiagnosisViewController and the button bar run on  *)
(* the main thread, which executes one touch, one main-queue block or one  *)
(* timer at a time.                                                        *)
(*                                                                         *)
(* One object class is modelled; an ID stands for a (class, ID) pair of    *)
(* objectDic.  isLock is YES for every model that reaches show.            *)
(***************************************************************************)
EXTENDS Integers, Sequences, SequencesExt

CONSTANTS
  Obj,          \* model objects that memory may hold
  Btn,          \* button objects that memory may hold
  ID,           \* the IDs the vehicle application constructs
  NoObj, NoBtn, \* nil
  Builtin,      \* [ID -> Seq(Int)]: ids of the buttons a screen is born with
  Refreshing,   \* IDs whose view calls conditionSignalWithTime: when rendered
  WithSubPage,  \* IDs (live data) whose swallowed buttons open a page of their own
  SwallowIds,   \* button ids for which the model's ArtiButtonClick: returns NO
  MaxButtons,   \* bound: length of a buttonArr
  MaxQueue      \* bound: blocks waiting on the main queue

\* Button statuses, and the special values of returnID.  A free button is
\* written as its offset from DF_ID_FREEBTN_0.
ENABLE == "enable"
DISABLE == "disable"
UNVISIBLE == "unvisible"
Status == {ENABLE, DISABLE, UNVISIBLE}
NOKEY == -1
BACK == -2
REPORT == -3

ASSUME ArtiAssumption ==
  /\ NoObj \notin Obj
  /\ NoBtn \notin Btn
  /\ ID # {}
  /\ Builtin \in [ID -> Seq(Int)]
  /\ \A i \in ID : NOKEY \notin Range(Builtin[i])
  /\ Refreshing \subseteq ID
  /\ WithSubPage \subseteq Refreshing
  /\ SwallowIds \subseteq Int
  /\ MaxButtons \in Nat
  /\ MaxQueue \in Nat

VARIABLES
  reg,       \* objectDic: the object registered under each ID
  owner,     \* the ID each object was constructed for
  buttons,   \* buttonArr of each object
  returnID,  \* returnID of each object
  lastClick, \* lastClickButtonModel of each object
  reload,    \* isReloadButton of each object
  other,     \* isShowOtherView of each object
  timer,     \* whether lockTimer of each object is scheduled
  btnId,     \* uButtonId of each button object
  btnStatus, \* uStatus of each button object
  btnTemp,   \* bIsTemporaryNoEnable of each button object
  pc,        \* where the diagnosis thread is
  cur,       \* the object whose show it is inside
  ret,       \* the value that show is about to return
  mainQ,     \* blocks on the main queue, oldest first
  vc,        \* the view controller's model ...
  sub,       \* ... or, when TRUE, the live-data page that vc has opened over itself
  bar,       \* buttonArr of the button bar
  cells,     \* buttons the bar's cells are bound to ...
  live,      \* ... and those of them whose cell was bound enabled
  mpc,       \* what the main thread is in the middle of
  clicked,   \* the button being handled by ArtiButtonClick:
  fresh      \* history: the user has answered since show last took an answer

objVars == <<owner, buttons, returnID, lastClick, reload, other, timer>>
btnVars == <<btnId, btnStatus, btnTemp>>
appVars == <<pc, cur, ret>>
uiVars  == <<mainQ, vc, sub, bar, cells, live>>
mainVars == <<mpc, clicked>>
vars == <<reg, objVars, btnVars, appVars, uiVars, mainVars, fresh>>

Block == [kind : {"show", "arm"}, obj : Obj] \cup [kind : {"reload"}, obj : {NoObj}]
Show(o) == [kind |-> "show", obj |-> o]
Arm(o)  == [kind |-> "arm", obj |-> o]
Reload  == [kind |-> "reload", obj |-> NoObj]

TypeOK ==
  /\ reg \in [ID -> Obj \cup {NoObj}]
  /\ owner \in [Obj -> ID]
  /\ buttons \in [Obj -> Seq(Btn)]
  /\ returnID \in [Obj -> Int]
  /\ lastClick \in [Obj -> Btn \cup {NoBtn}]
  /\ reload \in [Obj -> BOOLEAN]
  /\ other \in [Obj -> BOOLEAN]
  /\ timer \in [Obj -> BOOLEAN]
  /\ btnId \in [Btn -> Int]
  /\ btnStatus \in [Btn -> Status]
  /\ btnTemp \in [Btn -> BOOLEAN]
  /\ pc \in {"run", "enter", "reset", "publish", "wait", "woken", "clear"}
  /\ cur \in Obj \cup {NoObj}
  /\ ret \in Int
  /\ mainQ \in Seq(Block)
  /\ vc \in Obj \cup {NoObj}
  /\ sub \in BOOLEAN
  /\ bar \subseteq Btn
  /\ cells \subseteq Btn
  /\ live \subseteq cells
  /\ mpc \in {"idle", "accept", "signal"}
  /\ clicked \in Btn \cup {NoBtn}
  /\ fresh \in [Obj -> BOOLEAN]
  /\ (pc # "run" => cur \in Obj)
  /\ (mpc # "idle" => vc \in Obj)
  /\ (mpc = "accept" => clicked \in Btn)
  /\ (sub => vc \in Obj)

\* Objects something still points to, were the registry r: the rest is free memory.
Referenced(r) ==
  Range(r) \cup {vc} \cup {mainQ[n].obj : n \in DOMAIN mainQ}
           \cup {o \in Obj : timer[o]} \cup {cur}
ReferencedBtn ==
  LET held == Referenced(reg) \cap Obj IN
  (UNION {Range(buttons[o]) \cup {lastClick[o]} : o \in held}) \cup bar \cup cells \cup {clicked}

Init ==
  /\ reg = [i \in ID |-> NoObj]
  /\ owner = [o \in Obj |-> CHOOSE i \in ID : TRUE]
  /\ buttons = [o \in Obj |-> <<>>]
  /\ returnID = [o \in Obj |-> NOKEY]
  /\ lastClick = [o \in Obj |-> NoBtn]
  /\ reload = [o \in Obj |-> FALSE]
  /\ other = [o \in Obj |-> FALSE]
  /\ timer = [o \in Obj |-> FALSE]
  /\ btnId = [b \in Btn |-> 0]
  /\ btnStatus = [b \in Btn |-> ENABLE]
  /\ btnTemp = [b \in Btn |-> FALSE]
  /\ pc = "run" /\ cur = NoObj /\ ret = NOKEY
  /\ mainQ = <<>> /\ vc = NoObj /\ sub = FALSE
  /\ bar = {} /\ cells = {} /\ live = {}
  /\ mpc = "idle" /\ clicked = NoBtn
  /\ fresh = [o \in Obj |-> FALSE]
-----------------------------------------------------------------------------
(* The diagnosis thread between two shows: the interface the vehicle       *)
(* application fills a screen in with.                                     *)

\* A fresh object registered under i, with one button object per built-in id.
Allocate(i, r) ==
  \E o \in Obj \ Referenced(r), own \in [DOMAIN Builtin[i] -> Btn \ ReferencedBtn] :
    /\ \A m, n \in DOMAIN own : m # n => own[m] # own[n]
    /\ reg' = [r EXCEPT ![i] = o]
    /\ owner' = [owner EXCEPT ![o] = i]
    /\ buttons' = [buttons EXCEPT ![o] = own]
    /\ returnID' = [returnID EXCEPT ![o] = NOKEY]
    /\ lastClick' = [lastClick EXCEPT ![o] = NoBtn]
    /\ reload' = [reload EXCEPT ![o] = FALSE]
    /\ other' = [other EXCEPT ![o] = FALSE]
    /\ fresh' = [fresh EXCEPT ![o] = FALSE]
    /\ btnId' = [b \in Btn |-> IF \E n \in DOMAIN own : own[n] = b
                               THEN Builtin[i][CHOOSE n \in DOMAIN own : own[n] = b]
                               ELSE btnId[b]]
    /\ btnStatus' = [b \in Btn |-> IF b \in Range(own) THEN ENABLE ELSE btnStatus[b]]
    /\ btnTemp' = [b \in Btn |-> IF b \in Range(own) THEN FALSE ELSE btnTemp[b]]
    /\ UNCHANGED <<timer, appVars, uiVars, mainVars>>

\* An ID that is already constructed keeps its object.
Construct(i) ==
  /\ pc = "run"
  /\ reg[i] = NoObj
  /\ Allocate(i, reg)

Destruct(i) ==
  /\ pc = "run"
  /\ reg[i] # NoObj
  /\ reg' = [reg EXCEPT ![i] = NoObj]
  /\ UNCHANGED <<objVars, btnVars, appVars, uiVars, mainVars, fresh>>

\* InitTitle destroys the ID's object and constructs another.
InitTitle(i) ==
  /\ pc = "run"
  /\ Allocate(i, [reg EXCEPT ![i] = NoObj])

AddButtonEx(i) ==
  /\ pc = "run"
  /\ reg[i] # NoObj
  /\ Len(buttons[reg[i]]) < MaxButtons
  /\ \E b \in Btn \ ReferencedBtn :
       /\ btnId' = [btnId EXCEPT ![b] = Len(buttons[reg[i]])]
       /\ btnStatus' = [btnStatus EXCEPT ![b] = ENABLE]
       /\ btnTemp' = [btnTemp EXCEPT ![b] = FALSE]
       /\ buttons' = [buttons EXCEPT ![reg[i]] = Append(@, b)]
       /\ reload' = [reload EXCEPT ![reg[i]] = TRUE]
  /\ UNCHANGED <<reg, owner, returnID, lastClick, other, timer, appVars, uiVars, mainVars, fresh>>

\* The id is used as a position: button k is the one at index k, whatever its id.
DelButton(i, k) ==
  /\ pc = "run"
  /\ reg[i] # NoObj
  /\ k \in 0 .. Len(buttons[reg[i]]) - 1
  /\ buttons' = [buttons EXCEPT ![reg[i]] = RemoveAt(@, k + 1)]
  /\ reload' = [reload EXCEPT ![reg[i]] = TRUE]
  /\ UNCHANGED <<reg, owner, returnID, lastClick, other, timer, btnVars,
                 appVars, uiVars, mainVars, fresh>>

SetButtonStatus(i, k, status) ==
  /\ pc = "run"
  /\ reg[i] # NoObj
  /\ k \in 0 .. Len(buttons[reg[i]]) - 1
  /\ LET b == buttons[reg[i]][k + 1] IN
       /\ btnStatus[b] # status
       /\ btnStatus' = [btnStatus EXCEPT ![b] = status]
  /\ reload' = [reload EXCEPT ![reg[i]] = TRUE]
  /\ UNCHANGED <<reg, owner, buttons, returnID, lastClick, other, timer, btnId, btnTemp,
                 appVars, uiVars, mainVars, fresh>>

\* A changed text shows only as the request to reload.
SetButtonText(i, k) ==
  /\ pc = "run"
  /\ reg[i] # NoObj
  /\ k \in 0 .. Len(buttons[reg[i]]) - 1
  /\ reload' = [reload EXCEPT ![reg[i]] = TRUE]
  /\ UNCHANGED <<reg, owner, buttons, returnID, lastClick, other, timer, btnVars,
                 appVars, uiVars, mainVars, fresh>>
-----------------------------------------------------------------------------
(* The diagnosis thread inside show.                                       *)

\* For a missing object Show returns DF_ID_BACK at once, and nothing changes.
ShowWithId(i) ==
  /\ pc = "run"
  /\ reg[i] # NoObj
  /\ pc' = "enter"
  /\ cur' = reg[i]
  /\ UNCHANGED <<reg, objVars, btnVars, ret, uiVars, mainVars, fresh>>

\* Mutant: only a disabled button's answer is stale, not a deleted one's.
StaleAnswerDisabledOnly(o) ==
  LET b == lastClick[o] IN
  /\ b # NoBtn
  /\ returnID[o] = btnId[b]
  /\ b \in Range(buttons[o]) /\ btnStatus[b] # ENABLE /\ ~btnTemp[b]

\* The answer left from before this show is the last clicked button's, and that
\* button has since been deleted or disabled.
StaleAnswer(o) ==
  LET b == lastClick[o] IN
  /\ b # NoBtn
  /\ returnID[o] = btnId[b]
  /\ b \in Range(buttons[o]) => btnStatus[b] # ENABLE /\ ~btnTemp[b]

ShowEnter ==
  /\ pc = "enter"
  /\ pc' = IF StaleAnswer(cur) THEN "reset" ELSE "publish"
  /\ UNCHANGED <<reg, objVars, btnVars, cur, ret, uiVars, mainVars, fresh>>

ShowReset ==
  /\ pc = "reset"
  /\ returnID' = [returnID EXCEPT ![cur] = NOKEY]
  /\ pc' = "publish"
  /\ UNCHANGED <<reg, owner, buttons, lastClick, reload, other, timer, btnVars,
                 cur, ret, uiVars, mainVars, fresh>>

\* reloadButtonState: the first report button, greyed by its own click, comes back.
GreyReport(o) ==
  {b \in Btn : \E n \in DOMAIN buttons[o] :
     /\ buttons[o][n] = b /\ btnId[b] = REPORT /\ btnTemp[b]
     /\ \A m \in 1 .. n - 1 : btnId[buttons[o][m]] # REPORT}

\* Mutant: with another page on show, the model waits without starting its timer.
ShowPublishNoTimer ==
  /\ pc = "publish"
  /\ Len(mainQ) < MaxQueue
  /\ mainQ' = IF other[cur] THEN mainQ ELSE Append(mainQ, Show(cur))
  /\ pc' = "wait"
  /\ UNCHANGED <<reg, objVars, btnVars, cur, ret, vc, sub, bar, cells, live, mainVars, fresh>>

\* The wait has no predicate: from here only a signal continues the thread.
ShowPublish ==
  /\ pc = "publish"
  /\ Len(mainQ) < MaxQueue
  /\ LET grey == GreyReport(cur) IN
       /\ btnStatus' = [b \in Btn |-> IF b \in grey THEN ENABLE ELSE btnStatus[b]]
       /\ btnTemp' = [b \in Btn |-> IF b \in grey THEN FALSE ELSE btnTemp[b]]
       /\ reload' = [reload EXCEPT ![cur] = @ \/ grey # {}]
  /\ mainQ' = Append(mainQ, IF other[cur] THEN Arm(cur) ELSE Show(cur))
  /\ pc' = "wait"
  /\ UNCHANGED <<reg, owner, buttons, returnID, lastClick, other, timer, btnId, cur, ret,
                 vc, sub, bar, cells, live, mainVars, fresh>>

\* Mutant: the check for a stale answer is made after the wait instead of before it.
ShowReadChecked ==
  /\ pc = "woken"
  /\ ret' = IF StaleAnswer(cur) THEN NOKEY ELSE returnID[cur]
  /\ fresh' = [fresh EXCEPT ![cur] = FALSE]
  /\ pc' = "clear"
  /\ UNCHANGED <<reg, objVars, btnVars, cur, uiVars, mainVars>>

\* Reading the answer and clearing it are two steps, neither of them under the lock;
\* ret, the value show returns, leaves for the vehicle application with the second.
ShowRead ==
  /\ pc = "woken"
  /\ ret' = returnID[cur]
  /\ fresh' = [fresh EXCEPT ![cur] = FALSE]
  /\ pc' = "clear"
  /\ UNCHANGED <<reg, objVars, btnVars, cur, uiVars, mainVars>>

\* Mutant: the answer is not cleared after it has been read.
ShowKeep ==
  /\ pc = "clear"
  /\ pc' = "run"
  /\ cur' = NoObj
  /\ ret' = NOKEY
  /\ UNCHANGED <<reg, objVars, btnVars, uiVars, mainVars, fresh>>

ShowClear ==
  /\ pc = "clear"
  /\ returnID' = [returnID EXCEPT ![cur] = NOKEY]
  /\ pc' = "run"
  /\ cur' = NoObj
  /\ ret' = NOKEY
  /\ UNCHANGED <<reg, owner, buttons, lastClick, reload, other, timer, btnVars,
                 uiVars, mainVars, fresh>>
-----------------------------------------------------------------------------
(* The main thread.                                                        *)

\* Mutant: the condition remembers a signal nobody was waiting for.
SignalLatched(o) == pc' = IF pc \in {"run", "wait"} THEN "woken" ELSE pc

\* A signal reaches the diagnosis thread only while it waits on that very object.
SignalTo(o) == pc' = IF pc = "wait" /\ cur = o THEN "woken" ELSE pc

\* Mutant: a screen that comes up does not reload its buttons by itself.
ArtiShowNoReload(o, rest) ==
  /\ vc' = o
  /\ sub' = FALSE
  /\ reload' = [reload EXCEPT ![o] = FALSE]
  /\ bar' = IF reload[o] THEN {b \in Range(buttons[o]) : btnStatus[b] # UNVISIBLE} ELSE bar
  /\ mainQ' = IF reload[o] THEN Append(rest, Reload) ELSE rest
  /\ timer' = [timer EXCEPT ![o] = @ \/ owner[o] \in Refreshing]

\* Mutant: a refreshing view starts its timer only when it comes up, not when it
\* is shown again.
ArtiShowTimerOnce(o, rest) ==
  LET again == reload[o] \/ vc # o \/ sub IN
  /\ vc' = o
  /\ sub' = FALSE
  /\ reload' = [reload EXCEPT ![o] = FALSE]
  /\ bar' = IF again THEN {b \in Range(buttons[o]) : btnStatus[b] # UNVISIBLE} ELSE bar
  /\ mainQ' = IF again THEN Append(rest, Reload) ELSE rest
  /\ timer' = [timer EXCEPT ![o] = @ \/ (again /\ owner[o] \in Refreshing)]

\* artiShow: makes o the screen.  A screen that was not on show reloads its
\* buttons; the cells follow in a block of their own (rest: the queue to append to).
ArtiShow(o, rest) ==
  LET again == reload[o] \/ vc # o \/ sub IN
  /\ vc' = o
  /\ sub' = FALSE
  /\ reload' = [reload EXCEPT ![o] = FALSE]
  /\ bar' = IF again THEN {b \in Range(buttons[o]) : btnStatus[b] # UNVISIBLE} ELSE bar
  /\ mainQ' = IF again THEN Append(rest, Reload) ELSE rest
  /\ timer' = [timer EXCEPT ![o] = @ \/ owner[o] \in Refreshing]

\* The cells bind to the bar's buttons and to the status each has at that moment.
Bind(b, status) ==
  /\ cells' = b
  /\ live' = {x \in b : status[x] = ENABLE}

RunBlock ==
  /\ mpc = "idle"
  /\ mainQ # <<>>
  /\ LET block == Head(mainQ) IN
       \/ /\ block.kind = "show"
          /\ ArtiShow(block.obj, Tail(mainQ))
          /\ UNCHANGED <<cells, live>>
       \/ /\ block.kind = "arm"
          /\ timer' = [timer EXCEPT ![block.obj] = TRUE]
          /\ mainQ' = Tail(mainQ)
          /\ UNCHANGED <<reload, vc, sub, bar, cells, live>>
       \/ /\ block.kind = "reload"
          /\ Bind(bar, btnStatus)
          /\ mainQ' = Tail(mainQ)
          /\ UNCHANGED <<reload, timer, vc, sub, bar>>
  /\ UNCHANGED <<reg, owner, buttons, returnID, lastClick, other, btnVars, appVars, mainVars, fresh>>

\* The user taps a button.  A report button greys itself.
ClickButton(b) ==
  /\ mpc = "idle" /\ vc # NoObj /\ ~sub
  /\ Len(mainQ) < MaxQueue
  /\ b \in live
  /\ lastClick' = [lastClick EXCEPT ![vc] = b]
  /\ clicked' = b
  /\ mpc' = "accept"
  /\ IF btnId[b] = REPORT
     THEN /\ btnStatus' = [btnStatus EXCEPT ![b] = DISABLE]
          /\ btnTemp' = [btnTemp EXCEPT ![b] = TRUE]
          /\ Bind(bar, btnStatus')
     ELSE UNCHANGED <<btnStatus, btnTemp, cells, live>>
  /\ UNCHANGED <<reg, owner, buttons, returnID, reload, other, timer, btnId, appVars,
                 mainQ, vc, sub, bar, fresh>>

AcceptClick ==
  /\ mpc = "accept"
  /\ btnId[clicked] \notin SwallowIds
  /\ returnID' = [returnID EXCEPT ![vc] = btnId[clicked]]
  /\ fresh' = [fresh EXCEPT ![vc] = TRUE]
  /\ mpc' = "signal"
  /\ UNCHANGED <<reg, owner, buttons, lastClick, reload, other, timer, btnVars, appVars,
                 uiVars, clicked>>

\* ArtiButtonClick: returned NO.  Live data has opened its page over itself.
SwallowClick ==
  /\ mpc = "accept"
  /\ btnId[clicked] \in SwallowIds
  /\ mpc' = "idle"
  /\ clicked' = NoBtn
  /\ IF owner[vc] \in WithSubPage
     THEN /\ other' = [other EXCEPT ![vc] = TRUE]
          /\ sub' = TRUE
          /\ bar' = {}
          /\ mainQ' = Append(mainQ, Reload)
     ELSE UNCHANGED <<other, sub, bar, mainQ>>
  /\ UNCHANGED <<reg, owner, buttons, returnID, lastClick, reload, timer, btnVars, appVars,
                 vc, cells, live, fresh>>

BackClick ==
  /\ mpc = "idle" /\ vc # NoObj /\ ~sub
  /\ returnID' = [returnID EXCEPT ![vc] = BACK]
  /\ fresh' = [fresh EXCEPT ![vc] = TRUE]
  /\ mpc' = "signal"
  /\ UNCHANGED <<reg, owner, buttons, lastClick, reload, other, timer, btnVars, appVars,
                 uiVars, clicked>>

\* Leaving the live-data page shows the live data again, at once.
SubBackClick ==
  /\ mpc = "idle" /\ sub
  /\ Len(mainQ) < MaxQueue
  /\ other' = [other EXCEPT ![vc] = FALSE]
  /\ ArtiShow(vc, mainQ)
  /\ UNCHANGED <<reg, owner, buttons, returnID, lastClick, btnVars, appVars,
                 cells, live, mainVars, fresh>>

\* Mutant: the timer is stopped but the condition is not signalled.
ConditionStopTimer ==
  /\ mpc = "signal"
  /\ timer' = [timer EXCEPT ![vc] = FALSE]
  /\ mpc' = "idle"
  /\ clicked' = NoBtn
  /\ UNCHANGED <<reg, owner, buttons, returnID, lastClick, reload, other, btnVars, appVars,
                 uiVars, fresh>>

ConditionSignal ==
  /\ mpc = "signal"
  /\ timer' = [timer EXCEPT ![vc] = FALSE]
  /\ SignalTo(vc)
  /\ mpc' = "idle"
  /\ clicked' = NoBtn
  /\ UNCHANGED <<reg, owner, buttons, returnID, lastClick, reload, other, btnVars, cur, ret,
                 uiVars, fresh>>

LockTimer(o) ==
  /\ mpc = "idle"
  /\ timer[o]
  /\ timer' = [timer EXCEPT ![o] = FALSE]
  /\ SignalTo(o)
  /\ UNCHANGED <<reg, owner, buttons, returnID, lastClick, reload, other, btnVars, cur, ret,
                 uiVars, mainVars, fresh>>
-----------------------------------------------------------------------------
Fill ==
  \E i \in ID :
    \/ Construct(i) \/ Destruct(i) \/ InitTitle(i) \/ AddButtonEx(i)
    \/ \E k \in 0 .. MaxButtons - 1 :
         \/ DelButton(i, k) \/ SetButtonText(i, k)
         \/ \E s \in Status : SetButtonStatus(i, k, s)
InShow == ShowEnter \/ ShowReset \/ ShowPublish \/ ShowRead \/ ShowClear
User == BackClick \/ SubBackClick \/ \E b \in Btn : ClickButton(b)
Main == RunBlock \/ AcceptClick \/ SwallowClick \/ ConditionSignal \/ \E o \in Obj : LockTimer(o)

Next == Fill \/ (\E i \in ID : ShowWithId(i)) \/ InShow \/ User \/ Main

Spec == Init /\ [][Next]_vars

\* The threads are scheduled and the run loop serves its queue and its timers
\* between touches, however many there are; nobody makes the user act.
HandleTouch == AcceptClick \/ SwallowClick \/ ConditionSignal
TimerRuns(o) == SF_vars(LockTimer(o))
Fairness ==
  /\ WF_vars(InShow)
  /\ SF_vars(RunBlock)
  /\ WF_vars(HandleTouch)
  /\ \A o \in Obj : TimerRuns(o)
FairSpec == Spec /\ Fairness
-----------------------------------------------------------------------------
(* What the dialogue promises.                                             *)

\* An answer is handed to the vehicle application at most once: a returnID other
\* than DF_ID_NOKEY was put there by the user after show last took one, except
\* while show is between reading it and clearing it.
AnswerIsFresh ==
  \A o \in Obj : returnID[o] # NOKEY => fresh[o] \/ (pc = "clear" /\ cur = o)

\* Whatever screens are opened, replaced, destroyed or refreshed, the thread that
\* waits in show can be reached: its screen is up or queued to come up, or a timer
\* that will wake it is running or queued to start.
WaiterReachable ==
  pc = "wait" =>
    \/ vc = cur
    \/ timer[cur]
    \/ \E n \in DOMAIN mainQ : mainQ[n] \in {Show(cur), Arm(cur)}

\* A screen that waits for the user, with nothing left on the main queue, shows
\* exactly the buttons its model holds, each enabled as the model says
\* (isReloadButton has not lost a change).
ScreenMatchesModel ==
  (pc = "wait" /\ mainQ = <<>> /\ mpc = "idle" /\ vc = cur /\ ~sub /\ ~other[cur]) =>
    /\ cells = {b \in Range(buttons[cur]) : btnStatus[b] # UNVISIBLE}
    /\ live = {b \in Range(buttons[cur]) : btnStatus[b] = ENABLE}

Enabled(o, id) ==
  \E b \in Range(buttons[o]) : btnId[b] = id /\ (btnStatus[b] = ENABLE \/ btnTemp[b])

\* Show keeps an answer given before it was called only if a button that is there
\* and enabled can have given it (or the user went back).  A click still on its way
\* to returnID is exempt: it will overwrite the answer.
StaleAnswerDropped ==
  [][(ShowEnter /\ pc' = "publish" /\ ~(mpc = "accept" /\ vc = cur))
       => returnID[cur] \in {NOKEY, BACK} \/ Enabled(cur, returnID[cur])]_vars

\* A screen that refreshes itself returns to the vehicle application without the
\* user, wherever the user has gone meanwhile.
ReturnsByItself(o) == (pc = "wait" /\ cur = o /\ owner[o] \in Refreshing) ~> (pc = "run")
RefreshReturns == \A o \in Obj : ReturnsByItself(o)

\* A signal sent by the screen that is up ends the show that waits on it.
AnswerEndsShow ==
  (pc = "wait" /\ mpc = "signal" /\ vc = cur) ~> (pc = "run")

\* The dialogue is the abstract one of module Dialog: an answer reaches the vehicle
\* application at most once, from its own screen, and is never lost once show waits.
PhaseOf == [run |-> "idle", enter |-> "entering", reset |-> "entering", publish |-> "entering",
            wait |-> "waiting", woken |-> "waiting", clear |-> "replying"]
Abstract == INSTANCE Dialog WITH
  asking <- cur,
  phase <- PhaseOf[pc],
  box <- {o \in Obj : fresh[o] /\ returnID[o] # NOKEY},
  reply <- IF pc # "clear" THEN "none" ELSE IF ret = NOKEY THEN "nothing" ELSE "answer"
ImplementsDialog == Abstract!Spec
-----------------------------------------------------------------------------
(* What comments of the code say, and the code does not do.                *)

\* DelButton deletes the button its argument names, the id AddButtonEx returned
\* ("此ID用于DelButton接口的参数").
DelButtonDeletesNamed ==
  [][\A i \in ID, k \in 0 .. MaxButtons - 1 :
       DelButton(i, k) =>
         LET old == buttons[reg[i]]
             gone == Range(old) \ Range(buttons'[reg[i]]) IN
         (\E b \in Range(old) : btnId[b] = k) => \A b \in gone : btnId[b] = k]_vars

\* A blocking show returns what the user chose ("组件界面按键返回值 ... 阻塞接口").
BlockingShowAnswers ==
  [][ShowRead => owner[cur] \in Refreshing \/ returnID[cur] # NOKEY]_vars

\* isShowOtherView says whether the model's other page is on show ("是否显示其他页面").
OtherViewMeansSubPage ==
  \A o \in Obj : other[o] => (vc = o /\ sub)
=============================================================================
