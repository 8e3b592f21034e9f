----------------------------- MODULE SystemScan -----------------------------
(***************************************************************************)
(* The system scan of the demonstration vehicle application and the page   *)
(* it drives: CAppLayer::StartAppLayer on the diagnosis thread against     *)
(* TDD_ArtiSystemModel and its view on the main thread.                    *)
(*                                                                         *)
(* The application lists the vehicle's systems, and then reacts to what    *)
(* the page's Show returns: scan all, pause, erase all, report, a system   *)
(* to enter, back.  The page decides which buttons it offers from the scan *)
(* status, the clear status and the results the application has set.       *)
(* While the application works the user goes on tapping what was drawn     *)
(* last; the last answer waits in returnID until the next Show takes it.   *)
(*                                                                         *)
(* Show itself is the subject of ArtiModel: this page signals itself 0.1 s *)
(* after it is drawn, so here a Show returns at some point, with whatever  *)
(* answer there is.  The order of the rows, the button that hides missing  *)
(* systems and the limits of an expired licence are left out.              *)
(***************************************************************************)
EXTENDS Integers, Sequences

CONSTANTS
  N,           \* how many systems the vehicle lists
  Cars,        \* the vehicles, entry masks and products considered
  MaxEntered   \* bound: systems entered before the first scan

Sys == 0 .. N - 1

\* codes: the two systems the demonstration has trouble codes for; absent: the two
\* it says do not exist; plain: the others.
Kind == {"codes", "absent", "plain"}

\* reads, erases: the entry type allows reading and erasing codes; topvci: one of the
\* products of the TopVCI kind.
Car == [kind : [Sys -> Kind], reads : BOOLEAN, erases : BOOLEAN, topvci : BOOLEAN]

ASSUME ScanAssumption ==
  /\ N \in Nat \ {0}
  /\ Cars \subseteq Car
  /\ MaxEntered \in Nat

\* Results: none yet, the system does not exist, or so many trouble codes.  A scan
\* reads four or six codes in a system that has some (FOUND stands for both); two are left
\* after an erasure, or after the system was entered.
NONE == -2
NOTEXIST == -1
LEFT == 2
FOUND == 4
Result == {NONE, NOTEXIST, 0, LEFT, FOUND}

\* What Show returns.  Row(s) is a system to enter, Dtc(s) a quick view of its codes.
Row(s) == [id |-> "row", sys |-> s]
Dtc(s) == [id |-> "dtc", sys |-> s]
Key(k) == [id |-> k, sys |-> -1]
NOKEY == Key("nokey")
BACK == Key("back")
START == Key("start")
STOP == Key("stop")
ERASE == Key("erase")
REPORT == Key("report")
Answer == {NOKEY, BACK, START, STOP, ERASE, REPORT}
            \cup {Row(s) : s \in Sys} \cup {Dtc(s) : s \in Sys}

Button == {"report", "scan", "erase"}
NoButton == "nobutton"
NoSys == -1

VARIABLES
  car,         \* the vehicle and product of this behaviour
  \* the page model
  scanStatus, clearStatus,
  result,      \* uResult of each system
  on,          \* which buttons are ENABLE
  stopId,      \* the scan button's id is DF_ID_SYS_STOP, not DF_ID_SYS_START
  grey,        \* bIsTemporaryNoEnable of the report button
  clickStart,  \* clickStartScanBtn
  answer,      \* returnID
  lastClick,   \* lastClickButtonModel
  \* the screen
  visible,     \* the page is what the view controller shows
  redraw,      \* a block that draws the page is on the main queue
  drawn,       \* the buttons drawn as enabled
  alert,       \* the question on top of the page, if any
  \* the application
  pc,          \* where it is ...
  phase,       \* ... and for a Show: about to call it, waiting in it, or back from it
  ret,         \* what the last Show returned
  iScan,       \* the system the scan is at
  bScan,       \* a scan has been started once
  report,      \* vctItemsys
  todo,        \* the systems still to be erased
  target,      \* the system entered
  early        \* history: report has lines from before the first scan

pageVars == <<scanStatus, clearStatus, result, on, stopId, grey, clickStart>>
screenVars == <<visible, redraw, drawn, alert>>
workVars == <<iScan, bScan, report, todo, early>>
vars == <<car, pageVars, answer, lastClick, screenVars, pc, phase, ret, target, workVars>>

ShowPoint == {"main", "scan1", "scan2", "erase1", "erase2", "refresh"}
\* The page has been left through its loop, from inside a scan, or by a crash.
Gone == {"left", "dropped", "crashed"}

TypeOK ==
  /\ car \in Cars
  /\ scanStatus \in {"none", "start", "pause", "finish"}
  /\ clearStatus \in {"none", "start", "finish"}
  /\ result \in [Sys -> Result]
  /\ on \in [Button -> BOOLEAN]
  /\ stopId \in BOOLEAN /\ grey \in BOOLEAN /\ clickStart \in BOOLEAN
  /\ answer \in Answer
  /\ lastClick \in Button \cup {NoButton}
  /\ visible \in BOOLEAN /\ redraw \in BOOLEAN
  /\ drawn \in [Button -> BOOLEAN]
  /\ alert \in {"none", "back", "erase"}
  /\ pc \in ShowPoint \cup Gone \cup {"entering", "away"}
  /\ phase \in {"call", "wait", "got"}
  /\ ret \in Answer
  /\ iScan \in 0 .. N
  /\ bScan \in BOOLEAN
  /\ report \in Seq([sys : Sys, dtcs : {0, LEFT, FOUND}])
  /\ todo \subseteq Sys
  /\ target \in Sys \cup {NoSys}
  /\ early \in BOOLEAN
  /\ pc \in {"scan1", "scan2"} => scanStatus = "start" /\ iScan < N
  /\ pc \in {"erase1", "erase2"} => todo # {}
  /\ pc = "refresh" => target \in Sys

\* Construct, and AddItem for each system.
Init ==
  /\ car \in Cars
  /\ scanStatus = "none" /\ clearStatus = "none"
  /\ result = [s \in Sys |-> NONE]
  /\ on = [b \in Button |-> b = "scan"]
  /\ stopId = FALSE /\ grey = FALSE /\ clickStart = FALSE
  /\ answer = NOKEY /\ lastClick = NoButton
  /\ visible = FALSE /\ redraw = FALSE
  /\ drawn = [b \in Button |-> FALSE]
  /\ alert = "none"
  /\ pc = "main" /\ phase = "call" /\ ret = NOKEY
  /\ iScan = 0 /\ bScan = FALSE /\ report = <<>> /\ todo = {}
  /\ target = NoSys /\ early = FALSE
-----------------------------------------------------------------------------
(* The interface of the page.                                              *)

DtcItems(r) == {s \in Sys : r[s] > 0}

\* updateButtonStatue, for the statuses and results the page is about to have.
Offered(scan, clear, r) ==
  [b \in Button |->
    CASE b = "scan"   -> TRUE
      [] b = "erase"  -> DtcItems(r) # {}
      [] b = "report" -> /\ scan \in {"finish", "pause"} \/ clear = "finish"
                         /\ \E s \in Sys : r[s] \notin {NONE, NOTEXIST}]

SetScanStart ==
  /\ scanStatus' = "start"
  /\ clearStatus' = "none"
  /\ result' = IF clickStart /\ scanStatus # "pause" THEN [s \in Sys |-> NONE] ELSE result
  /\ clickStart' = FALSE
  /\ on' = [b \in Button |-> b = "scan"]
  /\ stopId' = TRUE
  /\ UNCHANGED grey

\* SetScanStatus(PAUSE or FINISH), with the result that was set just before it.
SetScanStop(status, r) ==
  /\ scanStatus' = status
  /\ result' = r
  /\ on' = Offered(status, clearStatus, r)
  /\ stopId' = FALSE
  /\ UNCHANGED <<clearStatus, clickStart, grey>>

SetClearStart ==
  /\ clearStatus' = "start"
  /\ on' = [b \in Button |-> FALSE]
  /\ UNCHANGED <<scanStatus, result, stopId, clickStart, grey>>

SetClearFinish(r) ==
  /\ clearStatus' = "finish"
  /\ result' = r
  /\ on' = Offered(scanStatus, "finish", r)
  /\ stopId' = FALSE
  /\ UNCHANGED <<scanStatus, clickStart, grey>>

\* Mutant: the buttons follow a result during a scan and an erasure as well.
SetItemResultAlways(s, n) ==
  /\ result' = [result EXCEPT ![s] = n]
  /\ on' = Offered(scanStatus, clearStatus, [result EXCEPT ![s] = n]) /\ stopId' = FALSE
  /\ UNCHANGED <<scanStatus, clearStatus, clickStart, grey>>

\* The buttons follow a result at once, except during a scan and an erasure.
SetItemResult(s, n) ==
  /\ result' = [result EXCEPT ![s] = n]
  /\ IF scanStatus # "start" /\ clearStatus # "start"
     THEN /\ on' = Offered(scanStatus, clearStatus, [result EXCEPT ![s] = n])
          /\ stopId' = FALSE
     ELSE UNCHANGED <<on, stopId>>
  /\ UNCHANGED <<scanStatus, clearStatus, clickStart, grey>>
-----------------------------------------------------------------------------
(* The application inside Show.                                            *)

ButtonAnswer(b) ==
  CASE b = "scan"   -> IF stopId THEN STOP ELSE START
    [] b = "erase"  -> ERASE
    [] b = "report" -> REPORT
    [] OTHER        -> NOKEY

\* The answer that waits is that of a button which has been disabled since.
Stale ==
  /\ lastClick # NoButton
  /\ answer = ButtonAnswer(lastClick)
  /\ ~on[lastClick] /\ ~(lastClick = "report" /\ grey)

\* A report button greyed by its own tap comes back with the next Show.
ShowCall ==
  /\ pc \in ShowPoint /\ phase = "call"
  /\ phase' = "wait"
  /\ answer' = IF Stale THEN NOKEY ELSE answer
  /\ on' = [on EXCEPT !["report"] = @ \/ grey]
  /\ grey' = FALSE
  /\ redraw' = TRUE
  /\ UNCHANGED <<car, scanStatus, clearStatus, result, stopId, clickStart, lastClick,
                 visible, drawn, alert, pc, ret, target, workVars>>

ShowReturn ==
  /\ phase = "wait"
  /\ phase' = "got"
  /\ ret' = answer
  /\ answer' = NOKEY
  /\ UNCHANGED <<car, pageVars, lastClick, screenVars, pc, target, workVars>>

\* The application is back from the Show at p; what it does next begins at q.
Back(p) ==
  /\ pc = p
  /\ phase = "got" /\ phase' = "call"
  /\ ret' = NOKEY

From(p, q) == Back(p) /\ pc' = q

\* What the application's steps never touch.
AppFrame == UNCHANGED <<car, answer, lastClick, screenVars>>
-----------------------------------------------------------------------------
(* The application: StartAppLayer's loop.                                  *)

LeavePage ==
  /\ From("main", "left") /\ ret = BACK
  /\ AppFrame /\ UNCHANGED <<pageVars, target, workVars>>

\* Mutant: a scan that had come to its end is gone on with.
StartScanOn ==
  /\ From("main", "scan1") /\ ret = START
  /\ bScan' = TRUE
  /\ SetScanStart
  /\ AppFrame /\ UNCHANGED <<target, iScan, report, todo, early>>

\* A scan that had come to its end begins anew, with an empty report.
StartScan ==
  /\ From("main", "scan1") /\ ret = START
  /\ bScan' = TRUE
  /\ IF iScan = N
     THEN iScan' = 0 /\ report' = <<>> /\ early' = FALSE
     ELSE UNCHANGED <<iScan, report, early>>
  /\ SetScanStart
  /\ AppFrame /\ UNCHANGED <<target, todo>>

\* A pause that arrives outside the scan.
StopLate ==
  /\ From("main", "main") /\ ret = STOP
  /\ SetScanStop("pause", result)
  /\ AppFrame /\ UNCHANGED <<target, workVars>>

\* Without the right to erase codes the page stays in DF_SYS_CLEAR_START.
EraseRefused ==
  /\ From("main", "main") /\ ret = ERASE
  /\ ~car.erases
  /\ SetClearStart
  /\ AppFrame /\ UNCHANGED <<target, workVars>>

EraseNothing ==
  /\ From("main", "main") /\ ret = ERASE
  /\ car.erases /\ DtcItems(result) = {}
  /\ SetClearFinish(result)
  /\ AppFrame /\ UNCHANGED <<target, workVars>>

StartErase ==
  /\ From("main", "erase1") /\ ret = ERASE
  /\ car.erases /\ DtcItems(result) # {}
  /\ SetClearStart
  /\ todo' = DtcItems(result)
  /\ AppFrame /\ UNCHANGED <<target, iScan, bScan, report, early>>

\* Another page is opened: the report, a popup of codes, a system.  vctItemsys is
\* indexed by the system's number; past its end the outcome is undefined.
ShowReport ==
  /\ From("main", "entering") /\ ret = REPORT
  /\ target' = NoSys
  /\ AppFrame /\ UNCHANGED <<pageVars, workVars>>

ViewCodes(s) ==
  /\ ret = Dtc(s)
  /\ \/ From("main", "entering")
     \/ s + 1 \notin DOMAIN report /\ From("main", "crashed")
  /\ target' = NoSys
  /\ AppFrame /\ UNCHANGED <<pageVars, workVars>>

EnterSystem(s) ==
  /\ From("main", "entering") /\ ret = Row(s)
  /\ target' = s
  /\ AppFrame /\ UNCHANGED <<pageVars, workVars>>

\* NOKEY, or a row that had no codes to view.
NoAnswer ==
  /\ From("main", "main") /\ ret = NOKEY
  /\ AppFrame /\ UNCHANGED <<pageVars, target, workVars>>

\* The user is done with the other page.
OtherPageLeft ==
  /\ pc = "away"
  /\ IF target = NoSys
     THEN pc' = "main" /\ UNCHANGED pageVars
     ELSE IF car.kind[target] = "absent"
          THEN pc' = "main" /\ SetItemResult(target, NOTEXIST)
          ELSE pc' = "refresh" /\ UNCHANGED pageVars
  /\ AppFrame /\ UNCHANGED <<phase, ret, target, workVars>>

\* vctItemsys[s].uDtsNums = n, and on to q if the application survives it.
WriteLine(s, n, q) ==
  \/ /\ s + 1 \in DOMAIN report
     /\ report' = [report EXCEPT ![s + 1] = [sys |-> @.sys, dtcs |-> n]]
     /\ pc' = q
  \/ /\ s + 1 \notin DOMAIN report
     /\ UNCHANGED report
     /\ pc' \in {q, "crashed"}

\* Back from a system: its result, and its line in the report.  Before the first
\* scan there is no line to change, and one is added.
SystemLeft ==
  /\ Back("refresh")
  /\ LET codes == car.kind[target] = "codes"
         n == IF ~codes THEN 0 ELSE IF car.reads /\ ~bScan THEN FOUND ELSE LEFT IN
       /\ SetItemResult(target, n)
       /\ IF bScan
          THEN WriteLine(target, n, "main") /\ UNCHANGED early
          ELSE /\ report' = Append(report, [sys |-> target, dtcs |-> n])
               /\ early' = TRUE
               /\ pc' = "main"
  /\ target' = NoSys
  /\ AppFrame /\ UNCHANGED <<iScan, bScan, todo>>
-----------------------------------------------------------------------------
(* The application: the scan of one system after the other.                *)

\* What this Show returns is thrown away.
ScanShown ==
  /\ From("scan1", "scan2")
  /\ AppFrame /\ UNCHANGED <<pageVars, target, workVars>>

\* Back ends the application from inside the scan: no history is saved.
ScanAbandoned ==
  /\ From("scan2", "dropped") /\ ret = BACK
  /\ AppFrame /\ UNCHANGED <<pageVars, target, workVars>>

Scanned == CASE car.kind[iScan] = "absent" -> NOTEXIST
             [] car.kind[iScan] = "codes" /\ car.reads -> FOUND
             [] OTHER -> 0

\* On to the next system, or to the end of the scan.
Advance ==
  /\ Back("scan2")
  /\ iScan' = iScan + 1
  /\ IF iScan' = N
     THEN pc' = "main" /\ SetScanStop("finish", [result EXCEPT ![iScan] = Scanned])
     ELSE pc' = "scan1" /\ SetItemResult(iScan, Scanned)

\* Mutant: the loop goes round for a missing system without counting it.
ScanAbsentStays ==
  /\ From("scan2", "scan1") /\ ret # BACK
  /\ car.kind[iScan] = "absent"
  /\ SetItemResult(iScan, Scanned)
  /\ AppFrame /\ UNCHANGED <<target, workVars>>

\* A missing system has no line in the report, and a pause asked for here is lost.
ScanAbsent ==
  /\ ret # BACK
  /\ Advance
  /\ car.kind[iScan] = "absent"
  /\ AppFrame /\ UNCHANGED <<target, bScan, report, todo, early>>

\* Mutant: the system the scan pauses at gets its line before the pause.
ScanPauseLate ==
  /\ From("scan2", "main") /\ ret = STOP
  /\ car.kind[iScan] # "absent"
  /\ SetScanStop("pause", [result EXCEPT ![iScan] = Scanned])
  /\ report' = Append(report, [sys |-> iScan, dtcs |-> Scanned])
  /\ AppFrame /\ UNCHANGED <<target, iScan, bScan, todo, early>>

\* Mutant: the scan goes on behind the system it paused at.
ScanPauseSkips ==
  /\ From("scan2", "main") /\ ret = STOP
  /\ car.kind[iScan] # "absent"
  /\ SetScanStop("pause", [result EXCEPT ![iScan] = Scanned])
  /\ iScan' = iScan + 1
  /\ AppFrame /\ UNCHANGED <<target, bScan, report, todo, early>>

\* The system the scan pauses at has a result but no line; it is scanned again later.
ScanPause ==
  /\ From("scan2", "main") /\ ret = STOP
  /\ car.kind[iScan] # "absent"
  /\ SetScanStop("pause", [result EXCEPT ![iScan] = Scanned])
  /\ AppFrame /\ UNCHANGED <<target, workVars>>

ScanSystem ==
  /\ ret \notin {BACK, STOP}
  /\ Advance
  /\ car.kind[iScan] # "absent"
  /\ report' = Append(report, [sys |-> iScan, dtcs |-> Scanned])
  /\ AppFrame /\ UNCHANGED <<target, bScan, todo, early>>
-----------------------------------------------------------------------------
(* The application: the erasure of one system after the other.             *)

EraseShown ==
  /\ From("erase1", "erase2")
  /\ AppFrame /\ UNCHANGED <<pageVars, target, workVars>>

\* Mutant: the end of the erasure is not reported to the page.
EraseSystemSilent(s) ==
  /\ Back("erase2")
  /\ s \in todo
  /\ todo' = todo \ {s}
  /\ WriteLine(s, LEFT, IF todo' = {} THEN "main" ELSE "erase1")
  /\ SetItemResult(s, LEFT)
  /\ AppFrame /\ UNCHANGED <<target, iScan, bScan, early>>

EraseSystem(s) ==
  /\ Back("erase2")
  /\ s \in todo
  /\ todo' = todo \ {s}
  /\ WriteLine(s, LEFT, IF todo' = {} THEN "main" ELSE "erase1")
  /\ IF todo' = {} THEN SetClearFinish([result EXCEPT ![s] = LEFT])
                   ELSE SetItemResult(s, LEFT)
  /\ AppFrame /\ UNCHANGED <<target, iScan, bScan, early>>
-----------------------------------------------------------------------------
(* The main thread.                                                        *)

Redraw ==
  /\ redraw /\ pc \notin Gone
  /\ redraw' = FALSE
  /\ visible' = TRUE
  /\ drawn' = on
  /\ UNCHANGED <<car, pageVars, answer, lastClick, alert, pc, phase, ret, target, workVars>>

\* The other page's block comes after this page's own on the main queue.
PageCovered ==
  /\ pc = "entering" /\ ~redraw
  /\ pc' = "away"
  /\ visible' = FALSE
  /\ UNCHANGED <<car, pageVars, answer, lastClick, redraw, drawn, alert, phase, ret,
                 target, workVars>>

\* Another page, or a question, takes all touches.
Touchable == visible /\ alert = "none" /\ pc \notin Gone

TouchFrame == UNCHANGED <<car, scanStatus, clearStatus, result, stopId, visible, redraw,
                          pc, phase, ret, target, workVars>>

TapScan ==
  /\ Touchable /\ drawn["scan"]
  /\ lastClick' = "scan"
  /\ answer' = ButtonAnswer("scan")
  /\ clickStart' = \/ clickStart
                    \/ scanStatus \in {"pause", "finish"}
                    \/ (scanStatus = "none" /\ ~stopId)
  /\ TouchFrame /\ UNCHANGED <<on, grey, drawn, alert>>

\* The products of the TopVCI kind ask first.
TapErase ==
  /\ Touchable /\ drawn["erase"]
  /\ lastClick' = "erase"
  /\ IF car.topvci THEN alert' = "erase" /\ UNCHANGED answer
                   ELSE answer' = ERASE /\ UNCHANGED alert
  /\ TouchFrame /\ UNCHANGED <<on, grey, clickStart, drawn>>

TapReport ==
  /\ Touchable /\ drawn["report"]
  /\ lastClick' = "report"
  /\ answer' = REPORT
  /\ on' = [on EXCEPT !["report"] = FALSE]
  /\ drawn' = [drawn EXCEPT !["report"] = FALSE]
  /\ grey' = TRUE
  /\ TouchFrame /\ UNCHANGED <<clickStart, alert>>

\* Bound: so many systems are entered before the first scan.
Enterable ==
  bScan \/ Len(report) + (IF pc = "main" /\ ret = NOKEY THEN 0 ELSE 1) < MaxEntered

TapRow(s) ==
  /\ Touchable
  /\ Enterable
  /\ scanStatus # "start" /\ clearStatus # "start"
  /\ answer' = IF ~car.topvci THEN Row(s) ELSE IF result[s] > 0 THEN Dtc(s) ELSE NOKEY
  /\ TouchFrame /\ UNCHANGED <<on, grey, clickStart, lastClick, drawn, alert>>

TapBack ==
  /\ Touchable
  /\ scanStatus # "start" /\ clearStatus # "start"
  /\ alert' = "back"
  /\ TouchFrame /\ UNCHANGED <<on, grey, clickStart, answer, lastClick, drawn>>

\* The answer to the question is acted upon without another look at the page.
ConfirmBack ==
  /\ alert = "back" /\ pc \notin Gone
  /\ alert' = "none"
  /\ answer' = BACK
  /\ TouchFrame /\ UNCHANGED <<on, grey, clickStart, lastClick, drawn>>

\* The erasure goes to the page the view controller shows by then, this one or not.
ConfirmErase ==
  /\ alert = "erase" /\ pc \notin Gone
  /\ alert' = "none"
  /\ answer' = IF visible THEN ERASE ELSE answer
  /\ TouchFrame /\ UNCHANGED <<on, grey, clickStart, lastClick, drawn>>

Dismiss ==
  /\ alert # "none" /\ pc \notin Gone
  /\ alert' = "none"
  /\ TouchFrame /\ UNCHANGED <<on, grey, clickStart, answer, lastClick, drawn>>
-----------------------------------------------------------------------------
App ==
  \/ ShowCall \/ ShowReturn
  \/ LeavePage \/ StartScan \/ StopLate
  \/ EraseRefused \/ EraseNothing \/ StartErase
  \/ ShowReport \/ NoAnswer
  \/ \E s \in Sys : ViewCodes(s) \/ EnterSystem(s) \/ EraseSystem(s)
  \/ SystemLeft
  \/ ScanShown \/ ScanAbandoned \/ ScanAbsent \/ ScanPause \/ ScanSystem
  \/ EraseShown

User ==
  \/ TapScan \/ TapErase \/ TapReport \/ TapBack
  \/ \E s \in Sys : TapRow(s)
  \/ ConfirmBack \/ ConfirmErase \/ Dismiss
  \/ OtherPageLeft

\* Once the application has left the page nothing more happens here.
Over == pc \in Gone /\ UNCHANGED vars

Next == App \/ Redraw \/ PageCovered \/ User \/ Over

Spec == Init /\ [][Next]_vars

\* Show returns (ArtiModel), delays pass, and the main thread runs its blocks; of the
\* user nothing is expected.
FairSpec == Spec /\ WF_vars(App) /\ WF_vars(Redraw) /\ WF_vars(PageCovered)
-----------------------------------------------------------------------------
(* The scan as rounds of examinations.                                     *)

\* The page's scan status is the round's, the application's place in it how far it is.
Rounds == INSTANCE ScanRound WITH
            round <- IF pc \in Gone THEN "over" ELSE scanStatus,
            examined <- iScan

\* The scan keeps the promise of ScanRound: in order, every system once, resumed where
\* it was paused, finished only when complete.
ImplementsRounds == Rounds!Spec
-----------------------------------------------------------------------------
\* A finished scan shows a result for every system, however often it was paused,
\* whatever was entered or erased meanwhile.
FinishShowsAll == scanStatus = "finish" => \A s \in Sys : result[s] # NONE

\* Erasing is offered only for codes on show and never while a scan or an erasure runs.
EraseOffered ==
  on["erase"] => /\ scanStatus # "start" /\ clearStatus # "start"
                 /\ DtcItems(result) # {}

AbsentLast == \A s, t \in Sys : s < t /\ car.kind[s] = "absent" => car.kind[t] = "absent"

\* After a complete scan the report has one line for each existing system, with the
\* number of codes the page shows -- if the missing systems come last and none was
\* entered before the first scan.
ReportMatchesPage ==
  AbsentLast /\ ~early /\ bScan /\ iScan = N =>
    LET found == {s \in Sys : car.kind[s] # "absent"} IN
    /\ DOMAIN report = {s + 1 : s \in found}
    /\ \A s \in found : report[s + 1] = [sys |-> s, dtcs |-> result[s]]

\* A scan comes to its end, or the page is left.
ScanEnds == scanStatus = "start" ~> scanStatus # "start" \/ pc \in Gone

\* So does an erasure, where the entry type allows it.
EraseEnds ==
  clearStatus = "start" /\ car.erases ~> clearStatus # "start" \/ pc \in Gone
=============================================================================
