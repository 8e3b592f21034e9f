---------------------------- MODULE SystemScanProofs ----------------------------
(* Proofs about SystemScan, for any number of systems and any vehicles.    *)
EXTENDS SystemScan, SequenceTheorems, TemporalInduction, TLAPS

\* The scan is on exactly while the application is in its loop, and only then is the
\* scan button a pause button.
Places ==
  /\ pc \in {"main", "entering", "away", "refresh", "erase1", "erase2", "left"}
       => scanStatus # "start"
  /\ stopId <=> scanStatus = "start"
  /\ scanStatus = "start" => clearStatus = "none"
  /\ scanStatus = "none" <=> ~bScan
  /\ scanStatus = "none" => iScan = 0
  /\ scanStatus = "finish" => iScan = N
  /\ phase # "call" => pc \in ShowPoint
  /\ pc = "refresh" => car.kind[target] # "absent"

\* A pause asked for late reaches the application before any other answer is served.
PausePending ==
  /\ answer = STOP => stopId \/ (pc = "main" /\ phase # "got" /\ clearStatus # "start")
  /\ answer = STOP \/ ret = STOP => bScan
  /\ ret = STOP => phase = "got" /\ (stopId \/ clearStatus # "start")

\* What the scan has passed has a result.
Passed == \A s \in Sys : s < iScan => result[s] # NONE

\* The report has a line for each existing system the scan has passed, with the
\* number of codes on show, unless lines are older than the scan or systems missing
\* before others.
Lines ==
  /\ ~bScan /\ ~early => report = <<>>
  /\ AbsentLast /\ ~early =>
       \A s \in Sys :
         /\ s + 1 \in DOMAIN report <=> s < iScan /\ car.kind[s] # "absent"
         /\ s + 1 \in DOMAIN report => report[s + 1] = [sys |-> s, dtcs |-> result[s]]
  /\ AbsentLast /\ ~early => Len(report) <= N

IInv == TypeOK /\ Places /\ EraseOffered /\ PausePending /\ Passed /\ Lines

\* The type invariant in three parts: the page model, the screen, the application.
PageTyped ==
  /\ scanStatus \in {"none", "start", "pause", "finish"}
  /\ clearStatus \in {"none", "start", "finish"}
  /\ result \in [Sys -> Result]
  /\ on \in [Button -> BOOLEAN]
  /\ stopId \in BOOLEAN /\ grey \in BOOLEAN /\ clickStart \in BOOLEAN

ScreenTyped ==
  /\ answer \in Answer
  /\ lastClick \in Button \cup {NoButton}
  /\ visible \in BOOLEAN /\ redraw \in BOOLEAN
  /\ drawn \in [Button -> BOOLEAN]
  /\ alert \in {"none", "back", "erase"}

WorkTyped ==
  /\ car \in Cars
  /\ pc \in ShowPoint \cup Gone \cup {"entering", "away"}
  /\ phase \in {"call", "wait", "got"}
  /\ ret \in Answer
  /\ iScan \in 0 .. N
  /\ bScan \in BOOLEAN
  /\ report \in Seq([sys : Sys, dtcs : {0, LEFT, FOUND}])
  /\ todo \subseteq Sys
  /\ target \in Sys \cup {NoSys}
  /\ early \in BOOLEAN
  /\ pc \in {"scan1", "scan2"} => scanStatus = "start" /\ iScan < N
  /\ pc \in {"erase1", "erase2"} => todo # {}
  /\ pc = "refresh" => target \in Sys
-----------------------------------------------------------------------------
(* Operators.                                                              *)

LEMMA TypeParts == TypeOK <=> PageTyped /\ ScreenTyped /\ WorkTyped
BY DEF TypeOK, PageTyped, ScreenTyped, WorkTyped

LEMMA Counted == N \in Nat /\ N > 0
BY ScanAssumption

\* No other answer looks like a pause.
LEMMA Answers ==
  /\ {NOKEY, BACK, START, STOP, ERASE, REPORT} \subseteq Answer
  /\ STOP \notin {NOKEY, BACK, START, ERASE, REPORT}
  /\ \A s \in Sys : Row(s) \in Answer /\ Dtc(s) \in Answer /\ STOP # Row(s) /\ STOP # Dtc(s)
BY DEF Answer, NOKEY, BACK, START, STOP, ERASE, REPORT, Row, Dtc, Key

\* A button answers with a pause only as long as the scan button is one.
LEMMA ButtonAnswers ==
  ASSUME NEW b \in Button
  PROVE  ButtonAnswer(b) \in Answer /\ (ButtonAnswer(b) = STOP => stopId)
BY Answers DEF ButtonAnswer, Button

\* Scanning a system gives a result.
LEMMA ScannedResult ==
  Scanned \in {NOTEXIST, 0, FOUND} /\ (car.kind[iScan] # "absent" => Scanned \in {0, FOUND})
BY DEF Scanned

LEMMA Results == {NONE, NOTEXIST, 0, LEFT, FOUND} \subseteq Result
BY DEF Result

\* Where the scan is.
LEMMA ScanPlace ==
  ASSUME WorkTyped, pc \in {"scan1", "scan2"}
  PROVE  iScan \in Sys
BY Counted DEF WorkTyped, Sys

\* What the page offers.
LEMMA OfferedButtons ==
  ASSUME NEW scan, NEW clear, NEW r
  PROVE  /\ Offered(scan, clear, r) \in [Button -> BOOLEAN]
         /\ Offered(scan, clear, r)["erase"] => DtcItems(r) # {}
BY DEF Offered, Button

\* Setting a result keeps the page's types.
LEMMA ItemTyped ==
  ASSUME PageTyped, NEW s \in Sys, NEW n \in Result, SetItemResult(s, n)
  PROVE  /\ PageTyped'
         /\ result' \in [Sys -> Result] /\ result'[s] = n
         /\ \A t \in Sys \ {s} : result'[t] = result[t]
<1>1. on' \in [Button -> BOOLEAN] /\ stopId' \in BOOLEAN
  <2>1. CASE scanStatus # "start" /\ clearStatus # "start"
    BY <2>1, OfferedButtons DEF SetItemResult
  <2>2. CASE ~(scanStatus # "start" /\ clearStatus # "start")
    BY <2>2 DEF PageTyped, SetItemResult
  <2> QED BY <2>1, <2>2
<1> QED BY <1>1 DEF PageTyped, SetItemResult

LEMMA NoLines == <<>> \in Seq([sys : Sys, dtcs : {0, LEFT, FOUND}])
BY EmptySeq

\* Writing a line keeps the report's type.
LEMMA LineTyped ==
  ASSUME report \in Seq([sys : Sys, dtcs : {0, LEFT, FOUND}]), NEW s \in Sys,
         NEW n \in {0, LEFT, FOUND}, NEW q, WriteLine(s, n, q)
  PROVE  report' \in Seq([sys : Sys, dtcs : {0, LEFT, FOUND}]) /\ pc' \in {q, "crashed"}
<1>1. CASE s + 1 \in DOMAIN report
  <2>1. report[s + 1] \in [sys : Sys, dtcs : {0, LEFT, FOUND}]
    BY <1>1, ElementOfSeq, LenProperties
  <2>2. [sys |-> report[s + 1].sys, dtcs |-> n] \in [sys : Sys, dtcs : {0, LEFT, FOUND}]
    BY <2>1
  <2> QED BY <1>1, <2>2, ExceptSeq, LenProperties DEF WriteLine
<1>2. CASE s + 1 \notin DOMAIN report
  BY <1>2 DEF WriteLine
<1> QED BY <1>1, <1>2

USE DEF AppFrame, From, Back, TouchFrame, pageVars, screenVars, workVars
-----------------------------------------------------------------------------
(* The invariant holds initially, and every action keeps each part of it.  *)

LEMMA Initial == Init => IInv
<1> SUFFICES ASSUME Init PROVE IInv
  OBVIOUS
<1>1. PageTyped
  BY DEF Init, PageTyped, Result, Button
<1>2. ScreenTyped
  BY Answers DEF Init, ScreenTyped, Button
<1>3. WorkTyped
  <2>1. iScan \in 0 .. N /\ report \in Seq([sys : Sys, dtcs : {0, LEFT, FOUND}])
    BY Counted, NoLines DEF Init
  <2> QED
    BY <2>1, Answers DEF Init, WorkTyped, ShowPoint, NoSys
<1>4. Places /\ EraseOffered /\ PausePending
  BY Answers, <1>3 DEF Init, Places, EraseOffered, PausePending, ShowPoint, Button
<1>5. Passed /\ Lines
  BY Counted DEF Init, Passed, Lines, Sys
<1> QED BY <1>1, <1>2, <1>3, <1>4, <1>5, TypeParts DEF IInv

\* The type invariant of the page model.
LEMMA TypedPage ==
  ASSUME PageTyped, WorkTyped, [Next]_vars
  PROVE  PageTyped'
<1>1. CASE ShowCall
  BY <1>1
     DEF ShowCall, Button, PageTyped
<1>2. CASE StartScan
  BY <1>2, Results
     DEF StartScan, SetScanStart, Button, PageTyped
<1>3. CASE StopLate
  BY <1>3, OfferedButtons
     DEF StopLate, SetScanStop, PageTyped
<1>4. CASE EraseRefused
  BY <1>4
     DEF EraseRefused, SetClearStart, Button, PageTyped
<1>5. CASE EraseNothing
  BY <1>5, OfferedButtons
     DEF EraseNothing, SetClearFinish, PageTyped
<1>6. CASE StartErase
  BY <1>6
     DEF StartErase, SetClearStart, Button, PageTyped
<1>7. ASSUME NEW s \in Sys, EraseSystem(s) PROVE PageTyped'
  <2>1. CASE SetItemResult(s, LEFT)
    BY <2>1, <1>7, ItemTyped, Results
  <2>2. CASE SetClearFinish([result EXCEPT ![s] = LEFT])
    BY <2>2, <1>7, OfferedButtons, Results DEF SetClearFinish, PageTyped
  <2> QED BY <1>7, <2>1, <2>2 DEF EraseSystem
<1>8. CASE SystemLeft
  BY <1>8, ItemTyped, Results
     DEF SystemLeft, WorkTyped, PageTyped
<1>9. CASE ScanAbsent
  <2>1. iScan \in Sys /\ Scanned \in Result
    BY <1>9, ScanPlace, ScannedResult, Results DEF ScanAbsent, Advance
  <2>2. CASE SetItemResult(iScan, Scanned)
    BY <2>1, <2>2, ItemTyped
  <2>3. CASE SetScanStop("finish", [result EXCEPT ![iScan] = Scanned])
    BY <2>1, <2>3, OfferedButtons DEF SetScanStop, PageTyped
  <2> QED BY <1>9, <2>2, <2>3 DEF ScanAbsent, Advance
<1>10. CASE ScanPause
  BY <1>10, ScannedResult, OfferedButtons, ScanPlace, Results
     DEF ScanPause, SetScanStop, PageTyped
<1>11. CASE ScanSystem
  <2>1. iScan \in Sys /\ Scanned \in Result
    BY <1>11, ScanPlace, ScannedResult, Results DEF ScanSystem, Advance
  <2>2. CASE SetItemResult(iScan, Scanned)
    BY <2>1, <2>2, ItemTyped
  <2>3. CASE SetScanStop("finish", [result EXCEPT ![iScan] = Scanned])
    BY <2>1, <2>3, OfferedButtons DEF SetScanStop, PageTyped
  <2> QED BY <1>11, <2>2, <2>3 DEF ScanSystem, Advance
<1>12. CASE TapScan
  BY <1>12
     DEF TapScan, Button, PageTyped
<1>13. CASE TapReport
  BY <1>13
     DEF TapReport, Button, PageTyped
<1>14. CASE OtherPageLeft
  BY <1>14, ItemTyped, Results
     DEF OtherPageLeft, WorkTyped, PageTyped
<1>15. CASE
      \/ UNCHANGED vars
      \/ ShowReturn
      \/ LeavePage
      \/ ShowReport
      \/ NoAnswer
      \/ \E s \in Sys : ViewCodes(s)
      \/ \E s \in Sys : EnterSystem(s)
      \/ ScanShown
      \/ ScanAbandoned
      \/ EraseShown
      \/ Redraw
      \/ PageCovered
      \/ TapErase
      \/ TapBack
      \/ \E s \in Sys : TapRow(s)
      \/ ConfirmBack
      \/ ConfirmErase
      \/ Dismiss
  <2>1. UNCHANGED <<pageVars>>
    BY <1>15
       DEF vars, ShowReturn, LeavePage, ShowReport, NoAnswer, ViewCodes, EnterSystem,
             ScanShown, ScanAbandoned, EraseShown, Redraw, PageCovered, TapErase, TapBack,
             TapRow, ConfirmBack, ConfirmErase, Dismiss, pageVars
  <2> QED
    BY <2>1
       DEF PageTyped
<1> QED
  BY <1>1, <1>2, <1>3, <1>4, <1>5, <1>6, <1>7, <1>8, <1>9, <1>10, <1>11, <1>12, <1>13,
       <1>14, <1>15
     DEF Next, App, User, Over

\* The type invariant of the screen.
LEMMA TypedScreen ==
  ASSUME PageTyped, ScreenTyped, [Next]_vars
  PROVE  ScreenTyped'
<1>1. CASE ShowCall
  BY <1>1, Answers
     DEF ShowCall, Button, ScreenTyped
<1>2. CASE ShowReturn
  BY <1>2, Answers
     DEF ShowReturn, ScreenTyped
<1>3. CASE Redraw
  BY <1>3
     DEF Redraw, PageTyped, ScreenTyped
<1>4. CASE PageCovered
  BY <1>4
     DEF PageCovered, ScreenTyped
<1>5. CASE TapScan
  BY <1>5, Answers, ButtonAnswers
     DEF TapScan, Button, ScreenTyped
<1>6. CASE TapErase
  BY <1>6, Answers, ButtonAnswers
     DEF TapErase, Button, ScreenTyped
<1>7. CASE TapReport
  BY <1>7, Answers, ButtonAnswers
     DEF TapReport, Button, ScreenTyped
<1>8. CASE TapBack
  BY <1>8
     DEF TapBack, ScreenTyped
<1>9. ASSUME NEW s \in Sys, TapRow(s) PROVE ScreenTyped'
  BY <1>9, Answers
     DEF TapRow, ScreenTyped
<1>10. CASE ConfirmBack
  BY <1>10, Answers, ButtonAnswers
     DEF ConfirmBack, Button, ScreenTyped
<1>11. CASE ConfirmErase
  BY <1>11, Answers, ButtonAnswers
     DEF ConfirmErase, Button, ScreenTyped
<1>12. CASE Dismiss
  BY <1>12
     DEF Dismiss, ScreenTyped
<1>13. CASE
      \/ UNCHANGED vars
      \/ LeavePage
      \/ StartScan
      \/ StopLate
      \/ EraseRefused
      \/ EraseNothing
      \/ StartErase
      \/ ShowReport
      \/ NoAnswer
      \/ \E s \in Sys : ViewCodes(s)
      \/ \E s \in Sys : EnterSystem(s)
      \/ \E s \in Sys : EraseSystem(s)
      \/ SystemLeft
      \/ ScanShown
      \/ ScanAbandoned
      \/ ScanAbsent
      \/ ScanPause
      \/ ScanSystem
      \/ EraseShown
      \/ OtherPageLeft
  <2>1. UNCHANGED <<answer, lastClick, screenVars>>
    BY <1>13
       DEF vars, LeavePage, StartScan, StopLate, EraseRefused, EraseNothing, StartErase,
             ShowReport, NoAnswer, ViewCodes, EnterSystem, EraseSystem, SystemLeft,
             ScanShown, ScanAbandoned, ScanAbsent, ScanPause, ScanSystem, EraseShown,
             OtherPageLeft, screenVars
  <2> QED
    BY <2>1
       DEF ScreenTyped
<1> QED
  BY <1>1, <1>2, <1>3, <1>4, <1>5, <1>6, <1>7, <1>8, <1>9, <1>10, <1>11, <1>12, <1>13
     DEF Next, App, User, Over

\* The type invariant of the application.
LEMMA TypedWork ==
  ASSUME PageTyped, ScreenTyped, WorkTyped, [Next]_vars
  PROVE  WorkTyped'
<1>1. CASE ShowCall
  BY <1>1, Answers
     DEF ShowCall, ShowPoint, Gone, ScreenTyped, WorkTyped
<1>2. CASE ShowReturn
  BY <1>2, Answers
     DEF ShowReturn, ShowPoint, Gone, ScreenTyped, WorkTyped
<1>3. CASE LeavePage
  BY <1>3, Answers
     DEF LeavePage, ShowPoint, Gone, ScreenTyped, WorkTyped
<1>4. CASE StartScan
  <2>1. CASE iScan = N
    <3>1. report' \in Seq([sys : Sys, dtcs : {0, LEFT, FOUND}]) /\ iScan' \in 0 .. N /\ iScan' < N
      BY <1>4, <2>1, Counted, NoLines DEF StartScan
    <3> QED
      BY <1>4, <2>1, <3>1, Answers DEF StartScan, SetScanStart, WorkTyped, ShowPoint
  <2>2. CASE iScan # N
    <3>1. iScan' \in 0 .. N /\ iScan' < N
      BY <1>4, <2>2, Counted DEF StartScan, WorkTyped
    <3> QED
      BY <1>4, <2>2, <3>1, Answers DEF StartScan, SetScanStart, WorkTyped, ShowPoint
  <2> QED BY <2>1, <2>2
<1>5. CASE StopLate
  BY <1>5, Answers
     DEF StopLate, ShowPoint, Gone, SetScanStop, WorkTyped
<1>6. CASE EraseRefused
  BY <1>6, Answers
     DEF EraseRefused, ShowPoint, Gone, SetClearStart, DtcItems, WorkTyped
<1>7. CASE EraseNothing
  BY <1>7, Answers
     DEF EraseNothing, ShowPoint, Gone, SetClearFinish, WorkTyped
<1>8. CASE StartErase
  BY <1>8, Answers
     DEF StartErase, ShowPoint, Gone, SetClearStart, DtcItems, WorkTyped
<1>9. CASE ShowReport
  BY <1>9, Answers
     DEF ShowReport, ShowPoint, Gone, NoSys, WorkTyped
<1>10. CASE NoAnswer
  BY <1>10, Answers
     DEF NoAnswer, ShowPoint, Gone, ScreenTyped, WorkTyped
<1>11. ASSUME NEW s \in Sys, ViewCodes(s) PROVE WorkTyped'
  BY <1>11, Answers
     DEF ViewCodes, ShowPoint, Gone, NoSys, WorkTyped
<1>12. ASSUME NEW s \in Sys, EnterSystem(s) PROVE WorkTyped'
  BY <1>12, Answers
     DEF EnterSystem, ShowPoint, Gone, WorkTyped
<1>13. ASSUME NEW s \in Sys, EraseSystem(s) PROVE WorkTyped'
  <2>1. PICK q \in {"main", "erase1"} : WriteLine(s, LEFT, q) /\ (q = "erase1" => todo' # {})
    BY <1>13 DEF EraseSystem
  <2>2. report' \in Seq([sys : Sys, dtcs : {0, LEFT, FOUND}]) /\ pc' \in {q, "crashed"}
    BY <2>1, LineTyped DEF WorkTyped
  <2> QED
    BY <1>13, <2>1, <2>2, Answers DEF EraseSystem, WorkTyped, ShowPoint, Gone
<1>14. CASE SystemLeft
  <2>1. PICK n \in {0, LEFT, FOUND} :
           IF bScan THEN WriteLine(target, n, "main") /\ UNCHANGED early
           ELSE /\ report' = Append(report, [sys |-> target, dtcs |-> n])
                /\ early' = TRUE
                /\ pc' = "main"
    BY <1>14 DEF SystemLeft
  <2>2. target \in Sys
    BY <1>14 DEF SystemLeft, WorkTyped
  <2>3. report' \in Seq([sys : Sys, dtcs : {0, LEFT, FOUND}]) /\ pc' \in {"main", "crashed"}
    <3>1. CASE bScan
      BY <2>1, <2>2, <3>1, LineTyped DEF WorkTyped
    <3>2. CASE ~bScan
      <4>1. [sys |-> target, dtcs |-> n] \in [sys : Sys, dtcs : {0, LEFT, FOUND}]
        BY <2>2
      <4>2. Append(report, [sys |-> target, dtcs |-> n])
              \in Seq([sys : Sys, dtcs : {0, LEFT, FOUND}])
        BY <4>1, AppendProperties DEF WorkTyped
      <4> QED BY <2>1, <3>2, <4>2
    <3> QED BY <3>1, <3>2
  <2>4. early' \in BOOLEAN
    BY <2>1 DEF WorkTyped
  <2> QED
    BY <1>14, <2>3, <2>4, Answers DEF SystemLeft, WorkTyped, ShowPoint, Gone
<1>15. CASE ScanShown
  BY <1>15, Answers
     DEF ScanShown, ShowPoint, Gone, ScreenTyped, WorkTyped
<1>16. CASE ScanAbandoned
  BY <1>16, Answers
     DEF ScanAbandoned, ShowPoint, Gone, ScreenTyped, WorkTyped
<1>17. CASE ScanAbsent
  BY <1>17, Answers, Counted
     DEF ScanAbsent, ShowPoint, Gone, Advance, SetScanStop, SetItemResult, WorkTyped
<1>18. CASE ScanPause
  BY <1>18, Answers
     DEF ScanPause, ShowPoint, Gone, SetScanStop, WorkTyped
<1>19. CASE ScanSystem
  BY <1>19, Answers, Counted, ScannedResult
     DEF ScanSystem, ShowPoint, Gone, Advance, SetScanStop, SetItemResult, Sys, WorkTyped
<1>20. CASE EraseShown
  BY <1>20, Answers
     DEF EraseShown, ShowPoint, Gone, ScreenTyped, WorkTyped
<1>21. CASE PageCovered
  BY <1>21, Answers
     DEF PageCovered, ShowPoint, Gone, ScreenTyped, WorkTyped
<1>22. CASE OtherPageLeft
  BY <1>22
     DEF OtherPageLeft, ShowPoint, Gone, SetItemResult, NoSys, WorkTyped
<1>23. CASE
      \/ UNCHANGED vars
      \/ Redraw
      \/ TapScan
      \/ TapErase
      \/ TapReport
      \/ TapBack
      \/ \E s \in Sys : TapRow(s)
      \/ ConfirmBack
      \/ ConfirmErase
      \/ Dismiss
  <2>1. UNCHANGED <<car, scanStatus, pc, phase, ret, target, workVars>>
    BY <1>23
       DEF vars, Redraw, TapScan, TapErase, TapReport, TapBack, TapRow, ConfirmBack,
             ConfirmErase, Dismiss
  <2> QED
    BY <2>1
       DEF WorkTyped
<1> QED
  BY <1>1, <1>2, <1>3, <1>4, <1>5, <1>6, <1>7, <1>8, <1>9, <1>10, <1>11, <1>12, <1>13,
       <1>14, <1>15, <1>16, <1>17, <1>18, <1>19, <1>20, <1>21, <1>22, <1>23
     DEF Next, App, User, Over

\* The page's status and the application's place.
LEMMA PlacesKept ==
  ASSUME PageTyped, WorkTyped, Places, PausePending, [Next]_vars
  PROVE  Places'
<1>1. CASE ShowCall
  BY <1>1
     DEF ShowCall, ShowPoint, Places
<1>2. CASE ShowReturn
  BY <1>2
     DEF ShowReturn, ShowPoint, Places
<1>3. CASE LeavePage
  BY <1>3
     DEF LeavePage, ShowPoint, Places
<1>4. CASE StartScan
  BY <1>4, Counted
     DEF StartScan, SetScanStart, ShowPoint, WorkTyped, Places
<1>5. CASE StopLate
  BY <1>5
     DEF StopLate, PausePending, SetScanStop, ShowPoint, Places
<1>6. CASE EraseRefused
  BY <1>6
     DEF EraseRefused, SetClearStart, ShowPoint, Places
<1>7. CASE EraseNothing
  BY <1>7
     DEF EraseNothing, SetClearFinish, ShowPoint, Places
<1>8. CASE StartErase
  BY <1>8
     DEF StartErase, SetClearStart, ShowPoint, Places
<1>9. CASE ShowReport
  BY <1>9
     DEF ShowReport, ShowPoint, Places
<1>10. CASE NoAnswer
  BY <1>10
     DEF NoAnswer, ShowPoint, Places
<1>11. ASSUME NEW s \in Sys, ViewCodes(s) PROVE Places'
  BY <1>11
     DEF ViewCodes, ShowPoint, Places
<1>12. ASSUME NEW s \in Sys, EnterSystem(s) PROVE Places'
  BY <1>12
     DEF EnterSystem, ShowPoint, Places
<1>13. ASSUME NEW s \in Sys, EraseSystem(s) PROVE Places'
  <2>1. UNCHANGED <<car, scanStatus, iScan, bScan, target>> /\ phase' = "call"
        /\ (stopId' = stopId \/ stopId' = FALSE)
        /\ (clearStatus' = clearStatus \/ clearStatus' = "finish")
    BY <1>13 DEF EraseSystem, SetClearFinish, SetItemResult
  <2>2. pc' \in {"main", "erase1", "crashed"}
    BY <1>13 DEF EraseSystem, WriteLine
  <2> QED BY <1>13, <2>1, <2>2 DEF EraseSystem, Places
<1>14. CASE SystemLeft
  <2>1. UNCHANGED <<car, scanStatus, clearStatus, iScan, bScan>> /\ phase' = "call"
        /\ (stopId' = stopId \/ stopId' = FALSE)
    BY <1>14 DEF SystemLeft, SetItemResult
  <2>2. pc' \in {"main", "crashed"}
    BY <1>14 DEF SystemLeft, WriteLine
  <2> QED BY <1>14, <2>1, <2>2 DEF SystemLeft, Places
<1>15. CASE ScanShown
  BY <1>15
     DEF ScanShown, ShowPoint, Places
<1>16. CASE ScanAbandoned
  BY <1>16
     DEF ScanAbandoned, ShowPoint, Places
<1>17. CASE ScanAbsent
  BY <1>17, Counted
     DEF ScanAbsent, Advance, SetScanStop, SetItemResult, WorkTyped, ShowPoint, Places
<1>18. CASE ScanPause
  BY <1>18
     DEF ScanPause, SetScanStop, WorkTyped, ShowPoint, Places
<1>19. CASE ScanSystem
  BY <1>19, Counted
     DEF ScanSystem, Advance, SetScanStop, SetItemResult, WorkTyped, ShowPoint, Places
<1>20. CASE EraseShown
  BY <1>20
     DEF EraseShown, ShowPoint, Places
<1>21. CASE PageCovered
  BY <1>21
     DEF PageCovered, ShowPoint, Places
<1>22. CASE OtherPageLeft
  BY <1>22
     DEF OtherPageLeft, SetItemResult, ShowPoint, Places
<1>23. CASE
      \/ UNCHANGED vars
      \/ Redraw
      \/ TapScan
      \/ TapErase
      \/ TapReport
      \/ TapBack
      \/ \E s \in Sys : TapRow(s)
      \/ ConfirmBack
      \/ ConfirmErase
      \/ Dismiss
  <2>1. UNCHANGED <<car, scanStatus, clearStatus, stopId, pc, phase, target, iScan, bScan>>
    BY <1>23
       DEF vars, Redraw, TapScan, TapErase, TapReport, TapBack, TapRow, ConfirmBack,
             ConfirmErase, Dismiss
  <2> QED
    BY <2>1
       DEF Places
<1> QED
  BY <1>1, <1>2, <1>3, <1>4, <1>5, <1>6, <1>7, <1>8, <1>9, <1>10, <1>11, <1>12, <1>13,
       <1>14, <1>15, <1>16, <1>17, <1>18, <1>19, <1>20, <1>21, <1>22, <1>23
     DEF Next, App, User, Over

\* What makes the erase button safe to offer.
LEMMA EraseOfferedKept ==
  ASSUME PageTyped, WorkTyped, Places, PausePending, EraseOffered, [Next]_vars
  PROVE  EraseOffered'
<1>1. CASE ShowCall
  BY <1>1
     DEF ShowCall, PageTyped, Button, EraseOffered
<1>2. CASE StartScan
  BY <1>2
     DEF StartScan, SetScanStart, Button, EraseOffered
<1>3. CASE StopLate
  BY <1>3, OfferedButtons
     DEF StopLate, SetScanStop, Places, PausePending, EraseOffered
<1>4. CASE EraseRefused
  BY <1>4
     DEF EraseRefused, SetClearStart, Button, EraseOffered
<1>5. CASE EraseNothing
  BY <1>5, OfferedButtons
     DEF EraseNothing, SetClearFinish, Places, EraseOffered
<1>6. CASE StartErase
  BY <1>6
     DEF StartErase, SetClearStart, Button, EraseOffered
<1>7. ASSUME NEW s \in Sys, EraseSystem(s) PROVE EraseOffered'
  <2>1. CASE SetItemResult(s, LEFT)
    BY <2>1, OfferedButtons DEF SetItemResult, EraseOffered
  <2>2. CASE SetClearFinish([result EXCEPT ![s] = LEFT])
    BY <1>7, <2>2, OfferedButtons DEF EraseSystem, SetClearFinish, EraseOffered, Places
  <2> QED BY <1>7, <2>1, <2>2 DEF EraseSystem
<1>8. CASE SystemLeft
  BY <1>8, OfferedButtons
     DEF SystemLeft, SetItemResult, EraseOffered
<1>9. CASE ScanAbsent
  <2>1. scanStatus = "start"
    BY <1>9 DEF ScanAbsent, Advance, WorkTyped
  <2>2. CASE SetItemResult(iScan, Scanned)
    BY <2>1, <2>2 DEF SetItemResult, EraseOffered
  <2>3. CASE SetScanStop("finish", [result EXCEPT ![iScan] = Scanned])
    BY <2>1, <2>3, OfferedButtons DEF SetScanStop, EraseOffered, Places
  <2> QED BY <1>9, <2>2, <2>3 DEF ScanAbsent, Advance
<1>10. CASE ScanPause
  BY <1>10, OfferedButtons
     DEF ScanPause, SetScanStop, Places, WorkTyped, EraseOffered
<1>11. CASE ScanSystem
  <2>1. scanStatus = "start"
    BY <1>11 DEF ScanSystem, Advance, WorkTyped
  <2>2. CASE SetItemResult(iScan, Scanned)
    BY <2>1, <2>2 DEF SetItemResult, EraseOffered
  <2>3. CASE SetScanStop("finish", [result EXCEPT ![iScan] = Scanned])
    BY <2>1, <2>3, OfferedButtons DEF SetScanStop, EraseOffered, Places
  <2> QED BY <1>11, <2>2, <2>3 DEF ScanSystem, Advance
<1>12. CASE TapReport
  BY <1>12
     DEF TapReport, PageTyped, Button, EraseOffered
<1>13. CASE OtherPageLeft
  BY <1>13, OfferedButtons
     DEF OtherPageLeft, SetItemResult, EraseOffered
<1>14. CASE
      \/ UNCHANGED vars
      \/ ShowReturn
      \/ LeavePage
      \/ ShowReport
      \/ NoAnswer
      \/ \E s \in Sys : ViewCodes(s)
      \/ \E s \in Sys : EnterSystem(s)
      \/ ScanShown
      \/ ScanAbandoned
      \/ EraseShown
      \/ Redraw
      \/ PageCovered
      \/ TapScan
      \/ TapErase
      \/ TapBack
      \/ \E s \in Sys : TapRow(s)
      \/ ConfirmBack
      \/ ConfirmErase
      \/ Dismiss
  <2>1. UNCHANGED <<scanStatus, clearStatus, result, on>>
    BY <1>14
       DEF vars, ShowReturn, LeavePage, ShowReport, NoAnswer, ViewCodes, EnterSystem,
             ScanShown, ScanAbandoned, EraseShown, Redraw, PageCovered, TapScan, TapErase,
             TapBack, TapRow, ConfirmBack, ConfirmErase, Dismiss
  <2> QED
    BY <2>1
       DEF EraseOffered
<1> QED
  BY <1>1, <1>2, <1>3, <1>4, <1>5, <1>6, <1>7, <1>8, <1>9, <1>10, <1>11, <1>12, <1>13,
       <1>14
     DEF Next, App, User, Over

\* A pause on its way.
LEMMA PausePendingKept ==
  ASSUME PageTyped, WorkTyped, Places, PausePending, [Next]_vars
  PROVE  PausePending'
<1>1. CASE ShowCall
  BY <1>1, Answers
     DEF ShowCall, Places, PausePending
<1>2. CASE ShowReturn
  BY <1>2, Answers
     DEF ShowReturn, Places, PausePending
<1>3. CASE LeavePage
  BY <1>3, Answers
     DEF LeavePage, Places, PausePending
<1>4. CASE StartScan
  BY <1>4, Answers
     DEF StartScan, SetScanStart, Places, PausePending
<1>5. CASE StopLate
  BY <1>5, Answers
     DEF StopLate, SetScanStop, Places, WorkTyped, PausePending
<1>6. CASE EraseRefused
  BY <1>6, Answers
     DEF EraseRefused, SetClearStart, Places, PausePending
<1>7. CASE EraseNothing
  BY <1>7, Answers
     DEF EraseNothing, SetClearFinish, Places, PausePending
<1>8. CASE StartErase
  BY <1>8, Answers
     DEF StartErase, SetClearStart, Places, PausePending
<1>9. CASE ShowReport
  BY <1>9, Answers
     DEF ShowReport, Places, PausePending
<1>10. CASE NoAnswer
  BY <1>10, Answers
     DEF NoAnswer, Places, PausePending
<1>11. ASSUME NEW s \in Sys, ViewCodes(s) PROVE PausePending'
  BY <1>11, Answers
     DEF ViewCodes, Places, PausePending
<1>12. ASSUME NEW s \in Sys, EnterSystem(s) PROVE PausePending'
  BY <1>12, Answers
     DEF EnterSystem, Places, PausePending
<1>13. ASSUME NEW s \in Sys, EraseSystem(s) PROVE PausePending'
  <2>1. answer # STOP
    BY <1>13 DEF EraseSystem, Places, PausePending
  <2>2. answer' = answer /\ ret' = NOKEY
    BY <1>13 DEF EraseSystem
  <2> QED BY <2>1, <2>2, Answers DEF PausePending
<1>14. CASE SystemLeft
  <2>1. answer # STOP
    BY <1>14 DEF SystemLeft, Places, PausePending
  <2>2. answer' = answer /\ ret' = NOKEY
    BY <1>14 DEF SystemLeft
  <2> QED BY <2>1, <2>2, Answers DEF PausePending
<1>15. CASE ScanShown
  BY <1>15, Answers
     DEF ScanShown, Places, PausePending
<1>16. CASE ScanAbandoned
  BY <1>16, Answers
     DEF ScanAbandoned, Places, PausePending
<1>17. CASE ScanAbsent
  BY <1>17, Answers
     DEF ScanAbsent, Advance, SetItemResult, SetScanStop, Places, WorkTyped, PausePending
<1>18. CASE ScanPause
  BY <1>18, Answers
     DEF ScanPause, SetScanStop, Places, WorkTyped, PausePending
<1>19. CASE ScanSystem
  BY <1>19, Answers
     DEF ScanSystem, Advance, SetItemResult, SetScanStop, Places, WorkTyped, PausePending
<1>20. CASE EraseShown
  BY <1>20, Answers
     DEF EraseShown, Places, PausePending
<1>21. CASE PageCovered
  BY <1>21, Answers
     DEF PageCovered, Places, PausePending
<1>22. CASE TapScan
  BY <1>22, Answers, ButtonAnswers
     DEF TapScan, Places, Button, PausePending
<1>23. CASE TapErase
  BY <1>23, Answers
     DEF TapErase, Places, PausePending
<1>24. CASE TapReport
  BY <1>24, Answers
     DEF TapReport, Places, PausePending
<1>25. CASE TapBack
  BY <1>25, Answers
     DEF TapBack, Places, PausePending
<1>26. ASSUME NEW s \in Sys, TapRow(s) PROVE PausePending'
  BY <1>26, Answers
     DEF TapRow, Places, PausePending
<1>27. CASE ConfirmBack
  BY <1>27, Answers
     DEF ConfirmBack, Places, PausePending
<1>28. CASE ConfirmErase
  BY <1>28, Answers
     DEF ConfirmErase, Places, PausePending
<1>29. CASE Dismiss
  BY <1>29, Answers
     DEF Dismiss, Places, PausePending
<1>30. CASE OtherPageLeft
  BY <1>30
     DEF OtherPageLeft, SetItemResult, Places, PausePending
<1>31. CASE
      \/ UNCHANGED vars
      \/ Redraw
  <2>1. UNCHANGED <<scanStatus, clearStatus, stopId, answer, pc, phase, ret, bScan>>
    BY <1>31
       DEF vars, Redraw
  <2> QED
    BY <2>1
       DEF PausePending
<1> QED
  BY <1>1, <1>2, <1>3, <1>4, <1>5, <1>6, <1>7, <1>8, <1>9, <1>10, <1>11, <1>12, <1>13,
       <1>14, <1>15, <1>16, <1>17, <1>18, <1>19, <1>20, <1>21, <1>22, <1>23, <1>24, <1>25,
       <1>26, <1>27, <1>28, <1>29, <1>30, <1>31
     DEF Next, App, User, Over

\* What the scan has passed keeps a result.
LEMMA PassedKept ==
  ASSUME PageTyped, WorkTyped, Places, Passed, [Next]_vars
  PROVE  Passed'
<1>1. CASE StartScan
  <2>1. CASE iScan' = 0
    BY <2>1 DEF Passed, Sys
  <2>2. CASE iScan' # 0
    BY <1>1, <2>2 DEF StartScan, SetScanStart, Places, Passed, PageTyped
  <2> QED BY <2>1, <2>2
<1>2. CASE StopLate
  BY <1>2
     DEF StopLate, SetScanStop, SetClearFinish, Passed
<1>3. CASE EraseNothing
  BY <1>3
     DEF EraseNothing, SetScanStop, SetClearFinish, Passed
<1>4. ASSUME NEW s \in Sys, EraseSystem(s) PROVE Passed'
  <2>1. result' = [result EXCEPT ![s] = LEFT] /\ UNCHANGED iScan
    BY <1>4 DEF EraseSystem, SetClearFinish, SetItemResult
  <2> QED BY <2>1 DEF Passed, PageTyped, LEFT, NONE
<1>5. CASE SystemLeft
  <2>1. PICK n \in {0, LEFT, FOUND} : result' = [result EXCEPT ![target] = n]
    BY <1>5 DEF SystemLeft, SetItemResult
  <2>2. UNCHANGED iScan
    BY <1>5 DEF SystemLeft
  <2> QED BY <2>1, <2>2 DEF Passed, PageTyped, LEFT, FOUND, NONE
<1>6. CASE ScanAbsent
  <2>1. iScan \in Sys /\ Scanned # NONE
    BY <1>6, ScanPlace, ScannedResult DEF ScanAbsent, Advance, NONE, NOTEXIST, FOUND
  <2>2. result' = [result EXCEPT ![iScan] = Scanned] /\ iScan' = iScan + 1
    BY <1>6 DEF ScanAbsent, Advance, SetItemResult, SetScanStop
  <2> QED BY <2>1, <2>2 DEF Passed, PageTyped, Sys
<1>7. CASE ScanPause
  BY <1>7, ScannedResult, ScanPlace
     DEF ScanPause, SetScanStop, PageTyped, NONE, NOTEXIST, LEFT, FOUND, Passed
<1>8. CASE ScanSystem
  <2>1. iScan \in Sys /\ Scanned # NONE
    BY <1>8, ScanPlace, ScannedResult DEF ScanSystem, Advance, NONE, NOTEXIST, FOUND
  <2>2. result' = [result EXCEPT ![iScan] = Scanned] /\ iScan' = iScan + 1
    BY <1>8 DEF ScanSystem, Advance, SetItemResult, SetScanStop
  <2> QED BY <2>1, <2>2 DEF Passed, PageTyped, Sys
<1>9. CASE OtherPageLeft
  BY <1>9
     DEF OtherPageLeft, SetItemResult, PageTyped, NONE, NOTEXIST, Passed
<1>10. CASE
      \/ UNCHANGED vars
      \/ ShowCall
      \/ ShowReturn
      \/ LeavePage
      \/ EraseRefused
      \/ StartErase
      \/ ShowReport
      \/ NoAnswer
      \/ \E s \in Sys : ViewCodes(s)
      \/ \E s \in Sys : EnterSystem(s)
      \/ ScanShown
      \/ ScanAbandoned
      \/ EraseShown
      \/ Redraw
      \/ PageCovered
      \/ TapScan
      \/ TapErase
      \/ TapReport
      \/ TapBack
      \/ \E s \in Sys : TapRow(s)
      \/ ConfirmBack
      \/ ConfirmErase
      \/ Dismiss
  <2>1. UNCHANGED <<result, iScan>>
    BY <1>10
       DEF vars, ShowCall, ShowReturn, LeavePage, EraseRefused, StartErase, ShowReport,
             NoAnswer, ViewCodes, EnterSystem, ScanShown, ScanAbandoned, EraseShown, Redraw,
             PageCovered, TapScan, TapErase, TapReport, TapBack, TapRow, ConfirmBack,
             ConfirmErase, Dismiss, SetClearStart
  <2> QED
    BY <2>1
       DEF Passed
<1> QED
  BY <1>1, <1>2, <1>3, <1>4, <1>5, <1>6, <1>7, <1>8, <1>9, <1>10
     DEF Next, App, User, Over

\* A line written with a result follows the page.
LEMMA LinesFollow ==
  ASSUME PageTyped, WorkTyped, Lines,
         NEW s \in Sys, NEW n \in {0, LEFT, FOUND}, NEW q, WriteLine(s, n, q),
         result' = [result EXCEPT ![s] = n], UNCHANGED <<car, iScan, bScan, early>>
  PROVE  Lines'
<1>1. /\ DOMAIN report = 1 .. Len(report) /\ Len(report) \in Nat
      /\ \A i \in DOMAIN report : report[i] \in [sys : Sys, dtcs : {0, LEFT, FOUND}]
  BY LenProperties, ElementOfSeq DEF WorkTyped
<1>2. \A t \in Sys \ {s} : result'[t] = result[t]
  BY DEF PageTyped
<1>3. result'[s] = n
  BY DEF PageTyped
<1>4. CASE s + 1 \notin DOMAIN report
  <2>1. UNCHANGED report
    BY <1>4 DEF WriteLine
  <2> QED BY <1>2, <1>4, <2>1 DEF Lines, AbsentLast
<1>5. CASE s + 1 \in DOMAIN report
  <2>1. report' = [report EXCEPT ![s + 1] = [sys |-> report[s + 1].sys, dtcs |-> n]]
    BY <1>5 DEF WriteLine
  <2>2. Len(report') = Len(report) /\ DOMAIN report' = DOMAIN report
    <3>1. [sys |-> report[s + 1].sys, dtcs |-> n] \in [sys : Sys, dtcs : {0, LEFT, FOUND}]
      BY <1>1, <1>5
    <3>2. /\ report' \in Seq([sys : Sys, dtcs : {0, LEFT, FOUND}])
          /\ Len(report') = Len(report)
      BY <1>1, <1>5, <2>1, <3>1, ExceptSeq DEF WorkTyped
    <3> QED BY <1>1, <3>2, LenProperties
  <2>3. \A i \in DOMAIN report :
          report'[i] = IF i = s + 1 THEN [sys |-> report[s + 1].sys, dtcs |-> n] ELSE report[i]
    BY <2>1
  <2>4. ~bScan /\ ~early => report' = <<>>
    BY <1>1, <1>5 DEF Lines
  <2>5. ASSUME AbsentLast, ~early, NEW t \in Sys, t + 1 \in DOMAIN report
        PROVE  report'[t + 1] = [sys |-> t, dtcs |-> result'[t]]
    <3>1. report[t + 1] = [sys |-> t, dtcs |-> result[t]]
      BY <2>5 DEF Lines
    <3>2. CASE t = s
      BY <1>3, <2>3, <2>5, <3>1, <3>2
    <3>3. CASE t # s
      <4>1. t + 1 # s + 1
        BY <3>3, Counted DEF Sys
      <4> QED BY <1>2, <2>3, <2>5, <3>1, <3>3, <4>1
    <3> QED BY <3>2, <3>3
  <2> QED BY <2>2, <2>4, <2>5 DEF Lines, AbsentLast
<1> QED BY <1>4, <1>5

\* The report follows the page.
LEMMA LinesKept ==
  ASSUME PageTyped, WorkTyped, Places, Lines, [Next]_vars
  PROVE  Lines'
<1>1. CASE StartScan
  <2>1. CASE iScan = N
    BY <1>1, <2>1, Counted DEF StartScan, Lines, Sys
  <2>2. CASE iScan # N
    <3>1. UNCHANGED <<car, iScan, report, early>> /\ bScan'
      BY <1>1, <2>2 DEF StartScan
    <3>2. CASE result' = result
      BY <3>1, <3>2 DEF Lines, AbsentLast
    <3>3. CASE result' # result
      <4>1. iScan = 0 /\ ~bScan
        BY <1>1, <2>2, <3>3 DEF StartScan, SetScanStart, Places, PageTyped
      <4> QED BY <3>1, <4>1, Counted DEF Lines, AbsentLast, Sys
    <3> QED BY <3>2, <3>3
  <2> QED BY <2>1, <2>2
<1>2. CASE StopLate
  BY <1>2
     DEF StopLate, SetScanStop, SetClearFinish, AbsentLast, Lines, AbsentLast
<1>3. CASE EraseNothing
  BY <1>3
     DEF EraseNothing, SetScanStop, SetClearFinish, AbsentLast, Lines, AbsentLast
<1>4. ASSUME NEW s \in Sys, EraseSystem(s) PROVE Lines'
  <2>1. result' = [result EXCEPT ![s] = LEFT] /\ UNCHANGED <<car, iScan, bScan, early>>
    BY <1>4 DEF EraseSystem, SetClearFinish, SetItemResult
  <2>2. PICK q : WriteLine(s, LEFT, q)
    BY <1>4 DEF EraseSystem
  <2> QED BY <2>1, <2>2, LinesFollow
<1>5. CASE SystemLeft
  <2>1. PICK n \in {0, LEFT, FOUND} :
           /\ result' = [result EXCEPT ![target] = n]
           /\ IF bScan THEN WriteLine(target, n, "main") /\ UNCHANGED early ELSE early'
    BY <1>5 DEF SystemLeft, SetItemResult
  <2>2. UNCHANGED <<car, iScan, bScan>> /\ target \in Sys
    BY <1>5 DEF SystemLeft, WorkTyped
  <2>3. CASE bScan
    BY <2>1, <2>2, <2>3, LinesFollow
  <2>4. CASE ~bScan
    BY <2>1, <2>2, <2>4 DEF Lines
  <2> QED BY <2>3, <2>4
<1>6. CASE ScanAbsent
  <2>1. result' = [result EXCEPT ![iScan] = Scanned] /\ iScan' = iScan + 1
        /\ UNCHANGED <<car, bScan, report, early>> /\ car.kind[iScan] = "absent"
    BY <1>6 DEF ScanAbsent, Advance, SetItemResult, SetScanStop
  <2>2. \A s \in Sys : s < iScan => result'[s] = result[s]
    BY <2>1 DEF PageTyped, WorkTyped, Sys
  <2>3. \A s \in Sys : s < iScan' /\ car.kind[s] # "absent" <=> s < iScan /\ car.kind[s] # "absent"
    BY <2>1 DEF WorkTyped, Sys
  <2> QED BY <2>1, <2>2, <2>3 DEF Lines, AbsentLast
<1>7. CASE ScanPause
  <2>1. result' = [result EXCEPT ![iScan] = Scanned]
        /\ UNCHANGED <<car, iScan, bScan, report, early>>
    BY <1>7 DEF ScanPause, SetScanStop
  <2>2. \A s \in Sys : s < iScan => result'[s] = result[s]
    BY <2>1 DEF PageTyped, WorkTyped, Sys
  <2> QED BY <2>1, <2>2 DEF Lines, AbsentLast
<1>8. CASE ScanSystem
  <2>1. /\ result' = [result EXCEPT ![iScan] = Scanned] /\ iScan' = iScan + 1
        /\ report' = Append(report, [sys |-> iScan, dtcs |-> Scanned])
        /\ UNCHANGED <<car, bScan, early>> /\ car.kind[iScan] # "absent"
    BY <1>8 DEF ScanSystem, Advance, SetItemResult, SetScanStop
  <2>2. /\ iScan \in Sys /\ iScan \in Nat /\ iScan < N /\ bScan
        /\ [sys |-> iScan, dtcs |-> Scanned] \in [sys : Sys, dtcs : {0, LEFT, FOUND}]
    BY <1>8, <2>1, ScanPlace, ScannedResult, Counted DEF ScanSystem, Advance, WorkTyped, Places
  <2> HIDE DEF Sys
  <2>3. SUFFICES ASSUME AbsentLast, ~early
                 PROVE  /\ \A s \in Sys :
                             /\ s + 1 \in DOMAIN report' <=> s < iScan' /\ car.kind[s] # "absent"
                             /\ s + 1 \in DOMAIN report' =>
                                  report'[s + 1] = [sys |-> s, dtcs |-> result'[s]]
                        /\ Len(report') <= N
    BY <2>1, <2>2 DEF Lines, AbsentLast
  <2>4. DOMAIN report = 1 .. Len(report) /\ Len(report) \in Nat
    BY LenProperties DEF WorkTyped
  <2>5. \A s \in Sys : s < iScan => car.kind[s] # "absent"
    BY <2>1, <2>2, <2>3 DEF AbsentLast
  <2>6. \A s \in Sys : s + 1 \in DOMAIN report <=> s < iScan
    BY <2>3, <2>5 DEF Lines
  <2>7. Len(report) = iScan
    <3>1. ~(Len(report) > iScan)
      BY <2>2, <2>4, <2>6
    <3>2. ~(Len(report) < iScan)
      BY <2>2, <2>4, <2>6, Counted DEF Sys
    <3> QED BY <2>2, <2>4, <3>1, <3>2
  <2>8. /\ DOMAIN report' = 1 .. iScan + 1 /\ Len(report') = iScan + 1
        /\ report'[iScan + 1] = [sys |-> iScan, dtcs |-> Scanned]
        /\ \A i \in 1 .. iScan : report'[i] = report[i]
    <3>1. report' \in Seq([sys : Sys, dtcs : {0, LEFT, FOUND}])
      BY <2>1, <2>2, AppendProperties DEF WorkTyped
    <3>2. /\ Len(report') = iScan + 1
          /\ report'[iScan + 1] = [sys |-> iScan, dtcs |-> Scanned]
          /\ \A i \in 1 .. iScan : report'[i] = report[i]
      BY <2>1, <2>2, <2>7, AppendProperties DEF WorkTyped
    <3> QED BY <3>1, <3>2, LenProperties
  <2>9. ASSUME NEW s \in Sys
        PROVE  /\ s + 1 \in DOMAIN report' <=> s < iScan' /\ car.kind[s] # "absent"
               /\ s + 1 \in DOMAIN report' =>
                    report'[s + 1] = [sys |-> s, dtcs |-> result'[s]]
    <3>1. s \in Nat
      BY Counted DEF Sys
    <3>2. s + 1 \in DOMAIN report' <=> s <= iScan
      BY <2>2, <2>8, <3>1
    <3>3. CASE s < iScan
      <4>1. s + 1 \in DOMAIN report /\ report[s + 1] = [sys |-> s, dtcs |-> result[s]]
        BY <2>3, <2>6, <3>3 DEF Lines
      <4>2. result'[s] = result[s]
        BY <2>1, <2>2, <3>1, <3>3 DEF PageTyped
      <4>3. report'[s + 1] = report[s + 1]
        BY <2>2, <2>8, <3>1, <3>3
      <4> QED BY <2>1, <2>2, <2>5, <3>1, <3>2, <3>3, <4>1, <4>2, <4>3
    <3>4. CASE s = iScan
      BY <2>1, <2>2, <2>8, <3>2, <3>4 DEF PageTyped
    <3>5. CASE s > iScan
      BY <2>1, <2>2, <3>1, <3>2, <3>5
    <3> QED BY <2>2, <3>1, <3>3, <3>4, <3>5
  <2>10. Len(report') <= N
    BY <2>2, <2>8, Counted
  <2> QED BY <2>9, <2>10, Zenon
<1>9. CASE OtherPageLeft
  <2>1. UNCHANGED <<car, iScan, bScan, report, early>>
    BY <1>9 DEF OtherPageLeft
  <2>2. \A s \in Sys : car.kind[s] # "absent" => result'[s] = result[s]
    BY <1>9 DEF OtherPageLeft, SetItemResult, PageTyped
  <2> QED BY <2>1, <2>2 DEF Lines, AbsentLast
<1>10. CASE
      \/ UNCHANGED vars
      \/ ShowCall
      \/ ShowReturn
      \/ LeavePage
      \/ EraseRefused
      \/ StartErase
      \/ ShowReport
      \/ NoAnswer
      \/ \E s \in Sys : ViewCodes(s)
      \/ \E s \in Sys : EnterSystem(s)
      \/ ScanShown
      \/ ScanAbandoned
      \/ EraseShown
      \/ Redraw
      \/ PageCovered
      \/ TapScan
      \/ TapErase
      \/ TapReport
      \/ TapBack
      \/ \E s \in Sys : TapRow(s)
      \/ ConfirmBack
      \/ ConfirmErase
      \/ Dismiss
  <2>1. UNCHANGED <<car, result, iScan, bScan, report, early>>
    BY <1>10
       DEF vars, ShowCall, ShowReturn, LeavePage, EraseRefused, StartErase, ShowReport,
             NoAnswer, ViewCodes, EnterSystem, ScanShown, ScanAbandoned, EraseShown, Redraw,
             PageCovered, TapScan, TapErase, TapReport, TapBack, TapRow, ConfirmBack,
             ConfirmErase, Dismiss, SetClearStart
  <2> QED
    BY <2>1
       DEF Lines, AbsentLast
<1> QED
  BY <1>1, <1>2, <1>3, <1>4, <1>5, <1>6, <1>7, <1>8, <1>9, <1>10
     DEF Next, App, User, Over

LEMMA Kept == IInv /\ [Next]_vars => IInv'
<1> SUFFICES ASSUME IInv, [Next]_vars PROVE IInv'
  OBVIOUS
<1>1. PageTyped /\ ScreenTyped /\ WorkTyped
  BY TypeParts DEF IInv
<1>2. PageTyped' /\ ScreenTyped' /\ WorkTyped'
  BY <1>1, TypedPage, TypedScreen, TypedWork
<1>3. TypeOK'
  BY <1>2 DEF TypeOK, PageTyped, ScreenTyped, WorkTyped
<1>4. Places' /\ EraseOffered' /\ PausePending'
  BY <1>1, PlacesKept, EraseOfferedKept, PausePendingKept DEF IInv
<1>5. Passed' /\ Lines'
  BY <1>1, PassedKept, LinesKept DEF IInv
<1> QED BY <1>3, <1>4, <1>5 DEF IInv

LEMMA Invariance == Spec => []IInv
BY Initial, Kept, PTL DEF Spec
-----------------------------------------------------------------------------
(* What follows.                                                           *)

\* The variables keep their types, and a Show inside the scan is made only while the
\* page is in DF_SYS_SCAN_START and a system is left.
THEOREM TypeCorrect == Spec => []TypeOK
<1>1. IInv => TypeOK
  BY DEF IInv
<1> QED BY <1>1, Invariance, PTL

\* When the page is told DF_SYS_SCAN_FINISH, every row shows a result: no pause, entry or
\* erasure in between lets the scan skip a system or SetScanStatus forget one.
THEOREM FinishIsComplete == Spec => []FinishShowsAll
<1>1. IInv => FinishShowsAll
  BY Counted DEF IInv, Places, Passed, FinishShowsAll, Sys
<1> QED BY <1>1, Invariance, PTL

\* The erase button is enabled only with codes on show, and neither during a scan nor
\* during an erasure, whatever answers arrive late.
THEOREM EraseOfferedSafely == Spec => []EraseOffered
<1>1. IInv => EraseOffered
  BY DEF IInv
<1> QED BY <1>1, Invariance, PTL

\* After a complete scan the lines of vctItemsys are those of the page, if missing
\* systems come last and none was entered before the first scan.
THEOREM ReportFollowsPage == Spec => []ReportMatchesPage
<1>1. ASSUME IInv PROVE ReportMatchesPage
  <2> SUFFICES ASSUME AbsentLast, ~early, iScan = N
               PROVE  LET found == {s \in Sys : car.kind[s] # "absent"} IN
                        /\ DOMAIN report = {s + 1 : s \in found}
                        /\ \A s \in found : report[s + 1] = [sys |-> s, dtcs |-> result[s]]
    BY DEF ReportMatchesPage
  <2>1. WorkTyped
    BY <1>1, TypeParts DEF IInv
  <2>2. DOMAIN report = 1 .. Len(report) /\ Len(report) \in Nat /\ Len(report) <= N
    BY <1>1, <2>1, LenProperties DEF WorkTyped, IInv, Lines
  <2>3. \A s \in Sys : s < iScan
    BY Counted DEF Sys
  <2>4. \A s \in Sys : s + 1 \in DOMAIN report <=> car.kind[s] # "absent"
    BY <1>1, <2>3 DEF IInv, Lines
  <2>5. \A i \in DOMAIN report : i - 1 \in Sys /\ i = (i - 1) + 1
    BY <2>2, Counted DEF Sys
  <2>6. DOMAIN report = {s + 1 : s \in {t \in Sys : car.kind[t] # "absent"}}
    <3>1. ASSUME NEW i \in DOMAIN report
          PROVE  i \in {s + 1 : s \in {t \in Sys : car.kind[t] # "absent"}}
      BY <2>4, <2>5
    <3>2. ASSUME NEW s \in Sys, car.kind[s] # "absent"
          PROVE  s + 1 \in DOMAIN report
      BY <2>4, <3>2
    <3> QED BY <3>1, <3>2
  <2>7. \A s \in Sys : s + 1 \in DOMAIN report =>
                         report[s + 1] = [sys |-> s, dtcs |-> result[s]]
    BY <1>1 DEF IInv, Lines
  <2> QED BY <2>4, <2>6, <2>7
<1> QED BY <1>1, Invariance, PTL

\* The application and the page together keep the promise of ScanRound, the rules at the
\* head of ArtiSystem.h: in order, every system once, resumed where it was paused.
THEOREM Refines == Spec => ImplementsRounds
<1>1. Init => Rounds!Init
  BY DEF Init, Rounds!Init, Gone
<1>2. ASSUME IInv, [Next]_vars PROVE [Rounds!Next]_(Rounds!roundVars)
  <2>0. WorkTyped /\ PageTyped /\ Places /\ PausePending
    BY <1>2, TypeParts DEF IInv
  <2>1. CASE LeavePage
    BY <2>0, <2>1
       DEF LeavePage, Rounds!Leave, Rounds!Next, Rounds!roundVars, Gone
  <2>2. CASE StartScan
    BY <2>0, <2>2
       DEF StartScan, SetScanStart, Rounds!Begin, Places, PageTyped, Rounds!Next,
             Rounds!roundVars, Gone
  <2>3. CASE StopLate
    BY <2>0, <2>3
       DEF StopLate, SetScanStop, Rounds!Pause, Places, PausePending, PageTyped,
             Rounds!Next, Rounds!roundVars, Gone
  <2>4. ASSUME NEW s \in Sys, ViewCodes(s) PROVE [Rounds!Next]_(Rounds!roundVars)
    BY <2>0, <2>4
       DEF ViewCodes, Rounds!Leave, Rounds!Next, Rounds!roundVars, Gone
  <2>5. ASSUME NEW s \in Sys, EraseSystem(s) PROVE [Rounds!Next]_(Rounds!roundVars)
    BY <2>0, <2>5
       DEF EraseSystem, WriteLine, SetClearFinish, SetItemResult, Rounds!Leave,
             Rounds!Next, Rounds!roundVars, Gone
  <2>6. CASE SystemLeft
    BY <2>0, <2>6
       DEF SystemLeft, WriteLine, SetItemResult, Rounds!Leave, Rounds!Next,
             Rounds!roundVars, Gone
  <2>7. CASE ScanAbandoned
    BY <2>0, <2>7
       DEF ScanAbandoned, Rounds!Leave, Rounds!Next, Rounds!roundVars, Gone
  <2>8. CASE ScanAbsent
    BY <2>0, <2>8, Counted
       DEF ScanAbsent, Advance, SetScanStop, SetItemResult, Rounds!Examine, WorkTyped,
             Rounds!Next, Rounds!roundVars, Gone
  <2>9. CASE ScanPause
    BY <2>0, <2>9
       DEF ScanPause, SetScanStop, Rounds!Pause, WorkTyped, Rounds!Next, Rounds!roundVars,
             Gone
  <2>10. CASE ScanSystem
    BY <2>0, <2>10, Counted
       DEF ScanSystem, Advance, SetScanStop, SetItemResult, Rounds!Examine, WorkTyped,
             Rounds!Next, Rounds!roundVars, Gone
  <2>11. CASE
        \/ UNCHANGED vars
        \/ ShowCall
        \/ ShowReturn
        \/ EraseRefused
        \/ EraseNothing
        \/ StartErase
        \/ ShowReport
        \/ NoAnswer
        \/ \E s \in Sys : EnterSystem(s)
        \/ ScanShown
        \/ EraseShown
        \/ Redraw
        \/ PageCovered
        \/ TapScan
        \/ TapErase
        \/ TapReport
        \/ TapBack
        \/ \E s \in Sys : TapRow(s)
        \/ ConfirmBack
        \/ ConfirmErase
        \/ Dismiss
        \/ OtherPageLeft
    <3>1. UNCHANGED <<scanStatus, iScan>> /\ (pc' = pc \/ (pc \notin Gone /\ pc' \notin Gone))
      BY <2>11
         DEF vars, ShowCall, ShowReturn, EraseRefused, EraseNothing, StartErase,
               ShowReport, NoAnswer, EnterSystem, ScanShown, EraseShown, Redraw, PageCovered,
               TapScan, TapErase, TapReport, TapBack, TapRow, ConfirmBack, ConfirmErase,
               Dismiss, OtherPageLeft, ShowPoint, Gone, SetClearStart, SetClearFinish,
               SetItemResult
    <3> QED BY <3>1 DEF Rounds!roundVars
  <2> QED
    BY <1>2, <2>1, <2>2, <2>3, <2>4, <2>5, <2>6, <2>7, <2>8, <2>9, <2>10, <2>11
       DEF Next, App, User, Over
<1> QED BY <1>1, <1>2, Invariance, PTL DEF Spec, ImplementsRounds, Rounds!Spec
-----------------------------------------------------------------------------
(* A scan and an erasure end.  Each step of the application takes the one  *)
(* that is under way nearer to its end: Left bounds the steps that remain, *)
(* and neither the user nor the main thread changes it.  What ENABLED says *)
(* of the application, which follows from the guards of its actions, is a  *)
(* hypothesis.                                                             *)

Scanning == pc \in {"scan1", "scan2"}
Erasing == pc \in {"erase1", "erase2"}
Busy == Scanning \/ Erasing

\* The guards of the application's actions in a scan and an erasure: it calls Show,
\* Show returns, and what Show returned is acted upon.
GuardsEnable ==
  \/ Busy /\ phase = "call"
  \/ phase = "wait"
  \/ Busy /\ phase = "got" /\ (pc = "erase2" => todo # {})
  => ENABLED <<App>>_vars

\* An erasure that is on the page is under way, unless the application refused it.
ErasePlace == clearStatus = "start" /\ car.erases => Erasing \/ pc \in Gone

\* The systems left, and the steps left with the one it is at: two Shows, each called,
\* returned from and acted upon.
Systems == IF Scanning THEN N - iScan ELSE Cardinality(todo)
Steps ==
  (CASE phase = "call" -> 2 [] phase = "wait" -> 1 [] OTHER -> 0)
    + (IF pc \in {"scan1", "erase1"} THEN 3 ELSE 0)
Left == 6 * Systems + Steps

LEMMA TodoFinite ==
  ASSUME WorkTyped
  PROVE  /\ IsFiniteSet(todo) /\ Cardinality(todo) \in 0 .. N
         /\ \A s \in todo : IsFiniteSet(todo \ {s})
                              /\ Cardinality(todo \ {s}) = Cardinality(todo) - 1
<1>1. IsFiniteSet(Sys) /\ Cardinality(Sys) = N
  BY Counted, FS_Interval DEF Sys
<1>2. IsFiniteSet(todo) /\ Cardinality(todo) <= N
  BY <1>1, FS_Subset DEF WorkTyped
<1>3. Cardinality(todo) \in Nat
  BY <1>2, FS_CardinalityType
<1>. QED
  BY <1>2, <1>3, Counted, FS_RemoveElement

LeftBounds == Systems \in 0 .. N /\ Steps \in 0 .. 5 /\ Left \in 0 .. 6 * N + 5

LEMMA LeftBounded == WorkTyped => LeftBounds
<1>. SUFFICES ASSUME WorkTyped PROVE LeftBounds
  OBVIOUS
<1>1. Systems \in 0 .. N
  BY TodoFinite, Counted DEF Systems, WorkTyped
<1>2. Steps \in 0 .. 5
  BY DEF Steps
<1>. QED
  BY <1>1, <1>2, Counted DEF Left, LeftBounds

LEMMA LeftBoundedNext == WorkTyped' => LeftBounds'
BY LeftBounded, PTL

\* What only acts on the page and the screen leaves the application where it is.
LEMMA OthersWait ==
  ASSUME Busy, [Next]_vars, ~App
  PROVE  UNCHANGED <<car, pc, phase, iScan, todo, scanStatus, clearStatus>>
BY DEF Busy, Scanning, Erasing, Next, User, Over, Redraw, PageCovered, TapScan, TapErase,
       TapReport, TapBack, TapRow, ConfirmBack, ConfirmErase, Dismiss, OtherPageLeft, Gone,
       TouchFrame, vars, workVars, pageVars

\* In a scan or an erasure a step of the application is one step less.
LEMMA AppAdvances ==
  ASSUME WorkTyped, WorkTyped', Busy, App
  PROVE  ~Busy' \/ Left' <= Left - 1
<1>0. LeftBounds /\ LeftBounds' /\ N \in Nat
  BY LeftBounded, LeftBoundedNext, Counted
<1>. SUFFICES ASSUME Busy' PROVE Left' <= Left - 1
  OBVIOUS
<1>1. CASE ShowCall \/ ShowReturn
  <2>1. UNCHANGED <<pc, iScan, todo>> /\ Steps' = Steps - 1
    BY <1>1 DEF ShowCall, ShowReturn, Steps, workVars
  <2>2. Systems' = Systems
    BY <2>1 DEF Systems, Scanning
  <2>. QED
    BY <1>0, <2>1, <2>2 DEF Left, LeftBounds
<1>2. CASE ScanShown \/ EraseShown
  <2>1. UNCHANGED <<iScan, todo>> /\ (Scanning <=> Scanning') /\ Steps = 3 /\ Steps' = 2
    BY <1>2 DEF ScanShown, EraseShown, From, Back, Steps, Scanning, workVars
  <2>2. Systems' = Systems
    BY <2>1 DEF Systems
  <2>. QED
    BY <1>0, <2>1, <2>2 DEF Left, LeftBounds
<1>3. CASE ScanAbsent \/ ScanSystem
  <2>1. pc = "scan2" /\ phase = "got" /\ iScan' = iScan + 1 /\ phase' = "call" /\ pc' = "scan1"
    BY <1>3 DEF ScanAbsent, ScanSystem, Advance, Back, Busy, Scanning, Erasing
  <2>2. Steps = 0 /\ Steps' = 5
    BY <2>1 DEF Steps
  <2>3. Systems = N - iScan /\ Systems' = N - iScan'
    BY <2>1 DEF Systems, Scanning
  <2>4. iScan \in Nat
    BY <1>0 DEF WorkTyped
  <2>. QED
    BY <1>0, <2>1, <2>2, <2>3, <2>4 DEF Left
<1>4. ASSUME NEW s \in Sys, EraseSystem(s) PROVE Left' <= Left - 1
  <2>1. pc = "erase2" /\ phase = "got" /\ todo' = todo \ {s} /\ s \in todo /\ phase' = "call"
    BY <1>4 DEF EraseSystem, Back
  <2>2. pc' = "erase1"
    BY <1>4 DEF EraseSystem, WriteLine, Busy, Scanning, Erasing
  <2>3. Steps = 0 /\ Steps' = 5
    BY <2>1, <2>2 DEF Steps
  <2>4. Systems = Cardinality(todo) /\ Systems' = Cardinality(todo')
    BY <2>1, <2>2 DEF Systems, Scanning
  <2>5. Systems' = Systems - 1
    BY <2>1, <2>4, TodoFinite
  <2>. QED
    BY <1>0, <2>3, <2>5 DEF Left, LeftBounds
<1>5. CASE LeavePage \/ StartScan \/ StopLate \/ EraseRefused \/ EraseNothing \/ StartErase
             \/ ShowReport \/ NoAnswer \/ SystemLeft \/ ScanAbandoned \/ ScanPause
  BY <1>5 DEF LeavePage, StartScan, StopLate, EraseRefused, EraseNothing, StartErase,
       ShowReport, NoAnswer, SystemLeft, ScanAbandoned, ScanPause, From, Back,
       Busy, Scanning, Erasing
<1>6. ASSUME NEW s \in Sys, ViewCodes(s) \/ EnterSystem(s) PROVE Left' <= Left - 1
  BY <1>6 DEF ViewCodes, EnterSystem, From, Back, Busy, Scanning, Erasing
<1>. QED
  BY <1>1, <1>2, <1>3, <1>4, <1>5, <1>6 DEF App

\* The application is never stuck in a scan or an erasure.
LEMMA NeverStuck ==
  ASSUME WorkTyped, GuardsEnable, Busy
  PROVE  ENABLED <<App>>_vars
BY DEF WorkTyped, GuardsEnable, Busy, Scanning, Erasing

\* An erasure on the page is under way.
LEMMA ErasePlaceKept ==
  ASSUME WorkTyped, Places, ErasePlace, [Next]_vars
  PROVE  ErasePlace' /\ car' = car
<1>1. CASE StartErase \/ EraseRefused
  BY <1>1 DEF StartErase, EraseRefused, From, AppFrame, ErasePlace, Erasing
<1>2. CASE StartScan \/ EraseNothing
  BY <1>2 DEF StartScan, EraseNothing, SetScanStart, SetClearFinish, AppFrame, ErasePlace
<1>3. ASSUME NEW s \in Sys, EraseSystem(s) PROVE ErasePlace' /\ car' = car
  <2>1. car' = car
    BY <1>3 DEF EraseSystem, AppFrame
  <2>2. CASE todo' = {}
    BY <1>3, <2>1, <2>2 DEF EraseSystem, SetClearFinish, ErasePlace
  <2>3. CASE todo' # {}
    BY <1>3, <2>1, <2>3 DEF EraseSystem, WriteLine, ErasePlace, Erasing, Gone
  <2>. QED
    BY <2>1, <2>2, <2>3
<1>4. CASE EraseShown
  BY <1>4 DEF EraseShown, From, AppFrame, ErasePlace, Erasing
<1>5. CASE \/ LeavePage \/ StopLate \/ ShowReport \/ NoAnswer \/ SystemLeft
           \/ ScanShown \/ ScanAbandoned \/ ScanAbsent \/ ScanPause \/ ScanSystem
           \/ OtherPageLeft \/ PageCovered
           \/ \E s \in Sys : ViewCodes(s) \/ EnterSystem(s)
  <2>1. UNCHANGED <<car, clearStatus>> /\ pc \notin {"erase1", "erase2"} \cup Gone
    BY <1>5 DEF LeavePage, StopLate, ShowReport, NoAnswer, SystemLeft, ScanShown,
         ScanAbandoned, ScanAbsent, ScanPause, ScanSystem, OtherPageLeft, PageCovered,
         ViewCodes, EnterSystem, From, Back, Advance, AppFrame, SetScanStop, SetItemResult,
         pageVars, Gone
  <2>. QED
    BY <2>1 DEF ErasePlace, Erasing
<1>6. CASE \/ UNCHANGED vars \/ ShowCall \/ ShowReturn \/ Redraw
           \/ TapScan \/ TapErase \/ TapReport \/ TapBack \/ (\E s \in Sys : TapRow(s))
           \/ ConfirmBack \/ ConfirmErase \/ Dismiss
  <2>1. UNCHANGED <<car, clearStatus, pc>>
    BY <1>6 DEF vars, pageVars, ShowCall, ShowReturn, Redraw, TapScan, TapErase, TapReport,
         TapBack, TapRow, ConfirmBack, ConfirmErase, Dismiss, TouchFrame
  <2>. QED
    BY <2>1 DEF ErasePlace, Erasing
<1>. QED
  BY <1>1, <1>2, <1>3, <1>4, <1>5, <1>6 DEF Next, App, User, Over

LEMMA EraseAlways == Spec => [](IInv /\ ErasePlace)
<1>1. Init => ErasePlace
  BY DEF Init, ErasePlace
<1>2. IInv /\ ErasePlace /\ [Next]_vars => ErasePlace'
  BY ErasePlaceKept, TypeParts DEF IInv
<1>. QED
  BY <1>1, <1>2, Invariance, PTL DEF Spec

\* With at most n steps left the scan or erasure comes to its end.
AtMost(n) == Busy /\ Left <= n
Ends(n) == FairSpec /\ []GuardsEnable => (AtMost(n) ~> ~Busy)

\* One step less: a measure of m or nothing is left after the next step of the application.
LEMMA StepLess ==
  ASSUME NEW n \in Nat, IInv, IInv', AtMost(n), [Next]_vars
  PROVE  /\ AtMost(n)' \/ ~Busy'
         /\ App => ~Busy' \/ (n # 0 /\ AtMost(n - 1)')
<1>0. WorkTyped /\ WorkTyped' /\ LeftBounds /\ LeftBounds'
  BY LeftBounded, LeftBoundedNext, TypeParts DEF IInv, TypeOK, WorkTyped
<1>1. Left \in Nat /\ Left' \in Nat /\ Left <= n /\ Busy
  BY <1>0, Counted DEF LeftBounds, AtMost
<1>2. CASE App
  <2>1. ~Busy' \/ Left' <= Left - 1
    BY <1>0, <1>1, <1>2, AppAdvances
  <2>. QED
    BY <1>1, <2>1 DEF AtMost
<1>3. CASE ~App
  <2>1. UNCHANGED <<car, pc, phase, iScan, todo, scanStatus, clearStatus>>
    BY <1>1, <1>3, OthersWait
  <2>2. Left' = Left /\ Busy'
    BY <1>1, <2>1 DEF Left, Systems, Steps, Scanning, Busy, Erasing
  <2>. QED
    BY <1>1, <1>3, <2>2 DEF AtMost
<1>. QED
  BY <1>2, <1>3

LEMMA AllEnd == \A n \in Nat : Ends(n)
<1>. DEFINE End == [n \in Nat |-> Ends(n)]
<1>1. ASSUME NEW n \in Nat
      PROVE  IInv /\ GuardsEnable => (AtMost(n) => ENABLED <<App>>_vars)
  BY NeverStuck, TypeParts DEF AtMost, IInv
<1>2. Ends(0)
  <2>1. IInv /\ IInv' /\ [Next]_vars => (AtMost(0) => AtMost(0)' \/ (~Busy)')
    BY StepLess
  <2>2. IInv /\ IInv' /\ <<App>>_vars => (AtMost(0) => (~Busy)')
    BY StepLess DEF Next
  <2>3. IInv /\ GuardsEnable => (AtMost(0) => ENABLED <<App>>_vars)
    BY <1>1
  <2>. QED
    BY <2>1, <2>2, <2>3, Invariance, PTL DEF FairSpec, Spec, Ends
<1>3. ASSUME NEW n \in Nat PROVE Ends(n) => Ends(n + 1)
  <2>0. n + 1 \in Nat /\ n + 1 # 0 /\ (n + 1) - 1 = n
    OBVIOUS
  <2>1. IInv /\ IInv' /\ [Next]_vars => (AtMost(n + 1) => AtMost(n + 1)' \/ (~Busy)')
    BY <2>0, StepLess
  <2>2. IInv /\ IInv' /\ <<App>>_vars => (AtMost(n + 1) => AtMost(n)' \/ (~Busy)')
    BY <2>0, StepLess DEF Next
  <2>3. IInv /\ GuardsEnable => (AtMost(n + 1) => ENABLED <<App>>_vars)
    BY <1>1, <2>0
  <2>4. FairSpec /\ []GuardsEnable => (AtMost(n + 1) ~> AtMost(n) \/ ~Busy)
    BY <2>1, <2>2, <2>3, Invariance, PTL DEF FairSpec, Spec
  <2>. QED
    BY <2>4, PTL DEF Ends
<1>4. \E U : Available(U) /\ \A n \in Nat : U[n] <=> Ends(n)
  <2>1. Available(End)
    BY DEF Available
  <2>. QED
    BY <2>1
<1>. QED
  BY <1>2, <1>3, <1>4, FunctionInduction

\* A scan and an erasure that are under way end.
LEMMA BusyEnds == FairSpec /\ []GuardsEnable => (Busy ~> ~Busy)
<1>. DEFINE most == 6 * N + 5
<1>1. most \in Nat
  BY Counted
<1>2. Ends(most)
  BY <1>1, AllEnd
<1>3. IInv => (Busy => AtMost(most))
  BY LeftBounded, TypeParts DEF IInv, AtMost, LeftBounds
<1>. HIDE DEF most
<1>. QED
  BY <1>2, <1>3, Invariance, PTL DEF Ends, FairSpec

\* A scan comes to its end, or the page is left, for any number of systems and whatever
\* the user taps.
THEOREM EveryScanEnds == FairSpec /\ []GuardsEnable => ScanEnds
<1>1. IInv => /\ scanStatus = "start" => Busy \/ pc \in Gone
              /\ ~Busy => scanStatus # "start" \/ pc \in Gone
  BY TypeParts DEF IInv, Places, WorkTyped, Busy, Scanning, Erasing, ShowPoint, Gone
<1>. QED
  BY <1>1, BusyEnds, Invariance, PTL DEF ScanEnds, FairSpec

\* So does an erasure, where the entry type allows it.
THEOREM EveryEraseEnds == FairSpec /\ []GuardsEnable => EraseEnds
<1>1. IInv /\ ErasePlace => /\ clearStatus = "start" /\ car.erases => Busy \/ pc \in Gone
                            /\ car.erases /\ ~Busy => clearStatus # "start" \/ pc \in Gone
  BY DEF ErasePlace, Busy
<1>2. IInv /\ ErasePlace /\ [Next]_vars => (car.erases => (car.erases)')
  BY ErasePlaceKept, TypeParts DEF IInv
<1>. QED
  BY <1>1, <1>2, BusyEnds, EraseAlways, PTL DEF EraseEnds, FairSpec, Spec
=============================================================================
