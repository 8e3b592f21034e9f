---------------------------- MODULE EcuEntryProofs ----------------------------
(* Proofs about EcuEntry, for any lists of tests and any number of runs.   *)
EXTENDS EcuEntry, TemporalInduction, TLAPS

\* Where the test and its link are, and which exchange belongs to which protocol.
Place ==
  /\ pc = "entry" <=> io # "idle"
  /\ link <=> pc \in {"entry", "exit"}
  /\ link => links >= 1
  /\ ~link => queue = <<>> /\ bus = <<>>

Course ==
  pc = "entry" =>
    /\ cmd = "single" => kind = "single"
    /\ cmd = "init" => kind \in {"single", "can", "raw", "mit"}
    /\ cmd = "enter" => kind \in {"can", "pwm", "vpw", "kwp"}
    /\ cmd \in {"wake", "rest"} => kind = "vpw"
    /\ cmd = "quick" => kind \in {"kwp", "honda"}
    /\ cmd \in {"address", "ident"} => kind = "k1281"
    /\ pack <=> kind \notin J1850 /\ cmd # "single"

\* While the loop over all rows runs, the rows it has passed have a verdict.
RowsDone ==
  all =>
    /\ pc \in {"begin", "entry", "exit", "result"}
    /\ \A r \in 1 .. Len(list) : r < at => row[r] \in {"ok", "failed"}

\* In a queue that is emptied with each request there is nothing older than the request.
QueueFresh == clears => \A i \in 1 .. Len(queue) : queue[i].fresh

\* Nothing was taken yet while the program waits.
Waiting == io = "wait" => got = NoFrame

\* A good answer is remembered from its arrival on.
Noted ==
  /\ right # {} => heard >= 1
  /\ got # NoFrame => heard >= 1
  /\ got.good => got.to \in right
  /\ \A i \in 1 .. Len(queue) : queue[i].good => queue[i].to \in right

\* How many frames came on the link: those in the queue, the one taken in this exchange,
\* and one more if the exchange before it needed an answer.
Second == cmd = "ident" \/ (cmd = "enter" /\ kind = "can")
Taken == io = "done" /\ got # NoFrame

Heard ==
  pc = "entry" =>
    /\ heard >= Len(queue)
    /\ Second \/ Taken => heard >= Len(queue) + 1
    /\ Second /\ Taken => heard >= Len(queue) + 2
    /\ cmd = "ident" => "address" \in right
    /\ cmd = "rest" => "enter" \in right

\* How often a silent unit was asked before the exchange the entry is in, and in it.
Earlier ==
  CASE kind = "single" /\ cmd = "init" -> 3
    [] kind \in {"kwp", "vpw"} /\ cmd = "enter" -> 1
    [] kind \in {"honda", "k1281"} -> attempt
    [] kind = "mit" -> 3 * attempt
    [] OTHER -> 0
Asked == IF io = "send" THEN try ELSE try + 1

Count ==
  pc = "entry" =>
    /\ ~Repeats => try = 0
    /\ kind \in {"honda", "mit"} => attempt <= 1
    /\ heard = 0 => sent = Earlier + Asked
    /\ heard = 0 /\ io = "done" => try = IF Repeats THEN 2 ELSE 0

\* Request q leaves in the form a unit of kind k reads.
Fits(k, q) == q.form = IF <<k, q.cmd>> \in Unpacked THEN "raw" ELSE "packed"

IInv ==
  /\ TypeOK /\ Place /\ Course /\ RowsDone
  /\ QueueFresh /\ AnswersFresh
  /\ Waiting /\ Noted /\ Heard /\ PassHeard
  /\ Count /\ SilentGivenUp
  /\ WellFormed /\ NothingLeft

\* The type invariant in four parts: the page, the test and its link, the exchange, and
\* what is on its way.
PageTyped ==
  /\ list \in Lists
  /\ row \in [1 .. Len(list) -> {"blank", "testing", "ok", "failed"}]
  /\ button \in BOOLEAN
  /\ runs \in 0 .. MaxRuns
  /\ at \in 1 .. Len(list)
  /\ all \in BOOLEAN

LinkTyped ==
  /\ pc \in {"main", "begin", "entry", "exit", "result", "left"}
  /\ ok \in BOOLEAN
  /\ link \in BOOLEAN /\ pack \in BOOLEAN /\ clears \in BOOLEAN /\ keep \in BOOLEAN
  /\ links \in Nat

ExchangeTyped ==
  /\ cmd \in Command
  /\ io \in {"idle", "send", "wait", "done"}
  /\ try \in 0 .. 2 /\ attempt \in 0 .. 2

WireTyped ==
  /\ got \in Frame \cup {NoFrame}
  /\ queue \in Seq(Frame)
  /\ bus \in Seq(Request)
  /\ sent \in Nat /\ heard \in Nat /\ right \subseteq Command
-----------------------------------------------------------------------------
(* Operators.                                                              *)

LEMMA IInvParts ==
  ASSUME IInv
  PROVE  /\ TypeOK /\ Place /\ Course /\ RowsDone
         /\ QueueFresh /\ AnswersFresh
         /\ Waiting /\ Noted /\ Heard /\ PassHeard
         /\ Count /\ SilentGivenUp
         /\ WellFormed /\ NothingLeft
BY DEF IInv

LEMMA TypeParts == TypeOK <=> PageTyped /\ LinkTyped /\ ExchangeTyped /\ WireTyped
BY DEF TypeOK, PageTyped, LinkTyped, ExchangeTyped, WireTyped

LEMMA ListTyped == ASSUME TypeOK PROVE list \in Seq(0 .. 10) /\ Len(list) >= 1
BY EntryAssumption DEF TypeOK

LEMMA KindTyped == ASSUME TypeOK PROVE kind \in Kind
<1>1. list[at] \in 0 .. 10
  BY ListTyped DEF TypeOK
<1>2. \A i \in 0 .. 10 : TestSingleEcu[i] \in Kind
  BY DEF TestSingleEcu, Kind
<1> QED
  BY <1>1, <1>2 DEF kind

LEMMA KindKept == ASSUME list' = list, at' = at PROVE kind' = kind
BY DEF kind

\* What the entries have in common, whichever exchange is over.
LEMMA EntryStep ==
  ASSUME TypeOK, CanEntry \/ J1850Entry \/ KLineEntry
  PROVE  /\ pc = "entry" /\ io = "done"
         /\ EntryFrame
         /\ \/ io' = "send" /\ try' = 0 /\ cmd' \in Command /\ pc' = pc
            \/ io' = "idle" /\ pc' = "exit" /\ cmd' = cmd /\ try' = try
         /\ keep' = keep \/ (keep' = TRUE /\ kind = "k1281")
         /\ pack' = pack \/ pack' = TRUE
         /\ attempt' = attempt \/ (attempt' = attempt + 1 /\ attempt < 2)
<1>0. attempt \in 0 .. 2
  BY DEF TypeOK
<1>1. CASE SingleCanDone
  BY <1>1
     DEF SingleCanDone, Over, Ask, Return, Command
<1>2. CASE CanInitDone
  BY <1>2
     DEF CanInitDone, Over, Ask, Return, Silence, Command
<1>3. CASE EnterDone
  BY <1>3
     DEF EnterDone, Over, Ask, Return, Silence, Command
<1>4. CASE PwmDone
  BY <1>4
     DEF PwmDone, Over, Ask, Return, Answered, Command
<1>5. CASE VpwWakeDone
  BY <1>5
     DEF VpwWakeDone, Over, Ask, Return, Command
<1>6. CASE VpwDone
  BY <1>6
     DEF VpwDone, Over, Ask, Return, Answered, Command
<1>7. CASE VpwRestDone
  BY <1>7
     DEF VpwRestDone, Over, Ask, Return, Command
<1>8. CASE KwpQuickDone
  BY <1>8
     DEF KwpQuickDone, Over, Ask, Return, Command
<1>9. CASE HondaDone
  BY <1>9, <1>0
     DEF HondaDone, Over, Ask, Return, Again, Silence, Answered, Command
<1>10. CASE MitDone
  BY <1>10, <1>0
     DEF MitDone, Over, Ask, Return, Again, Silence, Command
<1>11. CASE AddressDone
  BY <1>11, <1>0
     DEF AddressDone, Over, Ask, Return, Again, Answered, Command
<1>12. CASE IdentDone
  BY <1>12, <1>0
     DEF IdentDone, Over, Ask, Return, Again, Silence, Command
<1> QED
  BY <1>1, <1>2, <1>3, <1>4, <1>5, <1>6, <1>7, <1>8, <1>9, <1>10, <1>11, <1>12
     DEF CanEntry, J1850Entry, KLineEntry

LEMMA EntryVerdict ==
  ASSUME TypeOK, CanEntry \/ J1850Entry \/ KLineEntry
  PROVE  ok' \in BOOLEAN
<1>1. ok \in BOOLEAN
  BY DEF TypeOK
<1>2. CASE CanEntry
  BY <1>1, <1>2, Zenon
     DEF CanEntry, SingleCanDone, CanInitDone, EnterDone, Ask, Return, Silence
<1>3. CASE J1850Entry
  BY <1>1, <1>3, Zenon
     DEF J1850Entry, PwmDone, VpwWakeDone, VpwDone, VpwRestDone, Ask, Return, Answered
<1>4. CASE KLineEntry
  BY <1>1, <1>4, Zenon
     DEF KLineEntry, KwpQuickDone, HondaDone, MitDone, AddressDone, IdentDone, Again,
         Ask, Return, Silence, Answered
<1> QED
  BY <1>2, <1>3, <1>4

LEMMA OlderTyped ==
  ASSUME TypeOK, NEW set \in BOOLEAN
  PROVE  /\ QueueOnSend(set) \in Seq(Frame)
         /\ Len(QueueOnSend(set)) <= Len(queue)
         /\ set => QueueOnSend(set) = <<>>
         /\ \A i \in 1 .. Len(QueueOnSend(set)) :
              /\ QueueOnSend(set)[i].to = queue[i].to
              /\ QueueOnSend(set)[i].good = queue[i].good
<1>1. CASE set
  BY <1>1 DEF QueueOnSend, TypeOK
<1>2. CASE ~set
  <2>1. \A j \in 1 .. Len(queue) : queue[j] \in Frame
    BY DEF TypeOK
  <2>2. \A j \in 1 .. Len(queue) : [queue[j] EXCEPT !.fresh = FALSE] \in Frame
    BY <2>1 DEF Frame
  <2>3. Len(queue) \in Nat /\ Older(queue) \in Seq(Frame) /\ Len(Older(queue)) = Len(queue)
    BY <2>2 DEF TypeOK, Older
  <2>4. \A j \in 1 .. Len(queue) :
          Older(queue)[j].to = queue[j].to /\ Older(queue)[j].good = queue[j].good
    BY <2>1 DEF Older, Frame
  <2> QED
    BY <1>2, <2>3, <2>4 DEF QueueOnSend
<1> QED
  BY <1>1, <1>2
-----------------------------------------------------------------------------
(* The type invariant.                                                     *)

LEMMA PageTypedKept ==
  ASSUME IInv, [Next]_vars
  PROVE  PageTyped'
<1>1. ASSUME NEW r \in 1 .. Len(list), TestRow(r) PROVE PageTyped'
  <2>1. row' \in [1 .. Len(list) -> {"blank", "testing", "ok", "failed"}]
    BY <1>1, IInvParts, TypeParts DEF TestRow, PageTyped
  <2>2. list' = list /\ at' \in 1 .. Len(list) /\ runs' \in 0 .. MaxRuns
    BY <1>1, IInvParts, TypeParts, EntryAssumption DEF TestRow, PageTyped
  <2>3. button' \in BOOLEAN /\ all' \in BOOLEAN
    BY <1>1, IInvParts, TypeParts DEF TestRow, PageTyped
  <2> QED
    BY <2>1, <2>2, <2>3, IInvParts, TypeParts DEF PageTyped
<1>2. CASE TestAll
  <2>1. row' \in [1 .. Len(list) -> {"blank", "testing", "ok", "failed"}]
    BY <1>2, IInvParts, TypeParts, ListTyped DEF TestAll, PageTyped
  <2>2. list' = list /\ at' \in 1 .. Len(list) /\ runs' \in 0 .. MaxRuns
    BY <1>2, IInvParts, TypeParts, ListTyped, EntryAssumption DEF TestAll, PageTyped
  <2>3. button' \in BOOLEAN /\ all' \in BOOLEAN
    BY <1>2, Zenon DEF TestAll
  <2> QED
    BY <2>1, <2>2, <2>3, IInvParts, TypeParts DEF PageTyped
<1>3. CASE NextRow
  BY <1>3, TypeParts, IInvParts
     DEF NextRow, LastRow, Shown, testVars, PageTyped
<1>4. CASE EndTest
  BY <1>4, TypeParts, IInvParts
     DEF EndTest, LastRow, Shown, testVars, PageTyped
<1>5. CASE
      \/ UNCHANGED vars
      \/ Leave
      \/ EnterSystem
      \/ Send
      \/ Receive
      \/ Timeout
      \/ CanEntry \/ J1850Entry \/ KLineEntry
      \/ ExitSystem
      \/ PwmReturn
      \/ EcuSilent
      \/ \E good \in BOOLEAN : EcuAnswers(good)
  <2>1. UNCHANGED <<list, row, button, runs, at, all>>
    BY <1>5, EntryStep, IInvParts
       DEF vars, Leave, EnterSystem, Send, Receive, Timeout, ExitSystem, PwmReturn,
           EcuSilent, EcuAnswers, Detach, EntryFrame, pageVars, testVars, linkVars,
           exchangeVars, pastVars
  <2> QED
    BY <2>1, IInvParts, TypeParts
       DEF PageTyped
<1> QED
  BY <1>1, <1>2, <1>3, <1>4, <1>5
     DEF Next, User, Program, Ecu

LEMMA LinkTypedKept ==
  ASSUME IInv, [Next]_vars
  PROVE  LinkTyped'
<1>1. CASE Leave
  BY <1>1, TypeParts, IInvParts
     DEF Leave, linkVars, LinkTyped
<1>2. ASSUME NEW r \in 1 .. Len(list), TestRow(r) PROVE LinkTyped'
  BY <1>2, TypeParts, IInvParts
     DEF TestRow, linkVars, LinkTyped
<1>3. CASE TestAll
  BY <1>3, TypeParts, IInvParts
     DEF TestAll, linkVars, LinkTyped
<1>4. CASE EnterSystem
  <2>1. pack' \in BOOLEAN
    BY <1>4, Zenon DEF EnterSystem
  <2>2. pc' = "entry" /\ link' = TRUE /\ clears' = FALSE /\ keep' = FALSE /\ ok' = ok
    BY <1>4 DEF EnterSystem
  <2>3. links' \in Nat
    BY <1>4, IInvParts, TypeParts DEF EnterSystem, LinkTyped
  <2> QED
    BY <2>1, <2>2, <2>3, IInvParts, TypeParts DEF LinkTyped
<1>5. CASE Send
  <2>1. clears' \in BOOLEAN
    BY <1>5, IInvParts, TypeParts, Zenon DEF Send, LinkTyped
  <2> QED
    BY <1>5, <2>1, IInvParts, TypeParts DEF Send, testVars, LinkTyped
<1>6. CASE CanEntry \/ J1850Entry \/ KLineEntry
  <2>1. ok' \in BOOLEAN
    BY <1>6, IInvParts, EntryVerdict
  <2>2. UNCHANGED <<link, clears, links>> /\ pc' \in {pc, "exit"} /\ keep' \in {keep, TRUE}
        /\ pack' \in {pack, TRUE}
    BY <1>6, IInvParts, EntryStep DEF EntryFrame
  <2> QED
    BY <2>1, <2>2, IInvParts, TypeParts DEF LinkTyped
<1>7. CASE ExitSystem
  <2>1. links >= 1
    BY <1>7, IInvParts DEF ExitSystem, Detach, Place
  <2>2. links' \in Nat
    BY <1>7, <2>1, IInvParts, TypeParts DEF ExitSystem, LinkTyped
  <2>3. pc' = "result" /\ link' = FALSE /\ keep' = FALSE /\ UNCHANGED <<ok, pack, clears>>
    BY <1>7 DEF ExitSystem, Detach
  <2> QED
    BY <2>2, <2>3, IInvParts, TypeParts DEF LinkTyped
<1>8. CASE PwmReturn
  BY <1>8, TypeParts, IInvParts
     DEF PwmReturn, Place, Detach, LinkTyped
<1>9. CASE NextRow
  BY <1>9, TypeParts, IInvParts
     DEF NextRow, linkVars, LinkTyped
<1>10. CASE EndTest
  BY <1>10, TypeParts, IInvParts
     DEF EndTest, linkVars, LinkTyped
<1>11. CASE
      \/ UNCHANGED vars
      \/ Receive
      \/ Timeout
      \/ EcuSilent
      \/ \E good \in BOOLEAN : EcuAnswers(good)
  <2>1. UNCHANGED <<pc, ok, link, pack, clears, keep, links>>
    BY <1>11
       DEF vars, Receive, Timeout, EcuSilent, EcuAnswers, pageVars, testVars, linkVars,
           exchangeVars, pastVars
  <2> QED
    BY <2>1, IInvParts, TypeParts
       DEF LinkTyped
<1> QED
  BY <1>1, <1>2, <1>3, <1>4, <1>5, <1>6, <1>7, <1>8, <1>9, <1>10, <1>11
     DEF Next, User, Program, Ecu

LEMMA ExchangeTypedKept ==
  ASSUME IInv, [Next]_vars
  PROVE  ExchangeTyped'
<1>1. CASE EnterSystem
  BY <1>1, KindTyped, TypeParts, IInvParts
     DEF EnterSystem, FirstCommand, Kind, Command, ExchangeTyped
<1>2. CASE Send
  BY <1>2, TypeParts, IInvParts
     DEF Send, ExchangeTyped
<1>3. CASE Receive
  BY <1>3, TypeParts, IInvParts
     DEF Receive, ExchangeTyped
<1>4. CASE Timeout
  <2>1. io' \in {"send", "done"} /\ UNCHANGED <<cmd, attempt>>
    BY <1>4 DEF Timeout
  <2>2. try' = try \/ (try < 2 /\ try' = try + 1)
    BY <1>4 DEF Timeout
  <2> QED
    BY <2>1, <2>2, IInvParts, TypeParts DEF ExchangeTyped
<1>5. CASE CanEntry \/ J1850Entry \/ KLineEntry
  <2>1. /\ io' \in {"send", "idle"}
        /\ try' \in {0, try}
        /\ cmd' = cmd \/ cmd' \in Command
        /\ attempt' = attempt \/ (attempt' = attempt + 1 /\ attempt < 2)
    BY <1>5, IInvParts, EntryStep
  <2> QED
    BY <2>1, IInvParts, TypeParts DEF ExchangeTyped
<1>6. CASE
      \/ UNCHANGED vars
      \/ Leave
      \/ \E r \in 1 .. Len(list) : TestRow(r)
      \/ TestAll
      \/ ExitSystem
      \/ PwmReturn
      \/ NextRow
      \/ EndTest
      \/ EcuSilent
      \/ \E good \in BOOLEAN : EcuAnswers(good)
  <2>1. UNCHANGED <<cmd, io, try, attempt>>
    BY <1>6
       DEF vars, Leave, TestRow, TestAll, ExitSystem, PwmReturn, NextRow, EndTest,
           EcuSilent, EcuAnswers, Detach, pageVars, testVars, linkVars, exchangeVars,
           pastVars
  <2> QED
    BY <2>1, IInvParts, TypeParts
       DEF ExchangeTyped
<1> QED
  BY <1>1, <1>2, <1>3, <1>4, <1>5, <1>6
     DEF Next, User, Program, Ecu

LEMMA WireTypedKept ==
  ASSUME IInv, [Next]_vars
  PROVE  WireTyped'
<1>1. CASE EnterSystem
  BY <1>1, TypeParts, IInvParts
     DEF EnterSystem, WireTyped
<1>2. CASE Send
  <2>1. clears' \in BOOLEAN
    BY <1>2, IInvParts, TypeParts, Zenon DEF Send, LinkTyped
  <2>2. queue' \in Seq(Frame)
    BY <1>2, <2>1, IInvParts, OlderTyped DEF Send
  <2>3. [cmd |-> cmd, form |-> Form] \in Request
    BY IInvParts, TypeParts DEF ExchangeTyped, Request, Form
  <2>4. bus' \in Seq(Request) /\ sent' \in Nat
    BY <1>2, <2>3, IInvParts, TypeParts DEF Send, WireTyped
  <2> QED
    BY <1>2, <2>2, <2>4, IInvParts, TypeParts DEF Send, WireTyped
<1>3. CASE Receive
  <2>1. got' \in Frame /\ queue' \in Seq(Frame)
    BY <1>3, IInvParts, TypeParts DEF Receive, WireTyped
  <2> QED
    BY <1>3, <2>1, IInvParts, TypeParts DEF Receive, pastVars, WireTyped
<1>4. CASE ExitSystem
  BY <1>4, TypeParts, IInvParts
     DEF ExitSystem, Detach, pastVars, WireTyped
<1>5. CASE PwmReturn
  BY <1>5, TypeParts, IInvParts
     DEF PwmReturn, Detach, pastVars, WireTyped
<1>6. CASE EcuSilent
  <2>1. bus' \in Seq(Request)
    BY <1>6, IInvParts, TypeParts DEF EcuSilent, WireTyped
  <2>2. UNCHANGED <<got, queue, sent, heard, right>>
    BY <1>6 DEF EcuSilent, pastVars
  <2> QED
    BY <2>1, <2>2, IInvParts, TypeParts DEF WireTyped
<1>7. ASSUME NEW good \in BOOLEAN, EcuAnswers(good) PROVE WireTyped'
  <2>1. Head(bus) \in Request /\ bus' \in Seq(Request)
    BY <1>7, IInvParts, TypeParts DEF EcuAnswers, WireTyped
  <2>2. Head(bus).cmd \in Command
    BY <2>1 DEF Request
  <2>3. [to |-> Head(bus).cmd, good |-> good, fresh |-> TRUE] \in Frame
    BY <2>2 DEF Frame
  <2>4. queue' \in Seq(Frame)
    BY <1>7, <2>3, IInvParts, TypeParts DEF EcuAnswers, WireTyped
  <2>5. right' \subseteq Command
    BY <1>7, <2>2, IInvParts, TypeParts DEF EcuAnswers, WireTyped
  <2>6. got' = got /\ sent' = sent /\ heard' = heard + 1
    BY <1>7 DEF EcuAnswers
  <2> QED
    BY <2>1, <2>4, <2>5, <2>6, IInvParts, TypeParts DEF WireTyped
<1>8. CASE
      \/ UNCHANGED vars
      \/ Leave
      \/ \E r \in 1 .. Len(list) : TestRow(r)
      \/ TestAll
      \/ Timeout
      \/ CanEntry \/ J1850Entry \/ KLineEntry
      \/ NextRow
      \/ EndTest
  <2>1. UNCHANGED <<got, queue, bus, sent, heard, right>>
    BY <1>8, EntryStep, IInvParts
       DEF vars, Leave, TestRow, TestAll, Timeout, NextRow, EndTest, EntryFrame,
           pageVars, testVars, linkVars, exchangeVars, pastVars
  <2> QED
    BY <2>1, IInvParts, TypeParts
       DEF WireTyped
<1> QED
  BY <1>1, <1>2, <1>3, <1>4, <1>5, <1>6, <1>7, <1>8
     DEF Next, User, Program, Ecu

LEMMA TypeKept == ASSUME IInv, [Next]_vars PROVE TypeOK'
<1>1. PageTyped' /\ LinkTyped' /\ ExchangeTyped' /\ WireTyped'
  BY PageTypedKept, LinkTypedKept, ExchangeTypedKept, WireTypedKept
<1> QED
  BY <1>1 DEF TypeOK, PageTyped, LinkTyped, ExchangeTyped, WireTyped

-----------------------------------------------------------------------------
(* The test, its link and the page.                                        *)

LEMMA PlaceKept ==
  ASSUME IInv, [Next]_vars
  PROVE  Place'
<1>1. CASE Leave
  BY <1>1, IInvParts
     DEF Leave, linkVars, exchangeVars, Place
<1>2. ASSUME NEW r \in 1 .. Len(list), TestRow(r) PROVE Place'
  BY <1>2, IInvParts
     DEF TestRow, linkVars, exchangeVars, Place
<1>3. CASE TestAll
  BY <1>3, IInvParts
     DEF TestAll, linkVars, exchangeVars, Place
<1>4. CASE EnterSystem
  BY <1>4, TypeParts, IInvParts
     DEF EnterSystem, LinkTyped, Place
<1>5. CASE Send
  BY <1>5, IInvParts
     DEF Send, testVars, linkVars, Place
<1>6. CASE Receive
  BY <1>6, IInvParts
     DEF Receive, testVars, linkVars, Place
<1>7. CASE Timeout
  BY <1>7, IInvParts
     DEF Timeout, testVars, linkVars, Place
<1>8. CASE CanEntry \/ J1850Entry \/ KLineEntry
  <2>1. /\ pc = "entry" /\ io = "done"
        /\ (io' = "send" /\ pc' = pc) \/ (io' = "idle" /\ pc' = "exit")
    BY <1>8, IInvParts, EntryStep
  <2>2. UNCHANGED <<link, links, queue, bus>>
    BY <1>8, IInvParts, EntryStep DEF EntryFrame
  <2> QED
    BY <2>1, <2>2, IInvParts DEF Place
<1>9. CASE ExitSystem
  BY <1>9, IInvParts
     DEF ExitSystem, Detach, Place
<1>10. CASE PwmReturn
  BY <1>10, IInvParts
     DEF PwmReturn, Detach, Place
<1>11. CASE NextRow
  BY <1>11, IInvParts
     DEF NextRow, linkVars, exchangeVars, Place
<1>12. CASE EndTest
  BY <1>12, IInvParts
     DEF EndTest, linkVars, exchangeVars, Place
<1>13. CASE EcuSilent
  BY <1>13, IInvParts
     DEF EcuSilent, linkVars, testVars, Place
<1>14. ASSUME NEW good \in BOOLEAN, EcuAnswers(good) PROVE Place'
  BY <1>14, IInvParts
     DEF EcuAnswers, linkVars, testVars, Place
<1>15. CASE
      \/ UNCHANGED vars
  <2>1. UNCHANGED <<pc, io, link, links, queue, bus>>
    BY <1>15
       DEF vars, pageVars, testVars, linkVars, exchangeVars, pastVars
  <2> QED
    BY <2>1, IInvParts
       DEF Place
<1> QED
  BY <1>1, <1>2, <1>3, <1>4, <1>5, <1>6, <1>7, <1>8, <1>9, <1>10, <1>11, <1>12, <1>13,
     <1>14, <1>15
     DEF Next, User, Program, Ecu

LEMMA CourseKept ==
  ASSUME IInv, [Next]_vars
  PROVE  Course'
<1>1. CASE Leave
  BY <1>1, IInvParts
     DEF Leave, Course
<1>2. ASSUME NEW r \in 1 .. Len(list), TestRow(r) PROVE Course'
  BY <1>2, IInvParts
     DEF TestRow, Course
<1>3. CASE TestAll
  BY <1>3, IInvParts
     DEF TestAll, Course
<1>4. CASE EnterSystem
  <2>1. kind' = kind /\ kind \in Kind
    BY <1>4, IInvParts, KindKept, KindTyped DEF EnterSystem, pageVars
  <2> QED
    BY <1>4, <2>1 DEF EnterSystem, FirstCommand, Kind, J1850, Course
<1>5. CASE SingleCanDone
  <2>1. kind' = kind
    BY <1>5, KindKept DEF SingleCanDone, EntryFrame, pageVars
  <2> QED
    BY <1>5, <2>1, IInvParts
       DEF SingleCanDone, Over, Ask, Return, J1850, Course
<1>6. CASE CanInitDone
  <2>1. kind' = kind
    BY <1>6, KindKept DEF CanInitDone, EntryFrame, pageVars
  <2> QED
    BY <1>6, <2>1, IInvParts
       DEF CanInitDone, Over, Ask, Return, J1850, Course
<1>7. CASE EnterDone
  <2>1. kind' = kind
    BY <1>7, KindKept DEF EnterDone, EntryFrame, pageVars
  <2> QED
    BY <1>7, <2>1, IInvParts
       DEF EnterDone, Over, Ask, Return, J1850, Course
<1>8. CASE PwmDone
  <2>1. kind' = kind
    BY <1>8, KindKept DEF PwmDone, EntryFrame, pageVars
  <2> QED
    BY <1>8, <2>1, IInvParts
       DEF PwmDone, Over, Ask, Return, J1850, Course
<1>9. CASE VpwWakeDone
  <2>1. kind' = kind
    BY <1>9, KindKept DEF VpwWakeDone, EntryFrame, pageVars
  <2> QED
    BY <1>9, <2>1, IInvParts
       DEF VpwWakeDone, Over, Ask, Return, J1850, Course
<1>10. CASE VpwDone
  <2>1. kind' = kind
    BY <1>10, KindKept DEF VpwDone, EntryFrame, pageVars
  <2> QED
    BY <1>10, <2>1, IInvParts
       DEF VpwDone, Over, Ask, Return, J1850, Course
<1>11. CASE VpwRestDone
  <2>1. kind' = kind
    BY <1>11, KindKept DEF VpwRestDone, EntryFrame, pageVars
  <2> QED
    BY <1>11, <2>1, IInvParts
       DEF VpwRestDone, Over, Ask, Return, J1850, Course
<1>12. CASE KwpQuickDone
  <2>1. kind' = kind
    BY <1>12, KindKept DEF KwpQuickDone, EntryFrame, pageVars
  <2> QED
    BY <1>12, <2>1, IInvParts
       DEF KwpQuickDone, Over, Ask, Return, J1850, Course
<1>13. CASE HondaDone
  <2>1. kind' = kind
    BY <1>13, KindKept DEF HondaDone, EntryFrame, pageVars
  <2> QED
    BY <1>13, <2>1, IInvParts
       DEF HondaDone, Over, Ask, Return, Again, J1850, Course
<1>14. CASE MitDone
  <2>1. kind' = kind
    BY <1>14, KindKept DEF MitDone, EntryFrame, pageVars
  <2> QED
    BY <1>14, <2>1, IInvParts
       DEF MitDone, Over, Ask, Return, Again, J1850, Course
<1>15. CASE AddressDone
  <2>1. kind' = kind
    BY <1>15, KindKept DEF AddressDone, EntryFrame, pageVars
  <2> QED
    BY <1>15, <2>1, IInvParts
       DEF AddressDone, Over, Ask, Return, Again, J1850, Course
<1>16. CASE IdentDone
  <2>1. kind' = kind
    BY <1>16, KindKept DEF IdentDone, EntryFrame, pageVars
  <2> QED
    BY <1>16, <2>1, IInvParts
       DEF IdentDone, Over, Ask, Return, Again, J1850, Course
<1>17. CASE ExitSystem
  BY <1>17, IInvParts
     DEF ExitSystem, Detach, Course
<1>18. CASE PwmReturn
  BY <1>18, IInvParts
     DEF PwmReturn, Detach, Course
<1>19. CASE NextRow
  BY <1>19, IInvParts
     DEF NextRow, Course
<1>20. CASE EndTest
  BY <1>20, IInvParts
     DEF EndTest, Course
<1>21. CASE
      \/ UNCHANGED vars
      \/ Send
      \/ Receive
      \/ Timeout
      \/ EcuSilent
      \/ \E good \in BOOLEAN : EcuAnswers(good)
  <2>1. UNCHANGED <<list, at, pc, cmd, pack>>
    BY <1>21
       DEF vars, Send, Receive, Timeout, EcuSilent, EcuAnswers, pageVars, testVars,
           linkVars, exchangeVars, pastVars
  <2> QED
    BY <2>1, IInvParts, KindKept
       DEF Course
<1> QED
  BY <1>1, <1>2, <1>3, <1>4, <1>5, <1>6, <1>7, <1>8, <1>9, <1>10, <1>11, <1>12, <1>13,
     <1>14, <1>15, <1>16, <1>17, <1>18, <1>19, <1>20, <1>21
     DEF Next, User, Program, Ecu, CanEntry, J1850Entry, KLineEntry

LEMMA RowsDoneKept ==
  ASSUME IInv, [Next]_vars
  PROVE  RowsDone'
<1>1. CASE Leave
  BY <1>1, IInvParts
     DEF Leave, pageVars, RowsDone
<1>2. ASSUME NEW r \in 1 .. Len(list), TestRow(r) PROVE RowsDone'
  BY <1>2, IInvParts
     DEF TestRow, RowsDone
<1>3. CASE TestAll
  BY <1>3, TypeParts, IInvParts
     DEF TestAll, PageTyped, RowsDone
<1>4. CASE EnterSystem
  BY <1>4, IInvParts
     DEF EnterSystem, pageVars, RowsDone
<1>5. CASE CanEntry \/ J1850Entry \/ KLineEntry
  BY <1>5, EntryStep, IInvParts
     DEF EntryFrame, pageVars, RowsDone
<1>6. CASE ExitSystem
  BY <1>6, IInvParts
     DEF ExitSystem, Detach, pageVars, RowsDone
<1>7. CASE PwmReturn
  BY <1>7, IInvParts
     DEF PwmReturn, Detach, pageVars, RowsDone
<1>8. CASE NextRow
  BY <1>8, TypeParts, IInvParts
     DEF NextRow, LastRow, Shown, PageTyped, RowsDone
<1>9. CASE EndTest
  BY <1>9, IInvParts
     DEF EndTest, RowsDone
<1>10. CASE
      \/ UNCHANGED vars
      \/ Send
      \/ Receive
      \/ Timeout
      \/ EcuSilent
      \/ \E good \in BOOLEAN : EcuAnswers(good)
  <2>1. UNCHANGED <<list, row, pc, at, all>>
    BY <1>10
       DEF vars, Send, Receive, Timeout, EcuSilent, EcuAnswers, pageVars, testVars,
           linkVars, exchangeVars, pastVars
  <2> QED
    BY <2>1, IInvParts
       DEF RowsDone
<1> QED
  BY <1>1, <1>2, <1>3, <1>4, <1>5, <1>6, <1>7, <1>8, <1>9, <1>10
     DEF Next, User, Program, Ecu

LEMMA WellFormedKept ==
  ASSUME IInv, [Next]_vars
  PROVE  WellFormed'
<1>1. ASSUME NEW r \in 1 .. Len(list), TestRow(r) PROVE WellFormed'
  BY <1>1, IInvParts
     DEF TestRow, Place, linkVars, exchangeVars, WellFormed
<1>2. CASE TestAll
  BY <1>2, IInvParts
     DEF TestAll, Place, linkVars, exchangeVars, WellFormed
<1>3. CASE EnterSystem
  BY <1>3, IInvParts
     DEF EnterSystem, WellFormed
<1>4. CASE Send
  <2>1. kind' = kind /\ pc = "entry" /\ kind \in Kind
    BY <1>4, IInvParts, KindKept, KindTyped DEF Send, pageVars, testVars, Place
  <2>2. Form = IF <<kind, cmd>> \in Unpacked THEN "raw" ELSE "packed"
    BY <2>1, IInvParts, TypeParts
       DEF Form, Unpacked, Course, J1850, Kind, uPackUnPack, ExchangeTyped, Command, LinkTyped
  <2>3. bus \in Seq(Request) /\ bus' = Append(bus, [cmd |-> cmd, form |-> Form])
    BY <1>4, IInvParts, TypeParts DEF Send, WireTyped
  <2>4. Len(bus') = Len(bus) + 1 /\ bus'[Len(bus) + 1] = [cmd |-> cmd, form |-> Form]
        /\ \A i \in 1 .. Len(bus) : bus'[i] = bus[i]
    BY <2>3
  <2>5. Fits(kind, [cmd |-> cmd, form |-> Form])
    BY <2>2 DEF Fits
  <2>6. \A i \in 1 .. Len(bus) : Fits(kind, bus[i])
    BY IInvParts DEF WellFormed, Fits
  <2>7. \A i \in 1 .. Len(bus') : Fits(kind', bus'[i])
    BY <2>1, <2>3, <2>4, <2>5, <2>6
  <2> QED
    BY <2>7 DEF WellFormed, Fits
<1>5. CASE ExitSystem
  BY <1>5, IInvParts
     DEF ExitSystem, Detach, WellFormed
<1>6. CASE PwmReturn
  BY <1>6, IInvParts
     DEF PwmReturn, Detach, WellFormed
<1>7. CASE NextRow
  BY <1>7, IInvParts
     DEF NextRow, Place, linkVars, exchangeVars, WellFormed
<1>8. CASE EcuSilent
  <2>1. kind' = kind
    BY <1>8, KindKept DEF EcuSilent, pageVars, testVars
  <2>2. bus \in Seq(Request) /\ bus # <<>> /\ bus' = Tail(bus)
    BY <1>8, IInvParts, TypeParts DEF EcuSilent, WireTyped
  <2>3. Len(bus) \in Nat /\ Len(bus') = Len(bus) - 1
        /\ \A i \in 1 .. Len(bus') : bus'[i] = bus[i + 1]
    BY <2>2
  <2>4. \A i \in 1 .. Len(bus') : i + 1 \in 1 .. Len(bus)
    BY <2>3
  <2>5. \A i \in 1 .. Len(bus) : Fits(kind, bus[i])
    BY IInvParts DEF WellFormed, Fits
  <2>6. \A i \in 1 .. Len(bus') : Fits(kind', bus'[i])
    BY <2>1, <2>3, <2>4, <2>5
  <2> QED
    BY <2>6 DEF WellFormed, Fits
<1>9. ASSUME NEW good \in BOOLEAN, EcuAnswers(good) PROVE WellFormed'
  <2>1. kind' = kind
    BY <1>9, KindKept DEF EcuAnswers, pageVars, testVars
  <2>2. bus \in Seq(Request) /\ bus # <<>> /\ bus' = Tail(bus)
    BY <1>9, IInvParts, TypeParts DEF EcuAnswers, WireTyped
  <2>3. Len(bus) \in Nat /\ Len(bus') = Len(bus) - 1
        /\ \A i \in 1 .. Len(bus') : bus'[i] = bus[i + 1]
    BY <2>2
  <2>4. \A i \in 1 .. Len(bus') : i + 1 \in 1 .. Len(bus)
    BY <2>3
  <2>5. \A i \in 1 .. Len(bus) : Fits(kind, bus[i])
    BY IInvParts DEF WellFormed, Fits
  <2>6. \A i \in 1 .. Len(bus') : Fits(kind', bus'[i])
    BY <2>1, <2>3, <2>4, <2>5
  <2> QED
    BY <2>6 DEF WellFormed, Fits
<1>10. CASE
      \/ UNCHANGED vars
      \/ Leave
      \/ Receive
      \/ Timeout
      \/ CanEntry \/ J1850Entry \/ KLineEntry
      \/ EndTest
  <2>1. UNCHANGED <<list, at, bus>>
    BY <1>10, EntryStep, IInvParts
       DEF vars, Leave, Receive, Timeout, EndTest, EntryFrame, pageVars, testVars,
           linkVars, exchangeVars, pastVars
  <2> QED
    BY <2>1, IInvParts, KindKept
       DEF WellFormed
<1> QED
  BY <1>1, <1>2, <1>3, <1>4, <1>5, <1>6, <1>7, <1>8, <1>9, <1>10
     DEF Next, User, Program, Ecu

LEMMA NothingLeftKept ==
  ASSUME IInv, [Next]_vars
  PROVE  NothingLeft'
<1>1. ASSUME NEW r \in 1 .. Len(list), TestRow(r) PROVE NothingLeft'
  <2>1. ~link /\ ~keep
    BY <1>1, IInvParts DEF TestRow, Place, NothingLeft
  <2>2. UNCHANGED <<list, keep, link, links>>
    BY <1>1 DEF TestRow, linkVars
  <2> QED
    BY <2>1, <2>2, IInvParts DEF NothingLeft
<1>2. CASE TestAll
  <2>1. ~link /\ ~keep
    BY <1>2, IInvParts DEF TestAll, Place, NothingLeft
  <2>2. UNCHANGED <<list, keep, link, links>>
    BY <1>2 DEF TestAll, linkVars
  <2> QED
    BY <2>1, <2>2, IInvParts DEF NothingLeft
<1>3. CASE EnterSystem
  <2>1. ~link
    BY <1>3, IInvParts DEF EnterSystem, Place
  <2> QED
    BY <1>3, <2>1, IInvParts DEF EnterSystem, pageVars, NothingLeft
<1>4. CASE CanEntry \/ J1850Entry \/ KLineEntry
  <2>1. UNCHANGED <<list, at, link, links>> /\ link
    BY <1>4, IInvParts, EntryStep DEF EntryFrame, pageVars, Place
  <2>2. keep' = keep \/ (keep' = TRUE /\ kind = "k1281")
    BY <1>4, IInvParts, EntryStep
  <2> QED
    BY <2>1, <2>2, KindKept, IInvParts DEF NothingLeft
<1>5. CASE ExitSystem
  <2>1. link /\ link' = FALSE /\ links' = links - 1 /\ keep' = FALSE /\ list' = list
    BY <1>5, IInvParts DEF ExitSystem, Detach, Place, pageVars
  <2> QED
    BY <2>1, IInvParts DEF NothingLeft
<1>6. CASE PwmReturn
  <2>1. TestSingleEcu[list[at]] = "pwm" /\ at \in 1 .. Len(list)
    BY <1>6, IInvParts, TypeParts DEF PwmReturn, kind, PageTyped
  <2>2. ~keep
    BY <1>6, IInvParts DEF PwmReturn, NothingLeft
  <2>3. keep' = keep /\ list' = list
    BY <1>6 DEF PwmReturn, Detach, pageVars
  <2> QED
    BY <2>1, <2>2, <2>3 DEF NothingLeft
<1>7. CASE NextRow
  <2>1. ~link /\ ~keep
    BY <1>7, IInvParts DEF NextRow, Place, NothingLeft
  <2>2. UNCHANGED <<list, keep, link, links>>
    BY <1>7 DEF NextRow, linkVars
  <2> QED
    BY <2>1, <2>2, IInvParts DEF NothingLeft
<1>8. CASE
      \/ UNCHANGED vars
      \/ Leave
      \/ Send
      \/ Receive
      \/ Timeout
      \/ EndTest
      \/ EcuSilent
      \/ \E good \in BOOLEAN : EcuAnswers(good)
  <2>1. UNCHANGED <<list, at, keep, link, links>>
    BY <1>8
       DEF vars, Leave, Send, Receive, Timeout, EndTest, EcuSilent, EcuAnswers,
           pageVars, testVars, linkVars, exchangeVars, pastVars
  <2> QED
    BY <2>1, IInvParts, KindKept
       DEF NothingLeft
<1> QED
  BY <1>1, <1>2, <1>3, <1>4, <1>5, <1>6, <1>7, <1>8
     DEF Next, User, Program, Ecu

-----------------------------------------------------------------------------
(* What the link receives.                                                 *)

LEMMA QueueFreshKept ==
  ASSUME IInv, [Next]_vars
  PROVE  QueueFresh'
<1>1. CASE EnterSystem
  BY <1>1, IInvParts
     DEF EnterSystem, QueueFresh
<1>2. CASE Send
  <2>1. clears' => queue' = <<>>
    BY <1>2 DEF Send, QueueOnSend
  <2> QED
    BY <2>1 DEF QueueFresh
<1>3. CASE Receive
  <2>1. queue \in Seq(Frame) /\ queue # <<>> /\ queue' = Tail(queue) /\ clears' = clears
    BY <1>3, IInvParts, TypeParts DEF Receive, WireTyped, linkVars
  <2>2. Len(queue) \in Nat /\ Len(queue') = Len(queue) - 1
        /\ \A i \in 1 .. Len(queue') : queue'[i] = queue[i + 1]
    BY <2>1
  <2> QED
    BY <2>1, <2>2, IInvParts DEF QueueFresh
<1>4. CASE ExitSystem
  BY <1>4, IInvParts
     DEF ExitSystem, Detach, QueueFresh
<1>5. CASE PwmReturn
  BY <1>5, IInvParts
     DEF PwmReturn, Detach, QueueFresh
<1>6. ASSUME NEW good \in BOOLEAN, EcuAnswers(good) PROVE QueueFresh'
  <2> DEFINE a == [to |-> Head(bus).cmd, good |-> good, fresh |-> TRUE]
  <2>1. queue \in Seq(Frame) /\ queue' = Append(queue, a) /\ clears' = clears
    BY <1>6, IInvParts, TypeParts DEF EcuAnswers, WireTyped, linkVars
  <2>2. a.fresh
    OBVIOUS
  <2> HIDE DEF a
  <2>3. Len(queue') = Len(queue) + 1 /\ queue'[Len(queue) + 1] = a
        /\ \A i \in 1 .. Len(queue) : queue'[i] = queue[i]
    BY <2>1
  <2> QED
    BY <2>1, <2>2, <2>3, IInvParts DEF QueueFresh
<1>7. CASE
      \/ UNCHANGED vars
      \/ Leave
      \/ \E r \in 1 .. Len(list) : TestRow(r)
      \/ TestAll
      \/ Timeout
      \/ CanEntry \/ J1850Entry \/ KLineEntry
      \/ NextRow
      \/ EndTest
      \/ EcuSilent
  <2>1. UNCHANGED <<clears, queue>>
    BY <1>7, EntryStep, IInvParts
       DEF vars, Leave, TestRow, TestAll, Timeout, NextRow, EndTest, EcuSilent,
           EntryFrame, pageVars, testVars, linkVars, exchangeVars, pastVars
  <2> QED
    BY <2>1, IInvParts
       DEF QueueFresh
<1> QED
  BY <1>1, <1>2, <1>3, <1>4, <1>5, <1>6, <1>7
     DEF Next, User, Program, Ecu

LEMMA AnswersFreshKept ==
  ASSUME IInv, [Next]_vars
  PROVE  AnswersFresh'
<1>1. CASE EnterSystem
  BY <1>1, IInvParts
     DEF EnterSystem, AnswersFresh
<1>2. CASE Send
  BY <1>2, IInvParts
     DEF Send, AnswersFresh
<1>3. CASE Receive
  <2>1. queue \in Seq(Frame) /\ queue # <<>> /\ got' = queue[1] /\ clears' = clears
    BY <1>3, IInvParts, TypeParts DEF Receive, WireTyped, linkVars
  <2>2. 1 \in 1 .. Len(queue)
    BY <2>1
  <2> QED
    BY <2>1, <2>2, IInvParts DEF AnswersFresh, QueueFresh
<1>4. CASE
      \/ UNCHANGED vars
      \/ Leave
      \/ \E r \in 1 .. Len(list) : TestRow(r)
      \/ TestAll
      \/ Timeout
      \/ CanEntry \/ J1850Entry \/ KLineEntry
      \/ ExitSystem
      \/ PwmReturn
      \/ NextRow
      \/ EndTest
      \/ EcuSilent
      \/ \E good \in BOOLEAN : EcuAnswers(good)
  <2>1. UNCHANGED <<clears, got>>
    BY <1>4, EntryStep, IInvParts
       DEF vars, Leave, TestRow, TestAll, Timeout, ExitSystem, PwmReturn, NextRow,
           EndTest, EcuSilent, EcuAnswers, Detach, EntryFrame, pageVars, testVars,
           linkVars, exchangeVars, pastVars
  <2> QED
    BY <2>1, IInvParts
       DEF AnswersFresh
<1> QED
  BY <1>1, <1>2, <1>3, <1>4
     DEF Next, User, Program, Ecu

LEMMA NotedKept ==
  ASSUME IInv, [Next]_vars
  PROVE  Noted'
<1>1. CASE EnterSystem
  BY <1>1, IInvParts
     DEF EnterSystem, NoFrame, Noted
<1>2. CASE Send
  <2>1. queue' = QueueOnSend(clears') /\ got' = NoFrame /\ right' = right /\ heard' = heard
    BY <1>2 DEF Send
  <2>2. clears' \in BOOLEAN
    BY <1>2, IInvParts, TypeParts, Zenon DEF Send, LinkTyped
  <2>3. queue \in Seq(Frame)
    BY IInvParts, TypeParts DEF WireTyped
  <2>4. /\ queue' \in Seq(Frame)
        /\ Len(queue') <= Len(queue)
        /\ \A i \in 1 .. Len(queue') :
             queue'[i].to = queue[i].to /\ queue'[i].good = queue[i].good
    BY <2>1, <2>2, OlderTyped, IInvParts
  <2>5. \A i \in 1 .. Len(queue') : i \in 1 .. Len(queue)
    BY <2>3, <2>4
  <2> QED
    BY <2>1, <2>4, <2>5, IInvParts DEF Noted, NoFrame
<1>3. CASE Receive
  <2>1. queue \in Seq(Frame) /\ queue # <<>> /\ queue' = Tail(queue) /\ got' = queue[1]
        /\ UNCHANGED <<heard, right>> /\ heard \in Nat
    BY <1>3, IInvParts, TypeParts DEF Receive, WireTyped, pastVars
  <2>2. Len(queue) \in Nat \ {0} /\ Len(queue') = Len(queue) - 1
        /\ \A i \in 1 .. Len(queue') : queue'[i] = queue[i + 1]
    BY <2>1
  <2>3. pc = "entry"
    BY <1>3, IInvParts DEF Receive, Place
  <2>4. heard >= 1
    BY <2>1, <2>2, <2>3, IInvParts DEF Heard, Second, Taken
  <2> QED
    BY <2>1, <2>2, <2>4, IInvParts DEF Noted
<1>4. CASE ExitSystem
  BY <1>4, IInvParts
     DEF ExitSystem, Detach, pastVars, Noted
<1>5. CASE PwmReturn
  BY <1>5, IInvParts
     DEF PwmReturn, Detach, pastVars, Noted
<1>6. ASSUME NEW good \in BOOLEAN, EcuAnswers(good) PROVE Noted'
  <2> DEFINE a == [to |-> Head(bus).cmd, good |-> good, fresh |-> TRUE]
  <2>1. /\ queue \in Seq(Frame) /\ queue' = Append(queue, a) /\ got' = got
        /\ heard' = heard + 1 /\ heard \in Nat
    BY <1>6, IInvParts, TypeParts DEF EcuAnswers, WireTyped
  <2>2. right \subseteq right' /\ (a.good => a.to \in right')
    BY <1>6 DEF EcuAnswers
  <2> HIDE DEF a
  <2>3. Len(queue') = Len(queue) + 1 /\ queue'[Len(queue) + 1] = a
        /\ \A i \in 1 .. Len(queue) : queue'[i] = queue[i]
    BY <2>1
  <2>4. \A i \in 1 .. Len(queue') : queue'[i].good => queue'[i].to \in right'
    BY <2>1, <2>2, <2>3, IInvParts DEF Noted
  <2> QED
    BY <2>1, <2>2, <2>4, IInvParts DEF Noted
<1>7. CASE
      \/ UNCHANGED vars
      \/ Leave
      \/ \E r \in 1 .. Len(list) : TestRow(r)
      \/ TestAll
      \/ Timeout
      \/ CanEntry \/ J1850Entry \/ KLineEntry
      \/ NextRow
      \/ EndTest
      \/ EcuSilent
  <2>1. UNCHANGED <<right, heard, got, queue>>
    BY <1>7, EntryStep, IInvParts
       DEF vars, Leave, TestRow, TestAll, Timeout, NextRow, EndTest, EcuSilent,
           EntryFrame, pageVars, testVars, linkVars, exchangeVars, pastVars
  <2> QED
    BY <2>1, IInvParts
       DEF Noted
<1> QED
  BY <1>1, <1>2, <1>3, <1>4, <1>5, <1>6, <1>7
     DEF Next, User, Program, Ecu

LEMMA WaitingKept ==
  ASSUME IInv, [Next]_vars
  PROVE  Waiting'
<1>1. CASE EnterSystem
  BY <1>1, IInvParts
     DEF EnterSystem, Waiting
<1>2. CASE Send
  BY <1>2, IInvParts
     DEF Send, Waiting
<1>3. CASE Receive
  BY <1>3, IInvParts
     DEF Receive, Waiting
<1>4. CASE Timeout
  BY <1>4, IInvParts
     DEF Timeout, Waiting
<1>5. CASE CanEntry \/ J1850Entry \/ KLineEntry
  BY <1>5, EntryStep, IInvParts
     DEF Waiting
<1>6. CASE
      \/ UNCHANGED vars
      \/ Leave
      \/ \E r \in 1 .. Len(list) : TestRow(r)
      \/ TestAll
      \/ ExitSystem
      \/ PwmReturn
      \/ NextRow
      \/ EndTest
      \/ EcuSilent
      \/ \E good \in BOOLEAN : EcuAnswers(good)
  <2>1. UNCHANGED <<io, got>>
    BY <1>6
       DEF vars, Leave, TestRow, TestAll, ExitSystem, PwmReturn, NextRow, EndTest,
           EcuSilent, EcuAnswers, Detach, pageVars, testVars, linkVars, exchangeVars,
           pastVars
  <2> QED
    BY <2>1, IInvParts
       DEF Waiting
<1> QED
  BY <1>1, <1>2, <1>3, <1>4, <1>5, <1>6
     DEF Next, User, Program, Ecu

LEMMA HeardKept ==
  ASSUME IInv, [Next]_vars
  PROVE  Heard'
<1>1. CASE Leave
  BY <1>1, IInvParts
     DEF Leave, Heard, Second, Taken
<1>2. ASSUME NEW r \in 1 .. Len(list), TestRow(r) PROVE Heard'
  BY <1>2, IInvParts
     DEF TestRow, Heard, Second, Taken
<1>3. CASE TestAll
  BY <1>3, IInvParts
     DEF TestAll, Heard, Second, Taken
<1>4. CASE EnterSystem
  <2>1. kind' = kind /\ kind \in Kind
    BY <1>4, IInvParts, KindKept, KindTyped DEF EnterSystem, pageVars
  <2>2. cmd' = FirstCommand /\ io' = "send" /\ heard' = 0 /\ queue' = <<>>
    BY <1>4 DEF EnterSystem
  <2>3. cmd' \notin {"ident", "rest"} /\ (kind = "can" => cmd' # "enter")
    BY <2>1, <2>2 DEF FirstCommand, Kind
  <2> QED
    BY <2>1, <2>2, <2>3 DEF Heard, Second, Taken
<1>5. CASE Send
  <2>1. /\ kind' = kind /\ pc' = pc /\ io' = "wait" /\ io = "send" /\ cmd' = cmd
        /\ UNCHANGED <<heard, right>>
    BY <1>5, KindKept DEF Send, pageVars, testVars
  <2>2. clears' \in BOOLEAN
    BY <1>5, IInvParts, TypeParts, Zenon DEF Send, LinkTyped
  <2>3. queue' = QueueOnSend(clears')
    BY <1>5 DEF Send
  <2>4. Len(queue') <= Len(queue) /\ Len(queue') \in Nat /\ Len(queue) \in Nat /\ heard \in Nat
    BY <2>2, <2>3, OlderTyped, IInvParts, TypeParts DEF WireTyped
  <2> QED
    BY <2>1, <2>4, IInvParts DEF Heard, Second, Taken
<1>6. CASE Receive
  <2>1. /\ kind' = kind /\ pc' = pc /\ io' = "done" /\ io = "wait" /\ cmd' = cmd
        /\ UNCHANGED <<heard, right>>
    BY <1>6, KindKept DEF Receive, pageVars, testVars, pastVars
  <2>2. queue \in Seq(Frame) /\ queue # <<>> /\ queue' = Tail(queue) /\ heard \in Nat
    BY <1>6, IInvParts, TypeParts DEF Receive, WireTyped
  <2>3. Len(queue) \in Nat \ {0} /\ Len(queue') = Len(queue) - 1
    BY <2>2
  <2> QED
    BY <2>1, <2>2, <2>3, IInvParts DEF Heard, Second, Taken
<1>7. CASE Timeout
  <2>1. /\ kind' = kind /\ pc' = pc /\ io = "wait" /\ cmd' = cmd
        /\ UNCHANGED <<heard, right, queue, got>> /\ io' \in {"send", "done"}
    BY <1>7, KindKept DEF Timeout, pageVars, testVars, pastVars
  <2>2. queue = <<>> /\ got = NoFrame
    BY <1>7, IInvParts DEF Timeout, Waiting
  <2> QED
    BY <2>1, <2>2, IInvParts DEF Heard, Second, Taken
<1>8. CASE SingleCanDone
  <2>1. kind' = kind
    BY <1>8, KindKept DEF SingleCanDone, EntryFrame, pageVars
  <2>2. /\ pc = "entry" /\ UNCHANGED <<heard, right, queue, got>>
        /\ heard \in Nat /\ Len(queue) \in Nat
    BY <1>8, IInvParts, TypeParts DEF SingleCanDone, Over, EntryFrame, pastVars, WireTyped
  <2> QED
    BY <1>8, <2>1, <2>2, IInvParts
       DEF SingleCanDone, Over, Ask, Return, Silence, Answered, Noted, Heard, Second,
           Taken
<1>9. CASE CanInitDone
  <2>1. kind' = kind
    BY <1>9, KindKept DEF CanInitDone, EntryFrame, pageVars
  <2>2. /\ pc = "entry" /\ UNCHANGED <<heard, right, queue, got>>
        /\ heard \in Nat /\ Len(queue) \in Nat
    BY <1>9, IInvParts, TypeParts DEF CanInitDone, Over, EntryFrame, pastVars, WireTyped
  <2> QED
    BY <1>9, <2>1, <2>2, IInvParts
       DEF CanInitDone, Over, Ask, Return, Silence, Answered, Noted, Heard, Second,
           Taken
<1>10. CASE EnterDone
  <2>1. kind' = kind
    BY <1>10, KindKept DEF EnterDone, EntryFrame, pageVars
  <2>2. /\ pc = "entry" /\ UNCHANGED <<heard, right, queue, got>>
        /\ heard \in Nat /\ Len(queue) \in Nat
    BY <1>10, IInvParts, TypeParts DEF EnterDone, Over, EntryFrame, pastVars, WireTyped
  <2> QED
    BY <1>10, <2>1, <2>2, IInvParts
       DEF EnterDone, Over, Ask, Return, Silence, Answered, Noted, Heard, Second, Taken
<1>11. CASE PwmDone
  <2>1. kind' = kind
    BY <1>11, KindKept DEF PwmDone, EntryFrame, pageVars
  <2>2. /\ pc = "entry" /\ UNCHANGED <<heard, right, queue, got>>
        /\ heard \in Nat /\ Len(queue) \in Nat
    BY <1>11, IInvParts, TypeParts DEF PwmDone, Over, EntryFrame, pastVars, WireTyped
  <2> QED
    BY <1>11, <2>1, <2>2, IInvParts
       DEF PwmDone, Over, Ask, Return, Silence, Answered, Noted, Heard, Second, Taken
<1>12. CASE VpwWakeDone
  <2>1. kind' = kind
    BY <1>12, KindKept DEF VpwWakeDone, EntryFrame, pageVars
  <2>2. /\ pc = "entry" /\ UNCHANGED <<heard, right, queue, got>>
        /\ heard \in Nat /\ Len(queue) \in Nat
    BY <1>12, IInvParts, TypeParts DEF VpwWakeDone, Over, EntryFrame, pastVars, WireTyped
  <2> QED
    BY <1>12, <2>1, <2>2, IInvParts
       DEF VpwWakeDone, Over, Ask, Return, Silence, Answered, Noted, Heard, Second,
           Taken
<1>13. CASE VpwDone
  <2>1. kind' = kind
    BY <1>13, KindKept DEF VpwDone, EntryFrame, pageVars
  <2>2. /\ pc = "entry" /\ UNCHANGED <<heard, right, queue, got>>
        /\ heard \in Nat /\ Len(queue) \in Nat
    BY <1>13, IInvParts, TypeParts DEF VpwDone, Over, EntryFrame, pastVars, WireTyped
  <2> QED
    BY <1>13, <2>1, <2>2, IInvParts
       DEF VpwDone, Over, Ask, Return, Silence, Answered, Noted, Heard, Second, Taken
<1>14. CASE VpwRestDone
  <2>1. kind' = kind
    BY <1>14, KindKept DEF VpwRestDone, EntryFrame, pageVars
  <2>2. /\ pc = "entry" /\ UNCHANGED <<heard, right, queue, got>>
        /\ heard \in Nat /\ Len(queue) \in Nat
    BY <1>14, IInvParts, TypeParts DEF VpwRestDone, Over, EntryFrame, pastVars, WireTyped
  <2> QED
    BY <1>14, <2>1, <2>2, IInvParts
       DEF VpwRestDone, Over, Ask, Return, Silence, Answered, Noted, Heard, Second,
           Taken
<1>15. CASE KwpQuickDone
  <2>1. kind' = kind
    BY <1>15, KindKept DEF KwpQuickDone, EntryFrame, pageVars
  <2>2. /\ pc = "entry" /\ UNCHANGED <<heard, right, queue, got>>
        /\ heard \in Nat /\ Len(queue) \in Nat
    BY <1>15, IInvParts, TypeParts DEF KwpQuickDone, Over, EntryFrame, pastVars, WireTyped
  <2> QED
    BY <1>15, <2>1, <2>2, IInvParts
       DEF KwpQuickDone, Over, Ask, Return, Silence, Answered, Noted, Heard, Second,
           Taken
<1>16. CASE HondaDone
  <2>1. kind' = kind
    BY <1>16, KindKept DEF HondaDone, EntryFrame, pageVars
  <2>2. /\ pc = "entry" /\ UNCHANGED <<heard, right, queue, got>>
        /\ heard \in Nat /\ Len(queue) \in Nat
    BY <1>16, IInvParts, TypeParts DEF HondaDone, Over, EntryFrame, pastVars, WireTyped
  <2> QED
    BY <1>16, <2>1, <2>2, IInvParts
       DEF HondaDone, Over, Ask, Return, Again, Silence, Answered, Noted, Heard, Second,
           Taken
<1>17. CASE MitDone
  <2>1. kind' = kind
    BY <1>17, KindKept DEF MitDone, EntryFrame, pageVars
  <2>2. /\ pc = "entry" /\ UNCHANGED <<heard, right, queue, got>>
        /\ heard \in Nat /\ Len(queue) \in Nat
    BY <1>17, IInvParts, TypeParts DEF MitDone, Over, EntryFrame, pastVars, WireTyped
  <2> QED
    BY <1>17, <2>1, <2>2, IInvParts
       DEF MitDone, Over, Ask, Return, Again, Silence, Answered, Noted, Heard, Second,
           Taken
<1>18. CASE AddressDone
  <2>1. kind' = kind
    BY <1>18, KindKept DEF AddressDone, EntryFrame, pageVars
  <2>2. /\ pc = "entry" /\ UNCHANGED <<heard, right, queue, got>>
        /\ heard \in Nat /\ Len(queue) \in Nat
    BY <1>18, IInvParts, TypeParts DEF AddressDone, Over, EntryFrame, pastVars, WireTyped
  <2>3. Answered => got # NoFrame /\ cmd \in right
    BY IInvParts DEF Answered, NoFrame, Noted
  <2> QED
    BY <1>18, <2>1, <2>2, <2>3, IInvParts
       DEF AddressDone, Over, Ask, Return, Again, Heard, Second, Taken
<1>19. CASE IdentDone
  <2>1. kind' = kind
    BY <1>19, KindKept DEF IdentDone, EntryFrame, pageVars
  <2>2. /\ pc = "entry" /\ UNCHANGED <<heard, right, queue, got>>
        /\ heard \in Nat /\ Len(queue) \in Nat
    BY <1>19, IInvParts, TypeParts DEF IdentDone, Over, EntryFrame, pastVars, WireTyped
  <2> QED
    BY <1>19, <2>1, <2>2, IInvParts
       DEF IdentDone, Over, Ask, Return, Again, Silence, Answered, Noted, Heard, Second,
           Taken
<1>20. CASE ExitSystem
  BY <1>20, IInvParts
     DEF ExitSystem, Detach, Heard, Second, Taken
<1>21. CASE PwmReturn
  BY <1>21, IInvParts
     DEF PwmReturn, Detach, Heard, Second, Taken
<1>22. CASE NextRow
  BY <1>22, IInvParts
     DEF NextRow, Heard, Second, Taken
<1>23. CASE EndTest
  BY <1>23, IInvParts
     DEF EndTest, Heard, Second, Taken
<1>24. CASE EcuSilent
  <2>1. kind' = kind
    BY <1>24, KindKept DEF EcuSilent, pageVars, testVars
  <2> QED
    BY <1>24, <2>1, IInvParts DEF EcuSilent, testVars, pastVars, Heard, Second, Taken
<1>25. ASSUME NEW good \in BOOLEAN, EcuAnswers(good) PROVE Heard'
  <2>1. kind' = kind /\ UNCHANGED <<pc, cmd, io, got>> /\ right \subseteq right'
    BY <1>25, KindKept DEF EcuAnswers, pageVars, testVars
  <2>2. queue \in Seq(Frame) /\ Len(queue') = Len(queue) + 1 /\ Len(queue) \in Nat
    BY <1>25, IInvParts, TypeParts DEF EcuAnswers, WireTyped
  <2>3. heard' = heard + 1 /\ heard \in Nat
    BY <1>25, IInvParts, TypeParts DEF EcuAnswers, WireTyped
  <2> QED
    BY <2>1, <2>2, <2>3, IInvParts DEF Heard, Second, Taken
<1>26. CASE
      \/ UNCHANGED vars
  <2>1. UNCHANGED <<list, at, pc, cmd, io, got, heard, queue, right>>
    BY <1>26
       DEF vars, pageVars, testVars, linkVars, exchangeVars, pastVars
  <2> QED
    BY <2>1, IInvParts, KindKept
       DEF Heard, Second, Taken
<1> QED
  BY <1>1, <1>2, <1>3, <1>4, <1>5, <1>6, <1>7, <1>8, <1>9, <1>10, <1>11, <1>12, <1>13,
     <1>14, <1>15, <1>16, <1>17, <1>18, <1>19, <1>20, <1>21, <1>22, <1>23, <1>24, <1>25,
     <1>26
     DEF Next, User, Program, Ecu, CanEntry, J1850Entry, KLineEntry

-----------------------------------------------------------------------------
(* Verdicts.                                                               *)

\* How an entry can end well.
Passing ==
  \/ ~Silence /\ kind \in {"single", "raw", "kwp", "honda", "mit"}
  \/ ~Silence /\ kind = "can" /\ cmd = "enter"
  \/ ~Silence /\ kind = "k1281" /\ cmd = "ident"
  \/ Answered /\ kind = "pwm" /\ cmd = "enter"
  \/ kind = "vpw" /\ cmd = "rest"

LEMMA EntryPass ==
  ASSUME CanEntry \/ J1850Entry \/ KLineEntry, pc' = "exit", ok'
  PROVE  Passing
<1>1. Answered => ~Silence
  BY DEF Answered, Silence, NoFrame
<1>2. CASE SingleCanDone
  BY <1>2, Zenon
     DEF SingleCanDone, Over, Ask, Return, Passing
<1>3. CASE CanInitDone
  BY <1>3, Zenon
     DEF CanInitDone, Over, Ask, Return, Passing
<1>4. CASE EnterDone
  BY <1>4, Zenon
     DEF EnterDone, Over, Ask, Return, Passing
<1>5. CASE PwmDone
  BY <1>5, Zenon
     DEF PwmDone, Over, Ask, Return, Passing
<1>6. CASE VpwWakeDone
  BY <1>6, Zenon
     DEF VpwWakeDone, Over, Ask, Return, Passing
<1>7. CASE VpwDone
  BY <1>7, Zenon
     DEF VpwDone, Over, Ask, Return, Passing
<1>8. CASE VpwRestDone
  BY <1>8, Zenon
     DEF VpwRestDone, Over, Ask, Return, Passing
<1>9. CASE KwpQuickDone
  BY <1>9, Zenon
     DEF KwpQuickDone, Over, Ask, Return, Passing
<1>10. CASE HondaDone
  BY <1>10, <1>1, Zenon
     DEF HondaDone, Over, Ask, Return, Passing, Again
<1>11. CASE MitDone
  BY <1>11, Zenon
     DEF MitDone, Over, Ask, Return, Passing, Again
<1>12. CASE AddressDone
  BY <1>12, Zenon
     DEF AddressDone, Over, Ask, Return, Passing, Again
<1>13. CASE IdentDone
  BY <1>13, Zenon
     DEF IdentDone, Over, Ask, Return, Passing, Again
<1> QED
  BY <1>2, <1>3, <1>4, <1>5, <1>6, <1>7, <1>8, <1>9, <1>10, <1>11, <1>12, <1>13
     DEF CanEntry, J1850Entry, KLineEntry

\* How the entry of a silent unit ends.
LEMMA EntryGivenUp ==
  ASSUME CanEntry \/ J1850Entry \/ KLineEntry, attempt \in 0 .. 2, pc' = "exit", Silence
  PROVE  \/ kind \in {"single", "can", "raw"} /\ cmd = "init"
         \/ kind \in {"can", "kwp", "pwm", "vpw"} /\ cmd = "enter"
         \/ cmd = "rest"
         \/ kind = "honda" /\ cmd = "quick" /\ attempt >= 1
         \/ kind = "mit" /\ cmd = "init" /\ attempt >= 1
         \/ kind = "k1281" /\ cmd \in {"address", "ident"} /\ attempt >= 2
<1>1. CASE SingleCanDone
  BY <1>1
     DEF SingleCanDone, Over, Ask, Return, Silence
<1>2. CASE CanInitDone
  BY <1>2
     DEF CanInitDone, Over, Ask, Return, Silence
<1>3. CASE EnterDone
  BY <1>3
     DEF EnterDone, Over, Ask, Return, Silence
<1>4. CASE PwmDone
  BY <1>4
     DEF PwmDone, Over, Ask, Return, Silence
<1>5. CASE VpwWakeDone
  BY <1>5
     DEF VpwWakeDone, Over, Ask, Return, Silence
<1>6. CASE VpwDone
  BY <1>6
     DEF VpwDone, Over, Ask, Return, Silence
<1>7. CASE VpwRestDone
  BY <1>7
     DEF VpwRestDone, Over, Ask, Return, Silence
<1>8. CASE KwpQuickDone
  BY <1>8
     DEF KwpQuickDone, Over, Ask, Return, Silence
<1>9. CASE HondaDone
  BY <1>9
     DEF HondaDone, Over, Ask, Return, Silence, Again, Answered, NoFrame
<1>10. CASE MitDone
  BY <1>10
     DEF MitDone, Over, Ask, Return, Silence, Again
<1>11. CASE AddressDone
  BY <1>11
     DEF AddressDone, Over, Ask, Return, Silence, Again, Answered, NoFrame
<1>12. CASE IdentDone
  BY <1>12
     DEF IdentDone, Over, Ask, Return, Silence, Again
<1> QED
  BY <1>1, <1>2, <1>3, <1>4, <1>5, <1>6, <1>7, <1>8, <1>9, <1>10, <1>11, <1>12
     DEF CanEntry, J1850Entry, KLineEntry

LEMMA PassHeardKept ==
  ASSUME IInv, [Next]_vars
  PROVE  PassHeard'
<1>1. CASE Leave
  BY <1>1, IInvParts
     DEF Leave, PassHeard, Evidence
<1>2. ASSUME NEW r \in 1 .. Len(list), TestRow(r) PROVE PassHeard'
  BY <1>2, IInvParts
     DEF TestRow, PassHeard, Evidence
<1>3. CASE TestAll
  BY <1>3, IInvParts
     DEF TestAll, PassHeard, Evidence
<1>4. CASE EnterSystem
  BY <1>4, IInvParts
     DEF EnterSystem, PassHeard, Evidence
<1>5. CASE Send
  BY <1>5, IInvParts
     DEF Send, Place, testVars, PassHeard, Evidence
<1>6. CASE Receive
  BY <1>6, IInvParts
     DEF Receive, Place, testVars, PassHeard, Evidence
<1>7. CASE Timeout
  BY <1>7, IInvParts
     DEF Timeout, Place, testVars, PassHeard, Evidence
<1>8. CASE CanEntry \/ J1850Entry \/ KLineEntry
  <2>1. kind' = kind /\ UNCHANGED <<heard, right>> /\ pc = "entry" /\ io = "done"
    BY <1>8, IInvParts, EntryStep, KindKept DEF EntryFrame, pageVars, pastVars
  <2>2. Answered => cmd \in right
    BY IInvParts DEF Answered, Noted
  <2>3. heard \in Nat /\ Len(queue) \in Nat
    BY IInvParts, TypeParts DEF WireTyped
  <2>4. pc' \in {"entry", "exit"}
    BY <1>8, <2>1, IInvParts, EntryStep
  <2> QED
    BY <1>8, <2>1, <2>2, <2>3, <2>4, EntryPass, IInvParts
       DEF PassHeard, Evidence, Passing, J1850, Silence, Heard, Second, Taken
<1>9. CASE ExitSystem
  <2>1. kind' = kind /\ UNCHANGED <<ok, heard, right>> /\ pc = "exit"
    BY <1>9, KindKept DEF ExitSystem, Detach, pageVars, pastVars
  <2> QED
    BY <2>1, IInvParts DEF PassHeard, Evidence
<1>10. CASE PwmReturn
  <2>1. kind' = kind /\ UNCHANGED <<ok, heard, right>> /\ pc = "exit"
    BY <1>10, KindKept DEF PwmReturn, Detach, pageVars, pastVars
  <2> QED
    BY <2>1, IInvParts DEF PassHeard, Evidence
<1>11. CASE NextRow
  BY <1>11, IInvParts
     DEF NextRow, PassHeard, Evidence
<1>12. CASE EndTest
  BY <1>12, IInvParts
     DEF EndTest, PassHeard, Evidence
<1>13. ASSUME NEW good \in BOOLEAN, EcuAnswers(good) PROVE PassHeard'
  <2>1. kind' = kind /\ UNCHANGED <<pc, ok>>
    BY <1>13, KindKept DEF EcuAnswers, pageVars, testVars
  <2>2. heard' = heard + 1 /\ heard \in Nat /\ right \subseteq right'
    BY <1>13, IInvParts, TypeParts DEF EcuAnswers, WireTyped
  <2> QED
    BY <2>1, <2>2, IInvParts DEF PassHeard, Evidence
<1>14. CASE
      \/ UNCHANGED vars
      \/ EcuSilent
  <2>1. UNCHANGED <<list, at, pc, ok, heard, right>>
    BY <1>14
       DEF vars, EcuSilent, pageVars, testVars, linkVars, exchangeVars, pastVars
  <2> QED
    BY <2>1, IInvParts, KindKept
       DEF PassHeard, Evidence
<1> QED
  BY <1>1, <1>2, <1>3, <1>4, <1>5, <1>6, <1>7, <1>8, <1>9, <1>10, <1>11, <1>12, <1>13,
     <1>14
     DEF Next, User, Program, Ecu

LEMMA CountKept ==
  ASSUME IInv, [Next]_vars
  PROVE  Count'
<1>1. CASE Leave
  BY <1>1, IInvParts
     DEF Leave, Count, Earlier, Asked, Repeats
<1>2. ASSUME NEW r \in 1 .. Len(list), TestRow(r) PROVE Count'
  BY <1>2, IInvParts
     DEF TestRow, Count, Earlier, Asked, Repeats
<1>3. CASE TestAll
  BY <1>3, IInvParts
     DEF TestAll, Count, Earlier, Asked, Repeats
<1>4. CASE EnterSystem
  <2>1. kind' = kind /\ kind \in Kind
    BY <1>4, IInvParts, KindKept, KindTyped DEF EnterSystem, pageVars
  <2>2. /\ pc' = "entry" /\ cmd' = FirstCommand /\ io' = "send" /\ heard' = 0
        /\ try' = 0 /\ attempt' = 0 /\ sent' = 0
    BY <1>4 DEF EnterSystem
  <2>3. /\ kind = "single" => cmd' = "single"
        /\ kind \in {"kwp", "vpw"} => cmd' # "enter"
    BY <2>1, <2>2 DEF FirstCommand, Kind
  <2> QED
    BY <2>1, <2>2, <2>3 DEF Count, Earlier, Asked
<1>5. CASE Send
  <2>1. /\ kind' = kind /\ UNCHANGED <<pc, cmd, try, attempt, heard>> /\ pc = "entry"
        /\ io = "send" /\ io' = "wait" /\ sent' = sent + 1
    BY <1>5, KindKept, IInvParts DEF Send, pageVars, testVars, Place
  <2>2. Repeats' = Repeats /\ Earlier' = Earlier
    BY <2>1 DEF Repeats, Earlier
  <2>3. sent \in Nat /\ try \in 0 .. 2 /\ Earlier \in Nat
    BY IInvParts, TypeParts DEF WireTyped, ExchangeTyped, Earlier
  <2> QED
    BY <2>1, <2>2, <2>3, IInvParts DEF Count, Asked
<1>6. CASE Receive
  <2>1. heard >= 1 /\ heard \in Nat
    <3>1. queue \in Seq(Frame) /\ queue # <<>> /\ heard \in Nat
      BY <1>6, IInvParts, TypeParts DEF Receive, WireTyped
    <3>2. Len(queue) \in Nat \ {0} /\ pc = "entry"
      BY <1>6, <3>1, IInvParts DEF Receive, Place
    <3> QED
      BY <3>1, <3>2, IInvParts DEF Heard
  <2>2. kind' = kind /\ UNCHANGED <<pc, cmd, try, attempt, heard>>
    BY <1>6, KindKept DEF Receive, pageVars, testVars, pastVars
  <2>3. Repeats' = Repeats
    BY <2>2 DEF Repeats
  <2> QED
    BY <2>1, <2>2, <2>3, IInvParts DEF Count
<1>7. CASE Timeout
  <2>1. /\ kind' = kind /\ UNCHANGED <<pc, cmd, attempt, heard, sent>> /\ io = "wait"
        /\ pc = "entry"
    BY <1>7, KindKept, IInvParts DEF Timeout, pageVars, testVars, pastVars, Place
  <2>2. Repeats' = Repeats /\ Earlier' = Earlier
    BY <2>1 DEF Repeats, Earlier
  <2>3. try \in 0 .. 2
    BY IInvParts, TypeParts DEF ExchangeTyped
  <2>4. \/ Repeats /\ io' = "send" /\ try' = try + 1
        \/ (~Repeats \/ try = 2) /\ io' = "done" /\ try' = try
    BY <1>7, <2>3 DEF Timeout
  <2> QED
    BY <2>1, <2>2, <2>3, <2>4, IInvParts DEF Count, Asked
<1>8. CASE SingleCanDone
  <2>1. kind' = kind
    BY <1>8, KindKept DEF SingleCanDone, EntryFrame, pageVars
  <2>2. /\ pc = "entry" /\ io = "done" /\ UNCHANGED <<heard, sent>>
        /\ heard \in Nat /\ sent \in Nat /\ try \in 0 .. 2 /\ attempt \in 0 .. 2
    BY <1>8, IInvParts, TypeParts DEF SingleCanDone, Over, EntryFrame, pastVars, WireTyped, ExchangeTyped
  <2>3. heard = 0 => ~Second /\ right = {} /\ got = NoFrame
    BY <2>2, IInvParts, TypeParts DEF Heard, Noted, WireTyped
  <2> QED
    BY <1>8, <2>1, <2>2, <2>3, IInvParts
       DEF SingleCanDone, Over, Ask, Return, Silence, Answered, NoFrame, Second, Course,
           Count, Earlier, Asked, Repeats, J1850
<1>9. CASE CanInitDone
  <2>1. kind' = kind
    BY <1>9, KindKept DEF CanInitDone, EntryFrame, pageVars
  <2>2. /\ pc = "entry" /\ io = "done" /\ UNCHANGED <<heard, sent>>
        /\ heard \in Nat /\ sent \in Nat /\ try \in 0 .. 2 /\ attempt \in 0 .. 2
    BY <1>9, IInvParts, TypeParts DEF CanInitDone, Over, EntryFrame, pastVars, WireTyped, ExchangeTyped
  <2>3. heard = 0 => ~Second /\ right = {} /\ got = NoFrame
    BY <2>2, IInvParts, TypeParts DEF Heard, Noted, WireTyped
  <2> QED
    BY <1>9, <2>1, <2>2, <2>3, IInvParts
       DEF CanInitDone, Over, Ask, Return, Silence, Answered, NoFrame, Second, Course,
           Count, Earlier, Asked, Repeats, J1850
<1>10. CASE EnterDone
  <2>1. kind' = kind
    BY <1>10, KindKept DEF EnterDone, EntryFrame, pageVars
  <2>2. /\ pc = "entry" /\ io = "done" /\ UNCHANGED <<heard, sent>>
        /\ heard \in Nat /\ sent \in Nat /\ try \in 0 .. 2 /\ attempt \in 0 .. 2
    BY <1>10, IInvParts, TypeParts DEF EnterDone, Over, EntryFrame, pastVars, WireTyped, ExchangeTyped
  <2>3. heard = 0 => ~Second /\ right = {} /\ got = NoFrame
    BY <2>2, IInvParts, TypeParts DEF Heard, Noted, WireTyped
  <2> QED
    BY <1>10, <2>1, <2>2, <2>3, IInvParts
       DEF EnterDone, Over, Ask, Return, Silence, Answered, NoFrame, Second, Course,
           Count, Earlier, Asked, Repeats, J1850
<1>11. CASE PwmDone
  <2>1. kind' = kind
    BY <1>11, KindKept DEF PwmDone, EntryFrame, pageVars
  <2>2. /\ pc = "entry" /\ io = "done" /\ UNCHANGED <<heard, sent>>
        /\ heard \in Nat /\ sent \in Nat /\ try \in 0 .. 2 /\ attempt \in 0 .. 2
    BY <1>11, IInvParts, TypeParts DEF PwmDone, Over, EntryFrame, pastVars, WireTyped, ExchangeTyped
  <2>3. heard = 0 => ~Second /\ right = {} /\ got = NoFrame
    BY <2>2, IInvParts, TypeParts DEF Heard, Noted, WireTyped
  <2> QED
    BY <1>11, <2>1, <2>2, <2>3, IInvParts
       DEF PwmDone, Over, Ask, Return, Silence, Answered, NoFrame, Second, Course,
           Count, Earlier, Asked, Repeats, J1850
<1>12. CASE VpwWakeDone
  <2>1. kind' = kind
    BY <1>12, KindKept DEF VpwWakeDone, EntryFrame, pageVars
  <2>2. /\ pc = "entry" /\ io = "done" /\ UNCHANGED <<heard, sent>>
        /\ heard \in Nat /\ sent \in Nat /\ try \in 0 .. 2 /\ attempt \in 0 .. 2
    BY <1>12, IInvParts, TypeParts DEF VpwWakeDone, Over, EntryFrame, pastVars, WireTyped, ExchangeTyped
  <2>3. heard = 0 => ~Second /\ right = {} /\ got = NoFrame
    BY <2>2, IInvParts, TypeParts DEF Heard, Noted, WireTyped
  <2> QED
    BY <1>12, <2>1, <2>2, <2>3, IInvParts
       DEF VpwWakeDone, Over, Ask, Return, Silence, Answered, NoFrame, Second, Course,
           Count, Earlier, Asked, Repeats, J1850
<1>13. CASE VpwDone
  <2>1. kind' = kind
    BY <1>13, KindKept DEF VpwDone, EntryFrame, pageVars
  <2>2. /\ pc = "entry" /\ io = "done" /\ UNCHANGED <<heard, sent>>
        /\ heard \in Nat /\ sent \in Nat /\ try \in 0 .. 2 /\ attempt \in 0 .. 2
    BY <1>13, IInvParts, TypeParts DEF VpwDone, Over, EntryFrame, pastVars, WireTyped, ExchangeTyped
  <2>3. heard = 0 => ~Second /\ right = {} /\ got = NoFrame
    BY <2>2, IInvParts, TypeParts DEF Heard, Noted, WireTyped
  <2> QED
    BY <1>13, <2>1, <2>2, <2>3, IInvParts
       DEF VpwDone, Over, Ask, Return, Silence, Answered, NoFrame, Second, Course,
           Count, Earlier, Asked, Repeats, J1850
<1>14. CASE VpwRestDone
  <2>1. kind' = kind
    BY <1>14, KindKept DEF VpwRestDone, EntryFrame, pageVars
  <2>2. /\ pc = "entry" /\ io = "done" /\ UNCHANGED <<heard, sent>>
        /\ heard \in Nat /\ sent \in Nat /\ try \in 0 .. 2 /\ attempt \in 0 .. 2
    BY <1>14, IInvParts, TypeParts DEF VpwRestDone, Over, EntryFrame, pastVars, WireTyped, ExchangeTyped
  <2>3. heard = 0 => ~Second /\ right = {} /\ got = NoFrame
    BY <2>2, IInvParts, TypeParts DEF Heard, Noted, WireTyped
  <2> QED
    BY <1>14, <2>1, <2>2, <2>3, IInvParts
       DEF VpwRestDone, Over, Ask, Return, Silence, Answered, NoFrame, Second, Course,
           Count, Earlier, Asked, Repeats, J1850
<1>15. CASE KwpQuickDone
  <2>1. kind' = kind
    BY <1>15, KindKept DEF KwpQuickDone, EntryFrame, pageVars
  <2>2. /\ pc = "entry" /\ io = "done" /\ UNCHANGED <<heard, sent>>
        /\ heard \in Nat /\ sent \in Nat /\ try \in 0 .. 2 /\ attempt \in 0 .. 2
    BY <1>15, IInvParts, TypeParts DEF KwpQuickDone, Over, EntryFrame, pastVars, WireTyped, ExchangeTyped
  <2>3. heard = 0 => ~Second /\ right = {} /\ got = NoFrame
    BY <2>2, IInvParts, TypeParts DEF Heard, Noted, WireTyped
  <2> QED
    BY <1>15, <2>1, <2>2, <2>3, IInvParts
       DEF KwpQuickDone, Over, Ask, Return, Silence, Answered, NoFrame, Second, Course,
           Count, Earlier, Asked, Repeats, J1850
<1>16. CASE HondaDone
  <2>1. kind' = kind
    BY <1>16, KindKept DEF HondaDone, EntryFrame, pageVars
  <2>2. /\ pc = "entry" /\ io = "done" /\ UNCHANGED <<heard, sent>>
        /\ heard \in Nat /\ sent \in Nat /\ try \in 0 .. 2 /\ attempt \in 0 .. 2
    BY <1>16, IInvParts, TypeParts DEF HondaDone, Over, EntryFrame, pastVars, WireTyped, ExchangeTyped
  <2>3. heard = 0 => ~Second /\ right = {} /\ got = NoFrame
    BY <2>2, IInvParts, TypeParts DEF Heard, Noted, WireTyped
  <2> QED
    BY <1>16, <2>1, <2>2, <2>3, IInvParts
       DEF HondaDone, Over, Ask, Return, Again, Silence, Answered, NoFrame, Second,
           Course, Count, Earlier, Asked, Repeats, J1850
<1>17. CASE MitDone
  <2>1. kind' = kind
    BY <1>17, KindKept DEF MitDone, EntryFrame, pageVars
  <2>2. /\ pc = "entry" /\ io = "done" /\ UNCHANGED <<heard, sent>>
        /\ heard \in Nat /\ sent \in Nat /\ try \in 0 .. 2 /\ attempt \in 0 .. 2
    BY <1>17, IInvParts, TypeParts DEF MitDone, Over, EntryFrame, pastVars, WireTyped, ExchangeTyped
  <2>3. heard = 0 => ~Second /\ right = {} /\ got = NoFrame
    BY <2>2, IInvParts, TypeParts DEF Heard, Noted, WireTyped
  <2> QED
    BY <1>17, <2>1, <2>2, <2>3, IInvParts
       DEF MitDone, Over, Ask, Return, Again, Silence, Answered, NoFrame, Second,
           Course, Count, Earlier, Asked, Repeats, J1850
<1>18. CASE AddressDone
  <2>1. kind' = kind
    BY <1>18, KindKept DEF AddressDone, EntryFrame, pageVars
  <2>2. /\ pc = "entry" /\ io = "done" /\ UNCHANGED <<heard, sent>>
        /\ heard \in Nat /\ sent \in Nat /\ try \in 0 .. 2 /\ attempt \in 0 .. 2
    BY <1>18, IInvParts, TypeParts DEF AddressDone, Over, EntryFrame, pastVars, WireTyped, ExchangeTyped
  <2>3. heard = 0 => ~Second /\ right = {} /\ got = NoFrame
    BY <2>2, IInvParts, TypeParts DEF Heard, Noted, WireTyped
  <2> QED
    BY <1>18, <2>1, <2>2, <2>3, IInvParts
       DEF AddressDone, Over, Ask, Return, Again, Silence, Answered, NoFrame, Second,
           Course, Count, Earlier, Asked, Repeats, J1850
<1>19. CASE IdentDone
  <2>1. kind' = kind
    BY <1>19, KindKept DEF IdentDone, EntryFrame, pageVars
  <2>2. /\ pc = "entry" /\ io = "done" /\ UNCHANGED <<heard, sent>>
        /\ heard \in Nat /\ sent \in Nat /\ try \in 0 .. 2 /\ attempt \in 0 .. 2
    BY <1>19, IInvParts, TypeParts DEF IdentDone, Over, EntryFrame, pastVars, WireTyped, ExchangeTyped
  <2>3. heard = 0 => ~Second /\ right = {} /\ got = NoFrame
    BY <2>2, IInvParts, TypeParts DEF Heard, Noted, WireTyped
  <2> QED
    BY <1>19, <2>1, <2>2, <2>3, IInvParts
       DEF IdentDone, Over, Ask, Return, Again, Silence, Answered, NoFrame, Second,
           Course, Count, Earlier, Asked, Repeats, J1850
<1>20. CASE ExitSystem
  BY <1>20, IInvParts
     DEF ExitSystem, Detach, Count, Earlier, Asked, Repeats
<1>21. CASE PwmReturn
  BY <1>21, IInvParts
     DEF PwmReturn, Detach, Count, Earlier, Asked, Repeats
<1>22. CASE NextRow
  BY <1>22, IInvParts
     DEF NextRow, Count, Earlier, Asked, Repeats
<1>23. CASE EndTest
  BY <1>23, IInvParts
     DEF EndTest, Count, Earlier, Asked, Repeats
<1>24. ASSUME NEW good \in BOOLEAN, EcuAnswers(good) PROVE Count'
  <2>1. kind' = kind /\ UNCHANGED <<pc, cmd, try, attempt>>
    BY <1>24, KindKept DEF EcuAnswers, pageVars, testVars
  <2>2. heard' = heard + 1 /\ heard \in Nat
    BY <1>24, IInvParts, TypeParts DEF EcuAnswers, WireTyped
  <2>3. Repeats' = Repeats
    BY <2>1 DEF Repeats
  <2> QED
    BY <2>1, <2>2, <2>3, IInvParts DEF Count
<1>25. CASE
      \/ UNCHANGED vars
      \/ EcuSilent
  <2>1. UNCHANGED <<list, at, pc, cmd, io, try, attempt, heard, sent>>
    BY <1>25
       DEF vars, EcuSilent, pageVars, testVars, linkVars, exchangeVars, pastVars
  <2> QED
    BY <2>1, IInvParts, KindKept
       DEF Count, Earlier, Asked, Repeats
<1> QED
  BY <1>1, <1>2, <1>3, <1>4, <1>5, <1>6, <1>7, <1>8, <1>9, <1>10, <1>11, <1>12, <1>13,
     <1>14, <1>15, <1>16, <1>17, <1>18, <1>19, <1>20, <1>21, <1>22, <1>23, <1>24, <1>25
     DEF Next, User, Program, Ecu, CanEntry, J1850Entry, KLineEntry

LEMMA SilentGivenUpKept ==
  ASSUME IInv, [Next]_vars
  PROVE  SilentGivenUp'
<1>1. CASE Leave
  BY <1>1, IInvParts
     DEF Leave, SilentGivenUp, Requests
<1>2. ASSUME NEW r \in 1 .. Len(list), TestRow(r) PROVE SilentGivenUp'
  BY <1>2, IInvParts
     DEF TestRow, SilentGivenUp, Requests
<1>3. CASE TestAll
  BY <1>3, IInvParts
     DEF TestAll, SilentGivenUp, Requests
<1>4. CASE EnterSystem
  BY <1>4, IInvParts
     DEF EnterSystem, SilentGivenUp, Requests
<1>5. CASE Send
  BY <1>5, IInvParts
     DEF Send, Place, testVars, SilentGivenUp, Requests
<1>6. CASE Receive
  BY <1>6, IInvParts
     DEF Receive, Place, testVars, SilentGivenUp, Requests
<1>7. CASE Timeout
  BY <1>7, IInvParts
     DEF Timeout, Place, testVars, SilentGivenUp, Requests
<1>8. CASE CanEntry \/ J1850Entry \/ KLineEntry
  <2>1. kind' = kind /\ UNCHANGED <<heard, sent>> /\ pc = "entry" /\ io = "done"
    BY <1>8, IInvParts, EntryStep, KindKept DEF EntryFrame, pageVars, pastVars
  <2>2. SUFFICES ASSUME pc' = "exit", heard = 0
                 PROVE  ~ok' /\ sent = Requests
    <3>1. pc' \in {"entry", "exit"}
      BY <1>8, <2>1, IInvParts, EntryStep
    <3>2. Requests' = Requests
      BY <2>1 DEF Requests
    <3> QED
      BY <2>1, <3>1, <3>2 DEF SilentGivenUp
  <2>3. heard \in Nat /\ Len(queue) \in Nat /\ attempt \in 0 .. 2
    BY IInvParts, TypeParts DEF WireTyped, ExchangeTyped
  <2>4. Silence /\ ~Second /\ cmd # "rest"
    BY <2>1, <2>2, <2>3, IInvParts DEF Silence, Noted, Heard
  <2>5. ~ok'
    BY <1>8, <2>2, <2>4, EntryPass, IInvParts DEF Passing, Second, Answered, Silence, NoFrame
  <2>6. /\ sent = Earlier + try + 1
        /\ try = IF Repeats THEN 2 ELSE 0
        /\ kind \in {"honda", "mit"} => attempt <= 1
    <3>1. /\ sent = Earlier + Asked
          /\ try = IF Repeats THEN 2 ELSE 0
          /\ kind \in {"honda", "mit"} => attempt <= 1
      BY <2>1, <2>2, IInvParts DEF Count
    <3>2. Asked = try + 1 /\ try \in 0 .. 2
      BY <2>1, IInvParts, TypeParts DEF Asked, ExchangeTyped
    <3>3. Earlier \in Nat
      BY <2>3 DEF Earlier
    <3> QED
      BY <3>1, <3>2, <3>3
  <2>7. sent = Requests
    <3>1. \/ kind \in {"single", "can", "raw"} /\ cmd = "init"
          \/ kind \in {"kwp", "pwm", "vpw"} /\ cmd = "enter"
          \/ kind = "honda" /\ cmd = "quick" /\ attempt = 1
          \/ kind = "mit" /\ cmd = "init" /\ attempt = 1
          \/ kind = "k1281" /\ cmd = "address" /\ attempt = 2
      <4>1. \/ kind \in {"single", "can", "raw"} /\ cmd = "init"
            \/ kind \in {"can", "kwp", "pwm", "vpw"} /\ cmd = "enter"
            \/ cmd = "rest"
            \/ kind = "honda" /\ cmd = "quick" /\ attempt >= 1
            \/ kind = "mit" /\ cmd = "init" /\ attempt >= 1
            \/ kind = "k1281" /\ cmd \in {"address", "ident"} /\ attempt >= 2
        BY <1>8, <2>2, <2>3, <2>4, EntryGivenUp
      <4>2. /\ kind = "honda" /\ attempt >= 1 => attempt = 1
            /\ kind = "mit" /\ attempt >= 1 => attempt = 1
            /\ attempt >= 2 => attempt = 2
        BY <2>3, <2>6
      <4>3. cmd # "ident" /\ ~(kind = "can" /\ cmd = "enter") /\ cmd # "rest"
        BY <2>4 DEF Second
      <4> QED
        BY <4>1, <4>2, <4>3
    <3>2. CASE kind \in {"single", "can", "raw"} /\ cmd = "init"
      BY <2>6, <3>2 DEF Requests, Earlier, Repeats, J1850
    <3>3. CASE kind \in {"kwp", "pwm", "vpw"} /\ cmd = "enter"
      BY <2>6, <3>3 DEF Requests, Earlier, Repeats, J1850
    <3>4. CASE kind = "honda" /\ cmd = "quick" /\ attempt = 1
      BY <2>6, <3>4 DEF Requests, Earlier, Repeats, J1850
    <3>5. CASE kind = "mit" /\ cmd = "init" /\ attempt = 1
      BY <2>6, <3>5 DEF Requests, Earlier, Repeats, J1850
    <3>6. CASE kind = "k1281" /\ cmd = "address" /\ attempt = 2
      BY <2>6, <3>6 DEF Requests, Earlier, Repeats, J1850
    <3> QED
      BY <3>1, <3>2, <3>3, <3>4, <3>5, <3>6
  <2> QED
    BY <2>5, <2>7
<1>9. CASE ExitSystem
  <2>1. kind' = kind /\ UNCHANGED <<ok, heard, sent>> /\ pc = "exit"
    BY <1>9, KindKept DEF ExitSystem, Detach, pageVars, pastVars
  <2> QED
    BY <2>1, IInvParts DEF SilentGivenUp, Requests
<1>10. CASE PwmReturn
  <2>1. kind' = kind /\ UNCHANGED <<ok, heard, sent>> /\ pc = "exit"
    BY <1>10, KindKept DEF PwmReturn, Detach, pageVars, pastVars
  <2> QED
    BY <2>1, IInvParts DEF SilentGivenUp, Requests
<1>11. CASE NextRow
  BY <1>11, IInvParts
     DEF NextRow, SilentGivenUp, Requests
<1>12. CASE EndTest
  BY <1>12, IInvParts
     DEF EndTest, SilentGivenUp, Requests
<1>13. ASSUME NEW good \in BOOLEAN, EcuAnswers(good) PROVE SilentGivenUp'
  <2>1. heard' = heard + 1 /\ heard \in Nat
    BY <1>13, IInvParts, TypeParts DEF EcuAnswers, WireTyped
  <2> QED
    BY <2>1 DEF SilentGivenUp
<1>14. CASE
      \/ UNCHANGED vars
      \/ EcuSilent
  <2>1. UNCHANGED <<list, at, pc, ok, heard, sent>>
    BY <1>14
       DEF vars, EcuSilent, pageVars, testVars, linkVars, exchangeVars, pastVars
  <2> QED
    BY <2>1, IInvParts, KindKept
       DEF SilentGivenUp, Requests
<1> QED
  BY <1>1, <1>2, <1>3, <1>4, <1>5, <1>6, <1>7, <1>8, <1>9, <1>10, <1>11, <1>12, <1>13,
     <1>14
     DEF Next, User, Program, Ecu

-----------------------------------------------------------------------------
(* The theorems.                                                           *)

LEMMA Initial == Init => IInv
<1> SUFFICES ASSUME Init PROVE IInv
  OBVIOUS
<1>1. list \in Seq(0 .. 10) /\ Len(list) >= 1
  BY EntryAssumption DEF Init
<1>2. PageTyped
  <2>1. row \in [1 .. Len(list) -> {"blank", "testing", "ok", "failed"}]
    BY DEF Init
  <2>2. at \in 1 .. Len(list) /\ runs \in 0 .. MaxRuns
    BY <1>1, EntryAssumption DEF Init
  <2>3. list \in Lists /\ button \in BOOLEAN /\ all \in BOOLEAN
    BY DEF Init
  <2> QED
    BY <2>1, <2>2, <2>3 DEF PageTyped
<1>3. LinkTyped /\ ExchangeTyped /\ WireTyped
  <2>1. LinkTyped
    BY DEF Init, LinkTyped
  <2>2. ExchangeTyped
    BY DEF Init, ExchangeTyped, Command
  <2>3. WireTyped
    BY DEF Init, WireTyped
  <2> QED
    BY <2>1, <2>2, <2>3
<1>4. TypeOK
  BY <1>2, <1>3, TypeParts
<1>5. Place /\ Course /\ RowsDone /\ QueueFresh /\ AnswersFresh
  BY DEF Init, Place, Course, RowsDone, QueueFresh, AnswersFresh
<1>6. Waiting /\ Noted /\ Heard /\ PassHeard /\ Count /\ SilentGivenUp
  BY DEF Init, Waiting, Noted, NoFrame, Heard, PassHeard, Count, SilentGivenUp
<1>7. WellFormed /\ NothingLeft
  BY DEF Init, WellFormed, NothingLeft
<1> QED
  BY <1>4, <1>5, <1>6, <1>7 DEF IInv

LEMMA Kept == IInv /\ [Next]_vars => IInv'
BY TypeKept, PlaceKept, CourseKept, RowsDoneKept, QueueFreshKept, AnswersFreshKept, WaitingKept,
   NotedKept, HeardKept, PassHeardKept, CountKept, SilentGivenUpKept, WellFormedKept,
   NothingLeftKept
   DEF IInv

LEMMA Inductive == Spec => []IInv
BY Initial, Kept, PTL DEF Spec

\* Every variable keeps its type; in particular no request goes out more than three times.
THEOREM TypeCorrect == Spec => []TypeOK
BY Inductive, IInvParts, PTL

\* A control unit is shown as entered only if it answered what its protocol asks for.
THEOREM PassIsHeard == Spec => []PassHeard
BY Inductive, IInvParts, PTL

\* A silent unit is given up, after exactly the requests its protocol provides for.
THEOREM SilenceIsGivenUp == Spec => []SilentGivenUp
BY Inductive, IInvParts, PTL

\* Every request leaves in the form the unit reads.
THEOREM RequestsWellFormed == Spec => []WellFormed
BY Inductive, IInvParts, PTL

\* On a link that empties its queue no answer is older than the request.
THEOREM FreshAnswers == Spec => []AnswersFresh
BY Inductive, IInvParts, PTL

\* The tests that exit leave no link and no keep-alive frame.
THEOREM NothingIsLeft == Spec => []NothingLeft
BY Inductive, IInvParts, PTL

\* "Test all" ends with a verdict in every row.
THEOREM AllRowsTested == Spec => AllTested
<1>1. IInv /\ [Next]_vars
        => [all /\ ~all' => \A r \in 1 .. Len(list) : row'[r] \in {"ok", "failed"}]_vars
  <2> SUFFICES ASSUME IInv, [Next]_vars, all, ~all'
               PROVE  \A r \in 1 .. Len(list) : row'[r] \in {"ok", "failed"}
    OBVIOUS
  <2>1. EndTest
    <3>1. CASE
            \/ UNCHANGED vars
            \/ Leave
            \/ \E r \in 1 .. Len(list) : TestRow(r)
            \/ EnterSystem
            \/ Send
            \/ Receive
            \/ Timeout
            \/ CanEntry \/ J1850Entry \/ KLineEntry
            \/ ExitSystem
            \/ PwmReturn
            \/ NextRow
            \/ EcuSilent
            \/ \E good \in BOOLEAN : EcuAnswers(good)
      <4>1. all' = all
        BY <3>1, IInvParts, EntryStep
           DEF vars, Leave, TestRow, EnterSystem, Send, Receive, Timeout, ExitSystem, PwmReturn,
               NextRow, EcuSilent, EcuAnswers, Detach, EntryFrame, testVars
      <4> QED
        BY <4>1
    <3>2. CASE TestAll
      BY <3>2 DEF TestAll
    <3> QED
      BY <3>1, <3>2 DEF Next, User, Program, Ecu
  <2>2. at = Len(list) /\ row' = Shown
    BY <2>1, IInvParts, TypeParts, ListTyped DEF EndTest, LastRow, PageTyped
  <2>3. \A r \in 1 .. Len(list) : r < at => row[r] \in {"ok", "failed"}
    BY IInvParts DEF RowsDone
  <2> QED
    BY <2>2, <2>3, IInvParts, TypeParts, ListTyped DEF Shown, PageTyped
<1> QED
  BY <1>1, Inductive, PTL DEF Spec, AllTested
-----------------------------------------------------------------------------
(* A test ends.  Each step of the program takes it nearer to the page: the *)
(* number of its steps that are left is bounded by Left, which no step of  *)
(* the unit changes.  What ENABLED says of the program, which follows from *)
(* the guards of its actions, is a hypothesis.                             *)

\* An exchange of the entry is over that the entry acts upon.
Handled ==
  \/ Over({"single"}, "single") \/ Over({"single", "can", "raw"}, "init")
  \/ Over({"can", "kwp"}, "enter") \/ Over({"pwm"}, "enter")
  \/ Over({"vpw"}, "wake") \/ Over({"vpw"}, "enter") \/ Over({"vpw"}, "rest")
  \/ Over({"kwp"}, "quick") \/ Over({"honda"}, "quick") \/ Over({"mit"}, "init")
  \/ Over({"k1281"}, "address") \/ Over({"k1281"}, "ident")

\* The guards of the program's actions.
GuardsEnable ==
  pc \in {"begin", "exit", "result"} \/ io \in {"send", "wait"} \/ Handled
    => ENABLED <<Program>>_vars

Running == pc \notin {"main", "left"}

\* How many commands of the protocol may still follow this one.
Following ==
  CASE cmd \in {"single", "quick", "wake"} -> 3
    [] cmd \in {"init", "address"} -> 2
    [] cmd = "enter" -> 1
    [] cmd \in {"rest", "ident"} -> 0

\* The exchanges left before the entry gives up, and the steps of the one it is in.
Exchanges == 4 * (2 - attempt) + Following
Waits ==
  CASE io = "send" -> 2 * (2 - try) + 2
    [] io = "wait" -> 2 * (2 - try) + 1
    [] OTHER -> 0

\* The steps of the test of one row: at most 84 in the entry.
RowSteps ==
  CASE pc = "begin" -> 90
    [] pc = "entry" -> 2 + 7 * Exchanges + Waits
    [] pc = "exit" -> 1
    [] OTHER -> 0

Left == 100 * (Len(list) - at) + RowSteps
AtMost(n) == Running /\ Left <= n

LeftBounds ==
  /\ Following \in 0 .. 3 /\ Exchanges \in 0 .. 11 /\ Waits \in 0 .. 6
  /\ RowSteps \in 0 .. 90
  /\ Len(list) \in Nat /\ at \in 1 .. Len(list)
  /\ Left \in 0 .. 100 * Len(list)

LEMMA LeftBounded == TypeOK => LeftBounds
<1>. SUFFICES ASSUME TypeOK PROVE LeftBounds
  OBVIOUS
<1>1. Following \in 0 .. 3
  BY DEF TypeOK, Command, Following
<1>2. attempt \in 0 .. 2 /\ try \in 0 .. 2
  BY DEF TypeOK
<1>3. Exchanges \in 0 .. 11
  BY <1>1, <1>2 DEF Exchanges
<1>4. Waits \in 0 .. 6
  BY <1>2 DEF Waits
<1>5. RowSteps \in 0 .. 90
  BY <1>3, <1>4 DEF RowSteps
<1>6. Len(list) \in Nat /\ at \in 1 .. Len(list)
  BY ListTyped DEF TypeOK
<1>7. Left \in 0 .. 100 * Len(list)
  BY <1>5, <1>6 DEF Left
<1>. QED
  BY <1>1, <1>3, <1>4, <1>5, <1>6, <1>7 DEF LeftBounds

LEMMA LeftBoundedNext == TypeOK' => LeftBounds'
BY LeftBounded, PTL

\* The entry never goes back to an exchange: it asks for the next command of the
\* protocol, or starts the protocol again with an attempt fewer left.
LEMMA EntryAdvances ==
  ASSUME TypeOK, CanEntry \/ J1850Entry \/ KLineEntry
  PROVE  pc' = "exit" \/ Exchanges' <= Exchanges - 1
<1>0. attempt \in 0 .. 2 /\ Following \in 0 .. 3
  BY LeftBounded DEF LeftBounds, TypeOK
<1>1. CASE SingleCanDone
  BY <1>0, <1>1 DEF SingleCanDone, Over, Ask, Exchanges, Following
<1>2. CASE CanInitDone
  BY <1>0, <1>2 DEF CanInitDone, Over, Ask, Return, Exchanges, Following
<1>3. CASE EnterDone \/ PwmDone \/ VpwRestDone
  BY <1>3 DEF EnterDone, PwmDone, VpwRestDone, Return
<1>4. CASE VpwWakeDone \/ KwpQuickDone
  BY <1>0, <1>4 DEF VpwWakeDone, KwpQuickDone, Over, Ask, Exchanges, Following
<1>5. CASE VpwDone
  BY <1>0, <1>5 DEF VpwDone, Over, Ask, Return, Exchanges, Following
<1>6. CASE HondaDone
  BY <1>0, <1>6 DEF HondaDone, Over, Again, Ask, Return, Exchanges, Following
<1>7. CASE MitDone
  BY <1>0, <1>7 DEF MitDone, Over, Again, Ask, Return, Exchanges, Following
<1>8. CASE AddressDone
  BY <1>0, <1>8 DEF AddressDone, Over, Again, Ask, Return, Exchanges, Following
<1>9. CASE IdentDone
  BY <1>0, <1>9 DEF IdentDone, Over, Again, Ask, Return, Exchanges, Following
<1>. QED
  BY <1>1, <1>2, <1>3, <1>4, <1>5, <1>6, <1>7, <1>8, <1>9
     DEF CanEntry, J1850Entry, KLineEntry

\* A step of the program is one step nearer to the page.
LEMMA ProgramAdvances ==
  ASSUME TypeOK, TypeOK', Place, Program
  PROVE  Running /\ (pc' = "main" \/ (Running' /\ Left' <= Left - 1))
<1>0. /\ RowSteps \in 0 .. 90 /\ RowSteps' \in 0 .. 90
      /\ Exchanges \in 0 .. 11 /\ Exchanges' \in 0 .. 11
      /\ Len(list) \in Nat /\ at \in 1 .. Len(list)
      /\ Waits \in 0 .. 6 /\ Waits' \in 0 .. 6
      /\ try \in 0 .. 2
  BY LeftBounded, LeftBoundedNext DEF LeftBounds, TypeOK
<1>1. CASE EnterSystem
  <2>1. pc = "begin" /\ pc' = "entry" /\ UNCHANGED <<list, at>>
    BY <1>1 DEF EnterSystem, pageVars
  <2>2. RowSteps = 90 /\ RowSteps' = 2 + 7 * Exchanges' + Waits'
    BY <2>1 DEF RowSteps
  <2>. QED
    BY <1>0, <2>1, <2>2 DEF Left, Running
<1>2. CASE Send \/ Receive \/ Timeout
  <2>1. Exchanges' = Exchanges
    BY <1>2 DEF Send, Receive, Timeout, Exchanges, Following
  <2>2. Waits' <= Waits - 1
    BY <1>0, <1>2 DEF Send, Receive, Timeout, Waits
  <2>3. pc = "entry" /\ UNCHANGED <<list, at, pc>>
    BY <1>2 DEF Send, Receive, Timeout, Place, pageVars, testVars
  <2>4. RowSteps = 2 + 7 * Exchanges + Waits /\ RowSteps' = 2 + 7 * Exchanges' + Waits'
    BY <2>3 DEF RowSteps
  <2>. QED
    BY <1>0, <2>1, <2>2, <2>3, <2>4 DEF Left, Running
<1>3. CASE CanEntry \/ J1850Entry \/ KLineEntry
  <2>1. /\ pc = "entry" /\ io = "done" /\ UNCHANGED <<list, at>>
        /\ pc' = "exit" \/ (pc' = "entry" /\ io' = "send" /\ try' = 0)
    BY <1>3, EntryStep DEF EntryFrame, pageVars
  <2>2. pc' = "exit" \/ Exchanges' <= Exchanges - 1
    BY <1>3, EntryAdvances
  <2>3. RowSteps = 2 + 7 * Exchanges /\ Running /\ Running'
    <3>1. Waits = 0
      BY <2>1 DEF Waits
    <3>2. RowSteps = 2 + 7 * Exchanges + Waits
      BY <2>1 DEF RowSteps
    <3>3. Running /\ Running'
      BY <2>1 DEF Running
    <3>. QED
      BY <1>0, <3>1, <3>2, <3>3
  <2>4. CASE pc' = "exit"
    <3>1. RowSteps' = 1
      BY <2>4 DEF RowSteps
    <3>. QED
      BY <1>0, <2>1, <2>3, <3>1 DEF Left
  <2>5. CASE pc' # "exit"
    <3>1. RowSteps' = 2 + 7 * Exchanges' + 6
      <4>1. pc' = "entry" /\ Waits' = 6
        BY <2>1, <2>5 DEF Waits
      <4>. QED
        BY <4>1 DEF RowSteps
    <3>. QED
      BY <1>0, <2>1, <2>2, <2>3, <2>5, <3>1 DEF Left
  <2>. QED
    BY <2>4, <2>5
<1>4. CASE ExitSystem \/ PwmReturn
  BY <1>0, <1>4 DEF ExitSystem, PwmReturn, Detach, RowSteps, Left, Running, pageVars
<1>5. CASE NextRow
  BY <1>0, <1>5 DEF NextRow, RowSteps, Left, LastRow, Running
<1>6. CASE EndTest
  BY <1>6 DEF EndTest, Running
<1>. QED
  BY <1>1, <1>2, <1>3, <1>4, <1>5, <1>6 DEF Program

\* While a test runs the user cannot start another, and what the unit does leaves the
\* program where it is.
LEMMA OthersWait ==
  ASSUME Running, [Next]_vars, ~Program
  PROVE  Running' /\ Left' = Left
<1>1. CASE User
  BY <1>1 DEF User, Leave, TestAll, TestRow, Running
<1>2. CASE Ecu \/ UNCHANGED vars
  <2>1. UNCHANGED <<pc, io, cmd, try, attempt, list, at>>
    BY <1>2 DEF Ecu, EcuSilent, EcuAnswers, vars, pageVars, testVars, linkVars, exchangeVars
  <2>. QED
    BY <2>1 DEF Running, Left, RowSteps, Exchanges, Following, Waits
<1>. QED
  BY <1>1, <1>2 DEF Next

\* The program is never stuck in a test: it waits, or an exchange is over and its protocol
\* says what follows.
LEMMA NeverStuck ==
  ASSUME TypeOK, Place, Course, Running
  PROVE  pc \in {"begin", "exit", "result"} \/ io \in {"send", "wait"} \/ Handled
<1>. SUFFICES ASSUME pc = "entry", io = "done" PROVE Handled
  BY DEF TypeOK, Running, Place
<1>. QED
  BY KindTyped DEF TypeOK, Command, Course, Handled, Over, Kind

LEMMA LeftHere == ASSUME IInv, IInv' PROVE TypeOK /\ TypeOK' /\ Place /\ LeftBounds /\ LeftBounds'
BY LeftBounded, LeftBoundedNext DEF IInv

\* From at most n steps away the page is reached.
Ends(n) == FairSpec /\ []GuardsEnable => (AtMost(n) ~> pc = "main")

LEMMA EndStep ==
  ASSUME NEW n \in Nat
  PROVE  Ends(n) => Ends(n + 1)
<1>1. ASSUME IInv, IInv', AtMost(n + 1), [Next]_vars
      PROVE  (AtMost(n + 1))' \/ (AtMost(n))' \/ (pc = "main")'
  BY <1>1, LeftHere, ProgramAdvances, OthersWait DEF AtMost, LeftBounds
<1>2. ASSUME IInv, IInv', AtMost(n + 1), Program
      PROVE  (AtMost(n))' \/ (pc = "main")'
  <2>1. Left' \in Int /\ Left \in Int /\ Left <= n + 1
    BY <1>2, LeftHere DEF AtMost, LeftBounds
  <2>2. pc' = "main" \/ (Running' /\ Left' <= Left - 1)
    BY <1>2, LeftHere, ProgramAdvances
  <2>. QED
    BY <2>1, <2>2 DEF AtMost
<1>3. IInv /\ GuardsEnable => (AtMost(n + 1) => ENABLED <<Program>>_vars)
  BY IInvParts, NeverStuck DEF AtMost, GuardsEnable
<1>4. FairSpec /\ []GuardsEnable => (AtMost(n + 1) ~> AtMost(n) \/ pc = "main")
  BY <1>1, <1>2, <1>3, Inductive, PTL DEF FairSpec, Spec
<1>. QED
  BY <1>4, PTL DEF Ends

\* From any number of steps.
LEMMA AllEnd == \A n \in Nat : Ends(n)
<1>. DEFINE End == [n \in Nat |-> Ends(n)]
<1>1. Ends(0)
  <2>1. ASSUME IInv, IInv', AtMost(0), [Next]_vars
        PROVE  (AtMost(0))' \/ (pc = "main")'
    BY <2>1, LeftHere, ProgramAdvances, OthersWait DEF AtMost, LeftBounds
  <2>2. ASSUME IInv, IInv', AtMost(0), Program
        PROVE  (pc = "main")'
    BY <2>2, LeftHere, ProgramAdvances DEF AtMost, LeftBounds
  <2>3. IInv /\ GuardsEnable => (AtMost(0) => ENABLED <<Program>>_vars)
    BY IInvParts, NeverStuck DEF AtMost, GuardsEnable
  <2>. QED
    BY <2>1, <2>2, <2>3, Inductive, PTL DEF FairSpec, Spec, Ends
<1>2. ASSUME NEW n \in Nat PROVE Ends(n) => Ends(n + 1)
  BY EndStep
<1>3. \E U : Available(U) /\ \A n \in Nat : U[n] <=> Ends(n)
  <2>1. Available(End)
    BY DEF Available
  <2>. QED
    BY <2>1
<1>. QED
  BY <1>1, <1>2, <1>3, FunctionInduction

\* How many rows there are is settled when the page opens.
Rows(n) == Len(list) = n
Result == FairSpec /\ []GuardsEnable => TestsEnd

LEMMA ListKept == ASSUME IInv, [Next]_vars PROVE list' = list
<1>1. CASE User \/ NextRow \/ EndTest
  BY <1>1 DEF User, Leave, TestAll, TestRow, NextRow, EndTest, pageVars
<1>2. CASE EnterSystem \/ Send \/ Receive \/ Timeout \/ Ecu
  BY <1>2 DEF EnterSystem, Send, Receive, Timeout, Ecu, EcuSilent, EcuAnswers, pageVars
<1>3. CASE CanEntry \/ J1850Entry \/ KLineEntry
  BY <1>3, EntryStep, IInvParts DEF EntryFrame, pageVars
<1>4. CASE ExitSystem \/ PwmReturn \/ UNCHANGED vars
  BY <1>4 DEF ExitSystem, PwmReturn, Detach, pageVars, vars
<1> QED
  BY <1>1, <1>2, <1>3, <1>4 DEF Next, Program

LEMMA EndsWithRows ==
  ASSUME NEW n \in Nat
  PROVE  Rows(n) => Result
<1>1. 100 * n \in Nat
  OBVIOUS
<1>2. Ends(100 * n)
  BY <1>1, AllEnd
<1>3. ASSUME IInv, Rows(n), [Next]_vars PROVE Rows(n)'
  BY <1>3, ListKept DEF Rows
<1>4. ASSUME IInv, IInv', Rows(n), pc = "begin" PROVE AtMost(100 * n)
  BY <1>4, LeftHere DEF LeftBounds, Rows, AtMost, Running
<1>. QED
  BY <1>2, <1>3, <1>4, Inductive, PTL DEF Ends, Result, TestsEnd, FairSpec, Spec

\* Whatever the unit does, a test that was started ends, for any lists of tests.
THEOREM EveryTestEnds == FairSpec /\ []GuardsEnable => TestsEnd
<1>1. FairSpec => \E n \in Nat : Rows(n)
  <2>1. Init => \E n \in Nat : Rows(n)
    BY EntryAssumption DEF Init, Rows
  <2>. QED
    BY <2>1, PTL DEF FairSpec, Spec
<1>2. (\E n \in Nat : Rows(n)) => Result
  BY EndsWithRows
<1>. QED
  BY <1>1, <1>2, PTL DEF Result
=============================================================================
