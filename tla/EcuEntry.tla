------------------------------ MODULE EcuEntry ------------------------------
(***************************************************************************)
(* The communication test of the demonstration vehicle: CEcuTest lists     *)
(* eleven control units, and for a row, or for all of them in turn, has    *)
(* CEnterSys enter the unit over a logical link of its own (CNetLayer over *)
(* the library's CEcuInterface) and shows whether that succeeded.          *)
(*                                                                         *)
(* The bus is slow and unreliable: a request may be answered, answered     *)
(* wrongly, answered after the program has stopped waiting, or not at all. *)
(* An answer that comes when nobody waits stays in the link's queue.  What *)
(* the program makes of that differs from protocol to protocol: how often  *)
(* it asks, whether it empties the queue when it asks, and whether it      *)
(* looks at the answer or only at its being there.                         *)
(*                                                                         *)
(* Pins, bit rates, timings, identifiers and the bytes of the commands are *)
(* left out, and so are the answers to the page's Show inside a test, which*)
(* the program ignores.  The units' lists of commands to exit with are     *)
(* empty in every test.                                                    *)
(***************************************************************************)
EXTENDS Integers, Sequences

CONSTANTS
  Lists,    \* the lists of tests considered; the program's own is 0, ..., 10
  MaxRuns   \* bound: how often the user starts a test, or all of them

\* The tests of TestSingleEcu, by the row they stand in: CAN on one wire, CAN and CAN FD
\* with a command to enter, J1939, and the older buses.
Kind == {"single", "can", "raw", "pwm", "vpw", "kwp", "honda", "mit", "k1281"}

TestSingleEcu ==
  [i \in 0 .. 10 |->
     CASE i = 0 -> "single"
       [] i = 1 -> "pwm"
       [] i = 2 -> "vpw"
       [] i \in {3, 4, 10} -> "can"
       [] i = 5 -> "kwp"
       [] i = 6 -> "honda"
       [] i = 7 -> "mit"
       [] i = 8 -> "raw"
       [] i = 9 -> "k1281"]

ASSUME EntryAssumption ==
  /\ Lists \subseteq {l \in Seq(0 .. 10) : l # <<>>}
  /\ MaxRuns \in Nat

\* What is sent to a unit.
Command == {"single", "init", "enter", "wake", "rest", "quick", "address", "ident"}

\* A frame from the unit: the command it answers, whether it says what the program
\* hopes for, and whether it came after the latest request.
Frame == [to : Command, good : BOOLEAN, fresh : BOOLEAN]
NoFrame == [to |-> "none", good |-> FALSE, fresh |-> FALSE]

VARIABLES
  \* the page
  list,     \* the tests in its rows
  row,      \* the text of each row
  button,   \* "test all" is enabled
  runs,     \* how often the user has started something
  \* the test
  pc,
  at,       \* the row under test
  all,      \* the loop over all rows runs
  ok,       \* bEnter
  \* m_pNetLayer of the test's CEnterSys
  link,     \* it exists
  pack,     \* m_IsSendPack
  clears,   \* the link empties its queue with each request
  keep,     \* the link sends its keep-alive frame
  links,    \* how many links the program has open, reachable or not
  \* the exchange it is in
  cmd, io, try, attempt, got,
  queue,    \* frames the link has received and nobody has taken
  bus,      \* requests the unit has not dealt with
  sent, heard, right \* history of the link: requests, frames, commands answered well

pageVars == <<list, row, button, runs>>
testVars == <<pc, at, all, ok>>
linkVars == <<link, pack, clears, keep, links>>
pastVars == <<sent, heard, right>>
exchangeVars == <<cmd, io, try, attempt, got, queue, bus, pastVars>>
vars == <<pageVars, testVars, linkVars, exchangeVars>>

\* The test of the row it is at.
kind == TestSingleEcu[list[at]]

Request == [cmd : Command, form : {"packed", "raw", "empty"}]

TypeOK ==
  /\ list \in Lists
  /\ row \in [1 .. Len(list) -> {"blank", "testing", "ok", "failed"}]
  /\ button \in BOOLEAN
  /\ runs \in 0 .. MaxRuns
  /\ pc \in {"main", "begin", "entry", "exit", "result", "left"}
  /\ at \in 1 .. Len(list)
  /\ all \in BOOLEAN /\ ok \in BOOLEAN
  /\ link \in BOOLEAN /\ pack \in BOOLEAN /\ clears \in BOOLEAN /\ keep \in BOOLEAN
  /\ links \in Nat
  /\ cmd \in Command
  /\ io \in {"idle", "send", "wait", "done"}
  /\ try \in 0 .. 2 /\ attempt \in 0 .. 2
  /\ got \in Frame \cup {NoFrame}
  /\ queue \in Seq(Frame)
  /\ bus \in Seq(Request)
  /\ sent \in Nat /\ heard \in Nat /\ right \subseteq Command

Init ==
  /\ list \in Lists
  /\ row = [r \in 1 .. Len(list) |-> "blank"]
  /\ button = TRUE
  /\ runs = 0
  /\ pc = "main" /\ at = 1 /\ all = FALSE /\ ok = FALSE
  /\ link = FALSE /\ pack = FALSE /\ clears = FALSE /\ keep = FALSE
  /\ links = 0
  /\ cmd = "init" /\ io = "idle" /\ try = 0 /\ attempt = 0 /\ got = NoFrame
  /\ queue = <<>> /\ bus = <<>>
  /\ sent = 0 /\ heard = 0 /\ right = {}
-----------------------------------------------------------------------------
(* TestEcu: the page, and the loop over its rows.                          *)

Leave ==
  /\ pc = "main" /\ pc' = "left"
  /\ UNCHANGED <<pageVars, at, all, ok, linkVars, exchangeVars>>

TestRow(r) ==
  /\ pc = "main" /\ pc' = "begin"
  /\ runs < MaxRuns /\ runs' = runs + 1
  /\ at' = r
  /\ row' = [row EXCEPT ![r] = "testing"]
  /\ UNCHANGED <<list, button, all, ok, linkVars, exchangeVars>>

\* The button is disabled for as long as the loop runs.
TestAll ==
  /\ pc = "main" /\ pc' = "begin"
  /\ runs < MaxRuns /\ runs' = runs + 1
  /\ button /\ button' = FALSE
  /\ all' = TRUE /\ at' = 1
  /\ row' = [row EXCEPT ![1] = "testing"]
  /\ UNCHANGED <<list, ok, linkVars, exchangeVars>>

\* The row under test gets its verdict.
Shown == [row EXCEPT ![at] = IF ok THEN "ok" ELSE "failed"]

\* Where the loop over all rows ends.
LastRow == Len(list)

NextRow ==
  /\ pc = "result" /\ pc' = "begin"
  /\ all /\ at < LastRow /\ at' = at + 1
  /\ row' = [Shown EXCEPT ![at + 1] = "testing"]
  /\ UNCHANGED <<list, button, runs, all, ok, linkVars, exchangeVars>>

EndTest ==
  /\ pc = "result" /\ pc' = "main"
  /\ ~(all /\ at < LastRow)
  /\ row' = Shown
  /\ all' = FALSE
  /\ button' = TRUE
  /\ UNCHANGED <<list, runs, at, ok, linkVars, exchangeVars>>
-----------------------------------------------------------------------------
(* The exchange: SendReceive of the net layers, and the library's initial  *)
(* exchanges (QuickEnter, AddressCodeEnter).                               *)

J1850 == {"pwm", "vpw"}

\* CNetLayer::SendReceive.  The J1850 layer has its own, and the initial exchanges of the
\* K line go to the library directly.
Repeats == kind \notin J1850 /\ cmd \notin {"quick", "address"}

\* The second argument of the J1850 layer's SendReceive: bit 0, pack; bit 1, unpack.
uPackUnPack == 3

\* How the request leaves: packed, as the program wrote it, or with nothing in it.
Form ==
  CASE kind \in J1850 -> IF uPackUnPack % 2 = 1 THEN "packed" ELSE "empty"
    [] cmd = "quick" /\ kind = "honda" -> "packed"
    [] cmd = "quick" /\ kind = "kwp" -> "raw"
    [] cmd = "address" -> "raw"
    [] OTHER -> IF pack THEN "packed" ELSE "raw"

Older(q) == [j \in 1 .. Len(q) |-> [q[j] EXCEPT !.fresh = FALSE]]

\* Mutant: nothing is taken out of the queue.
QueueKept(set) == Older(queue)

\* SetClearBuffer(CBM_CLEAR_COMM_RX_QUEUE): the queue is emptied once a request is sent.
QueueOnSend(set) == IF set THEN <<>> ELSE Older(queue)

Send ==
  /\ io = "send" /\ io' = "wait"
  /\ clears' = (clears \/ Repeats)
  /\ queue' = QueueOnSend(clears')
  /\ bus' = Append(bus, [cmd |-> cmd, form |-> Form])
  /\ got' = NoFrame
  /\ sent' = sent + 1
  /\ UNCHANGED <<pageVars, testVars, link, pack, keep, links, cmd, try, attempt, heard, right>>

Receive ==
  /\ io = "wait" /\ queue # <<>>
  /\ io' = "done"
  /\ got' = Head(queue)
  /\ queue' = Tail(queue)
  /\ UNCHANGED <<pageVars, testVars, linkVars, cmd, try, attempt, bus, pastVars>>

\* Mutant: silence is taken for an answer after one request.
TimeoutOnce ==
  /\ io = "wait" /\ queue = <<>>
  /\ io' = "done"
  /\ UNCHANGED <<pageVars, testVars, linkVars, cmd, try, attempt, got, queue, bus, pastVars>>

\* Mutant: the request is sent once more than three times.
TimeoutMore ==
  /\ io = "wait" /\ queue = <<>>
  /\ IF Repeats /\ try <= 2
     THEN io' = "send" /\ try' = try + 1
     ELSE io' = "done" /\ UNCHANGED try
  /\ UNCHANGED <<pageVars, testVars, linkVars, cmd, attempt, got, queue, bus, pastVars>>

\* Mutant: only SendReceive is given a time to wait.
TimeoutRepeats ==
  /\ io = "wait" /\ queue = <<>> /\ Repeats
  /\ IF try < 2
     THEN io' = "send" /\ try' = try + 1
     ELSE io' = "done" /\ UNCHANGED try
  /\ UNCHANGED <<pageVars, testVars, linkVars, cmd, attempt, got, queue, bus, pastVars>>

\* The time P2 is over.
Timeout ==
  /\ io = "wait" /\ queue = <<>>
  /\ IF Repeats /\ try < 2
     THEN io' = "send" /\ try' = try + 1
     ELSE io' = "done" /\ UNCHANGED try
  /\ UNCHANGED <<pageVars, testVars, linkVars, cmd, attempt, got, queue, bus, pastVars>>

\* The unit deals with its oldest request; its answer is for the link that asked.
EcuAnswers(good) ==
  /\ bus # <<>>
  /\ bus' = Tail(bus)
  /\ queue' = Append(queue, [to |-> Head(bus).cmd, good |-> good, fresh |-> TRUE])
  /\ heard' = heard + 1
  /\ right' = IF good THEN right \cup {Head(bus).cmd} ELSE right
  /\ UNCHANGED <<pageVars, testVars, linkVars, cmd, io, try, attempt, got, sent>>

EcuSilent ==
  /\ bus # <<>>
  /\ bus' = Tail(bus)
  /\ UNCHANGED <<pageVars, testVars, linkVars, cmd, io, try, attempt, got, queue, pastVars>>
-----------------------------------------------------------------------------
(* EnterSystem: a link of its own for each test, and the protocol's way in.*)

FirstCommand ==
  CASE kind = "single" -> "single"
    [] kind \in {"can", "raw", "mit"} -> "init"
    [] kind = "pwm" -> "enter"
    [] kind = "vpw" -> "wake"
    [] kind \in {"kwp", "honda"} -> "quick"
    [] kind = "k1281" -> "address"

\* The wake-up frame of the one-wire CAN goes out unpacked; the J1850 layers do not use
\* the switch.
EnterSystem ==
  /\ pc = "begin" /\ pc' = "entry"
  /\ link' = TRUE /\ links' = links + 1
  /\ pack' = (kind \notin J1850 \cup {"single"})
  /\ clears' = FALSE /\ keep' = FALSE
  /\ cmd' = FirstCommand /\ io' = "send" /\ try' = 0 /\ attempt' = 0 /\ got' = NoFrame
  /\ queue' = <<>> /\ bus' = <<>>
  /\ sent' = 0 /\ heard' = 0 /\ right' = {}
  /\ UNCHANGED <<pageVars, at, all, ok>>

\* An exchange of the entry is over.
Over(kinds, c) == pc = "entry" /\ io = "done" /\ kind \in kinds /\ cmd = c
Silence == got = NoFrame
\* The bytes looked at are those of a good answer to the request.
Answered == got.to = cmd /\ got.good

\* The entry goes on with another exchange, or returns.
Ask(c) == cmd' = c /\ io' = "send" /\ try' = 0 /\ UNCHANGED <<pc, ok>>
Return(b) == pc' = "exit" /\ ok' = b /\ io' = "idle" /\ UNCHANGED <<cmd, try>>

EntryFrame == UNCHANGED <<pageVars, at, all, link, clears, links, got, queue, bus, pastVars>>

\* Mutant: the commands that follow go out unpacked as well.
SingleCanDoneUnpacked ==
  /\ Over({"single"}, "single")
  /\ Ask("init")
  /\ EntryFrame /\ UNCHANGED <<pack, keep, attempt>>

\* Whatever the wake-up frame was answered, if it was.
SingleCanDone ==
  /\ Over({"single"}, "single")
  /\ Ask("init") /\ pack' = TRUE
  /\ EntryFrame /\ UNCHANGED <<keep, attempt>>

\* Mutant: the first answer is enough.
CanInitDoneEnough ==
  /\ Over({"single", "can", "raw"}, "init")
  /\ Return(~Silence)
  /\ EntryFrame /\ UNCHANGED <<pack, keep, attempt>>

CanInitDone ==
  /\ Over({"single", "can", "raw"}, "init")
  /\ IF ~Silence /\ kind = "can" THEN Ask("enter") ELSE Return(~Silence)
  /\ EntryFrame /\ UNCHANGED <<pack, keep, attempt>>

\* The initial exchange of the K line may fail: it is neither repeated nor reported.
KwpQuickDone ==
  /\ Over({"kwp"}, "quick")
  /\ Ask("enter")
  /\ EntryFrame /\ UNCHANGED <<pack, keep, attempt>>

\* CAN and K line: any frame will do.
EnterDone ==
  /\ Over({"can", "kwp"}, "enter")
  /\ Return(~Silence)
  /\ EntryFrame /\ UNCHANGED <<pack, keep, attempt>>

PwmDone ==
  /\ Over({"pwm"}, "enter")
  /\ Return(Answered)
  /\ EntryFrame /\ UNCHANGED <<pack, keep, attempt>>

VpwWakeDone ==
  /\ Over({"vpw"}, "wake")
  /\ Ask("enter")
  /\ EntryFrame /\ UNCHANGED <<pack, keep, attempt>>

VpwDone ==
  /\ Over({"vpw"}, "enter")
  /\ IF Answered THEN Ask("rest") ELSE Return(FALSE)
  /\ EntryFrame /\ UNCHANGED <<pack, keep, attempt>>

VpwRestDone ==
  /\ Over({"vpw"}, "rest")
  /\ Return(TRUE)
  /\ EntryFrame /\ UNCHANGED <<pack, keep, attempt>>

\* The exchange is tried again from command c, up to n times in all; then b.
Again(c, n, b) ==
  IF attempt < n - 1
  THEN Ask(c) /\ attempt' = attempt + 1
  ELSE Return(b) /\ UNCHANGED attempt

\* A wrong answer is asked again; a second wrong answer passes, silence does not.
HondaDone ==
  /\ Over({"honda"}, "quick")
  /\ IF Answered THEN Return(TRUE) /\ UNCHANGED attempt ELSE Again("quick", 2, ~Silence)
  /\ EntryFrame /\ UNCHANGED <<pack, keep>>

MitDone ==
  /\ Over({"mit"}, "init")
  /\ IF Silence THEN Again("init", 2, FALSE) ELSE Return(TRUE) /\ UNCHANGED attempt
  /\ EntryFrame /\ UNCHANGED <<pack, keep>>

\* The keep-alive frame stays on when the attempt fails after it was set.
AddressDone ==
  /\ Over({"k1281"}, "address")
  /\ IF Answered
     THEN Ask("ident") /\ keep' = TRUE /\ UNCHANGED attempt
     ELSE Again("address", 3, FALSE) /\ UNCHANGED keep
  /\ EntryFrame /\ UNCHANGED pack

IdentDone ==
  /\ Over({"k1281"}, "ident")
  /\ IF Silence THEN Again("address", 3, FALSE) ELSE Return(TRUE) /\ UNCHANGED attempt
  /\ EntryFrame /\ UNCHANGED <<pack, keep>>
-----------------------------------------------------------------------------
(* The end of a test.                                                      *)

\* Frames that come later are nobody's.
Detach ==
  /\ pc = "exit" /\ pc' = "result"
  /\ link' = FALSE /\ queue' = <<>> /\ bus' = <<>>
  /\ UNCHANGED <<pageVars, at, all, ok, pack, clears, cmd, io, try, attempt, got, pastVars>>

\* Mutant: the link is not deleted.
ExitSystemKeeps ==
  /\ Detach
  /\ kind # "pwm"
  /\ keep' = FALSE
  /\ UNCHANGED links

\* An empty keep-alive frame cancels all of the link's; then the link is deleted.
ExitSystem ==
  /\ Detach
  /\ kind # "pwm"
  /\ keep' = FALSE
  /\ links' = links - 1

\* TestPwm returns without ExitSystem, and CEnterSys does not delete its link.
PwmReturn ==
  /\ Detach
  /\ kind = "pwm"
  /\ UNCHANGED <<keep, links>>
-----------------------------------------------------------------------------
CanEntry == SingleCanDone \/ CanInitDone \/ EnterDone
J1850Entry == PwmDone \/ VpwWakeDone \/ VpwDone \/ VpwRestDone
KLineEntry == KwpQuickDone \/ HondaDone \/ MitDone \/ AddressDone \/ IdentDone

User == Leave \/ TestAll \/ \E r \in 1 .. Len(list) : TestRow(r)
Program ==
  \/ EnterSystem \/ Send \/ Receive \/ Timeout
  \/ CanEntry \/ J1850Entry \/ KLineEntry
  \/ ExitSystem \/ PwmReturn \/ NextRow \/ EndTest
Ecu == EcuSilent \/ \E good \in BOOLEAN : EcuAnswers(good)

Next == User \/ Program \/ Ecu

Spec == Init /\ [][Next]_vars

\* The diagnosis thread goes on, and P2 ends; the user and the unit need not do anything.
FairSpec == Spec /\ WF_vars(Program)
-----------------------------------------------------------------------------
\* A unit is shown as entered only if it was heard: an answer to each command that has to
\* be answered, and the right one where the program looks at it (EnterCAN, EnterKwp,
\* EnterPWM, EnterVPW, EnterHondaPro, EnterMit_Old, EnterKwp1281).  Answers to earlier
\* requests and wrong ones are taken as well, but never an answer that did not come.
Evidence ==
  CASE kind \in J1850 -> "enter" \in right
    [] kind = "k1281" -> "address" \in right /\ heard >= 2
    [] kind = "can" -> heard >= 2
    [] OTHER -> heard >= 1

PassHeard == pc \in {"exit", "result"} /\ ok => Evidence

\* A unit that says nothing is given up, and not before it was asked as often as its
\* protocol provides: three times for a SendReceive, and the repetitions of the entry.
Requests ==
  CASE kind \in {"can", "raw", "k1281"} -> 3
    [] kind = "pwm" -> 1
    [] kind \in {"vpw", "honda"} -> 2
    [] kind = "kwp" -> 4
    [] kind \in {"single", "mit"} -> 6

SilentGivenUp == pc \in {"exit", "result"} /\ heard = 0 => ~ok /\ sent = Requests

\* Every request leaves in the form the unit reads: the wake-up frame of the one-wire CAN,
\* the initial command of the K line, which is written out with its header, and an address
\* as they are, everything else packed.
Unpacked == {<<"single", "single">>, <<"kwp", "quick">>, <<"k1281", "address">>}

WellFormed ==
  \A i \in 1 .. Len(bus) :
    bus[i].form = IF <<kind, bus[i].cmd>> \in Unpacked THEN "raw" ELSE "packed"

\* On a link that empties its queue, a frame taken for an answer came after the request was
\* sent: what CNetLayer::SendReceive clears the queue for.
AnswersFresh == clears /\ got # NoFrame => got.fresh

\* Nothing is left behind by the tests that exit: no link, and no keep-alive frame, which
\* only the KWP1281 test turns on and only until it exits.
NothingLeft ==
  /\ keep => link /\ kind = "k1281"
  /\ (\A r \in 1 .. Len(list) : TestSingleEcu[list[r]] # "pwm")
       => links = IF link THEN 1 ELSE 0

\* "Test all" ends with a verdict in every row.
AllTested ==
  [][all /\ ~all' => \A r \in 1 .. Len(list) : row'[r] \in {"ok", "failed"}]_vars

\* Whatever the unit does, a test that was started ends, and the page is back.
TestsEnd == pc = "begin" ~> pc = "main"
=============================================================================
