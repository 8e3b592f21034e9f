# TopDonDiag in TLA+

TopDonDiag is an iOS framework that lets a *vehicle application* (a diagnosis
programme in C++, delivered as a binary per vehicle) talk to a user, to a vehicle
communication interface (VCI) and to a server. The vehicle application runs on a
thread of its own and calls blocking functions; everything that answers these
calls runs elsewhere: the main thread (touches, timers, notifications, blocks of
the main queue), queues of the web socket, threads of the global queue. Very
little of that is protected by locks. The modules here model these hand-overs, and
on the far side of them the two parts of the demonstration vehicle application with a
logic of their own: the system scan with the page it drives, and the entry of control
units over the vehicle's buses. They are checked with TLC on small instances. The invariants
and the promises that something comes about are proved with TLAPS for every instance, the
promises given what `ENABLED` says of the actions.

Contents: [inventory](#1-inventory), [modules](#2-modules-and-how-they-correspond-to-the-code),
[runs](#3-what-the-runs-check), [fairness](#4-fairness),
[proofs](#5-what-is-proved), [findings](#6-where-the-code-disagrees-with-its-documentation),
[limits](#7-what-is-not-modelled), [plan](#8-plan).

Paths below are relative to `src/TopDonDiag/Classes/`, those that begin with `DEMO/`
to `src/`.

## 1. Inventory

| Component | State | Operations | Interacts by |
|---|---|---|---|
| **Screen dialogue**: `Diagnosis/Base/TDD_ArtiModelBase.m`, `Diagnosis/View/ArtiButton/*`, `Diagnosis/ViewContronller/TDD_DiagnosisViewController.m` | `objectDic` (an object per screen ID); per object `buttonArr`, `returnID`, `lastClickButtonModel`, `isReloadButton`, `isShowOtherView`, `lockTimer`, a condition; the view controller's model; the bar and its cells | Construct, Destruct, InitTitle, AddButtonEx, DelButton, SetButtonStatus, SetButtonText, Show; button, back and sub-page touches; `conditionSignal`, `conditionSignalWithTime:` | the diagnosis thread waits on the object's condition; the main thread writes `returnID` and signals |
| **Algorithm calls**: `Tools/WebSocket/TDD_ADWebSocket.m`, `TDD_NTimeUtil.m`, `RpcSend` in `Diagnosis/Model/ArtiGlobal/TDD_ArtiGlobalModel.mm`, `ArtiDiagWithCarModel` | the current socket, `isClosed`, `waitDatas`, `subscribeDict`, the heartbeat and reconnection timers, `receivePongInterval`; per call its time-out and `hasWebsocketReturn` | open, close, reconnect, send, subscribe; the socket's delegate methods; timers; RpcSend and its time-out | diagnosis thread, one queue per socket, main thread, global queue |
| **VCI initialisation**: `BLE/EABLE/TDD_VCIInitializeModel.m` | failure bits, the two statuses, retry counters, time-out flags, five timers | `vciInit`, `getMessage`, `reGetMessage`, `setInitStatus`, the Wi-Fi phase, the time-outs | one thread per connection and one per timer handler, all in blocking calls to the VCI |
| **VCI session**: `BLE/EABLE/TDD_EADSessionController.m`, its callers in `Diagnosis/Model/StdComm/TDD_StdCommModel.mm` | the accessory, the session and its streams, `_isOpeningSession`, the data to write, `isWriteData` | connect and disconnect notifications, `marryBLE`, `setupControllerForAccessory`, `openSession`, `closeSession`, stream events, OpenDevice, CloseDevice, SendToDevice, ReceiveFromDevice | main thread and communication thread, without a lock |
| **System scan**: `DEMO/DEMOSourceCode/DemoAppLayer.cpp` | where the scan stands, the report's lines, the systems to erase | scan all, pause, erase all, report, view codes, enter a system, leave | blocking `Show`s of the scan page |
| **System scan page**: `Diagnosis/Model/ArtiSystem`, `Diagnosis/View/ArtiSystem` | scan and clear status, results, buttons, what was drawn last, two questions | `SetScanStatus`, `SetClearStatus`, `SetItemResult`, taps, confirmations | the diagnosis thread sets, the main thread draws and answers |
| **Communication test**: `DEMO/DEMOSourceCode/DemoEcuTest.cpp` | a page of rows with a verdict each | test one, test all, eleven tests | creates a `CEnterSys` per test |
| **Entry of control units**: `DEMO/DEMOSourceCode/DemoEnterSys.cpp`, `DemoNet*.cpp` | a logical link per test: packing, queue clearing, keep-alive frame | `EnterSystem` per protocol, `SendReceive`, `ExitSystem` | frames over the vehicle's bus |
| **Translation**: `Tools/Traslation/TDD_TranslationManager.m`, the translation of `Diagnosis/Base/TDD_ArtiModelBase.m` and its subclasses | `translatedDic`, `isTranslating`, `isShowTranslated`, what each text is translated to; per tap its copy of the words, the batches, what is collected | the translate button, `machineTranslation`, `translation`, `queryWords`, `translationCompleted`; the setters of texts | blocks of the global queue beside one another, the diagnosis thread, the main thread; a semaphore per batch |
| Screen content: the other `Diagnosis/Model/Arti*` | rows, texts, selections of each kind of screen | setters, `ArtiButtonClick:` overrides, the message box's timer | subclasses of the dialogue's base |
| Cloud requests: IoT, vehicle and gateway authorisation, parts of the global model | the request under way | one blocking request each | a semaphore without a limit |
| Diagnosis life cycle: `Diagnosis/Tools/TDD_DiagnosisManage.mm` | settings, the loaded vehicle, the function mask | load, enter, leave | the host application's delegate |
| Bluetooth centre and TDarts: `BLE/HBLE/TDD_HMBLECenterHandle.m`, `Diagnosis/Tools/TDD_TDartsManage.m` | peripherals found, the one connected, a connection time-out | scan, connect, write, read | CoreBluetooth callbacks, notifications |
| ELM327: `src/E/BluetoothELM327` | the reply being assembled, the command queue | send, receive, time-outs | Bluetooth callbacks |
| History, database, views, categories, rest of the demonstration, example, pods | | | |

What is hard: a screen's answer can arrive before, during and after the `show` it
is meant for; a signal to a condition nobody waits on is lost, a signal to one
somebody new waits on ends the wrong wait; the socket is used by four kinds of
threads at once and its reopening is deferred; initialisation handlers overlap
with the run they belong to and with one another; the accessory can vanish at any
point of an opening that two threads may be carrying out; the scan page is tapped as it
was drawn last while the application has moved on; a control unit's answer can come
when it is no longer waited for; several translations share one dictionary. `PROJECT.json` lists the hazards line by line.

What makes each modelled component correct:

- *Dialogue*: an answer is delivered at most once; an answer that waited for a
  button since removed or disabled is dropped; a waiting thread can always be
  reached; a refreshing screen returns by itself; what the user sees is what the
  model says.
- *Algorithm calls*: a call returns, whatever the network does; an open
  connection is watched; a dropped one is replaced; after the diagnosis all comes
  to rest.
- *Initialisation*: it ends, although calls may never return; "success" means
  the values are there; after the end nothing is asked; the Wi-Fi module gets its
  turn.
- *Session*: an accessory that is gone does not stay on record; one that stays
  gets a live session, whatever is left from earlier; a write ends.
- *System scan*: a finished scan has examined every system, however often it was
  paused; erasing is offered only when there is something to erase and nothing else
  under way; the report says what the page says; scans and erasures end.
- *Communication test*: no unit passes that was not heard, and none is given up before
  it was asked as often as its protocol provides; requests leave in the form the unit
  reads; nothing outlives a test; every row gets its verdict.
- *Translation*: no word is given another's translation, however the words are cut,
  answered or not; what a tap asked for it gets, if nothing comes between; the dictionary
  is empty when nobody uses it; the screen does not go on saying that it is being translated.

## 2. Modules, and how they correspond to the code

| Module | Content |
|---|---|
| `ArtiModel` | the screen dialogue, threads and all |
| `Dialog` | what a blocking `show` promises, without threads, queues, views or timers; `ArtiModel` implements it |
| `ArtiModelMC` | instances: a message box, a menu, live data beside a box |
| `ArtiModelProofs` | nine theorems: the answers, the way to a waiter, the refinement; what is on the screen, and which early answers are kept; that `show` returns |
| `ADWebSocket`, `ADWebSocketMC`, `ADWebSocketProofs` | algorithm calls |
| `VCIInit`, `VCIInitMC`, `VCIInitProofs` | VCI initialisation |
| `EADSession`, `EADSessionMC`, `EADSessionProofs` | VCI session |
| `SystemScan`, `SystemScanMC`, `SystemScanProofs` | the system scan: the application's loop and the page, composed |
| `ScanRound` | the rounds of a scan as the rules at the head of `ArtiSystem.h` tell them; `SystemScan` implements it |
| `EcuEntry`, `EcuEntryMC`, `EcuEntryProofs` | the communication test and the entry of control units |
| `Translation`, `TranslationMC`, `TranslationProofs` | the machine translation of a screen |
| `TemporalInduction` | induction over numbers and finite sets, for the proofs that something comes about |

Common conventions. An action is what one thread does between two points where
another can act: a blocking call, a wait, a queued block, or a read of a shared
variable that is used afterwards. Variables and actions keep the source's names
where they have one. A bound that only keeps the state space finite is a constant
named `Max...`. An operator commented "Mutant" is a plausible slip in the
definition below it; nothing refers to it, it is there to show that a property
can tell the difference. `PROJECT.json` maps every other definition to its lines.

**ArtiModel.** `reg` is `objectDic`; the other per-object variables are
properties of `TDD_ArtiModelBase`. Memory is explicit: a screen or button object
is free when nothing refers to it (`Referenced`, `ReferencedBtn`), so a destroyed
screen can be replaced while the main queue still holds the old one. `pc` walks
the diagnosis thread through `show`: look at the left-over answer, reset it,
publish the screen, wait, read the answer, clear it, each its own step as no
lock covers more. `mainQ` is the main queue: a block shows a screen, starts a
timer or binds the button cells. A touch takes three steps on the main thread
(`ClickButton`, `AcceptClick`, `ConditionSignal`), which the diagnosis thread can
interleave with. `Refreshing`, `WithSubPage` and `SwallowIds` say what the
subclass of a screen overrides.

`Dialog` has the answers as a box per screen. Under the mapping in `Abstract` the
box holds the screens whose `returnID` the user has written since it was last
taken; `cur` is the screen asked on; the value `show` is about to hand over is
`reply`. It states in particular that once a show waits its answer is not lost
until it is taken, and that it takes no other screen's.

**ADWebSocket.** The diagnosis thread's `pc` is its position in `RpcSend` and in
`sendSubscribeData`; a socket object has a state, delegate methods to run
(`events`) and requests the server has (`atServer`). `webSocketDidOpen` is two
steps, as the requests that come in between its loop and `removeAllObjects` are
forgotten. `delayed` holds the blocks of `dispatch_after`, `inbox` those of
`dispatch_async` to the main queue. A socket object may be used again when it has
nothing left to do.

**VCIInit.** `at` is the blocking call each thread is in; an action is the return
of one and all the thread does up to the next. Timers count ticks; time passes
whenever no handler is due, so a call may outlast any timer.

**EADSession.** An accessory stands for one connection of a device. `pc` and
`arg` are each thread's position in the mutually recursive `marryBLE`,
`setupControllerForAccessory:` and `openSession`; the recursion is bounded because
only the caller that has set `_isOpeningSession` nests. `link` tells what the
session's streams would say.

**SystemScan.** `pc` is the `Show` of `StartAppLayer` the application is at and `phase`
whether it is about to call it, waits in it or is back from it; between two `Show`s it
takes one step. `result`, `scanStatus`, `clearStatus` and `on` are the page model's;
`drawn` is what the user sees and taps, brought up to date only by `Redraw`, a block of
the main queue. `answer` is `returnID`: it waits for the next `Show`, whatever that is
for. `alert` is the question before leaving or erasing. The pages the application opens
(report, codes, a system's functions) are one visit each, in which the scan page is
covered. `car` holds what the vehicle is: which systems exist and have codes, which rights
the entry type has, whether the product asks before it erases. `Show`'s own handshake is
`ArtiModel`'s subject; here it returns at some point with what answer there is.

`ScanRound` counts the systems a round has examined. Under the mapping in `Abstract` that
is `iScan`, and what the page shows after the last system is `finish`.

**EcuEntry.** `kind` is the protocol of the row under test, `cmd` and `io` the exchange
the entry is in, `try` and `attempt` the repetitions inside `SendReceive` and of the entry
around it. `bus` has the requests the unit has yet to deal with, `queue` the frames
the link has received; a frame carries the command it answers, whether it says what the
program looks for and whether it came after the latest request (`fresh`, which only the
properties read). Each `...Done` action is what one protocol's entry makes of the end of
an exchange. `sent`, `heard` and `right` are the link's history. Once a link is deleted
the frames that still come are nobody's. Left out: pins, rates, times, identifiers, the
filter for negative responses; `EnterTp20`, which nothing calls, and `InitProtocol`, which
only `DemoAPITest.cpp` does. The commands to exit with are empty in every test.

**Translation.** A text stands for any of the strings of a screen that have a translated
twin and a flag (`strItem`, `strButtonText` and so on); the title is apart, as it alone is
looked up by what is shown of it. `pc` is the place of each tap's block: it collects
(`Collect`), copies the dictionary's keys (`Copy`), cuts them into batches word by word
(`AddBlank`, `CloseSection`, `AddWord`), waits for one batch after the other (`Reply`),
stores (`Store`), gives the texts their translations (`Look`, `Take`, `Applied`) and takes
its words out of the dictionary (`Clear`). The main thread, on which the translation is
turned off, takes only the part from `Look` to `Applied`. `translationCompleted` tests a
word and then reads it again, hence `Look` and `Take`. `Delegates` says whether the host
application translates, which is given all words for each batch. The service is taken to
answer one translation per word, or not at all; a failed batch is a reply without data.
The limits in bytes and in words are one number, and a subclass's collecting is one step
with its base's, although the base's is a block of its own. `alone` is history that only
`AskedIsTranslated` reads. Left out: the tip that translation failed, the counting of
translated characters, the notification that reloads the screen.

## 3. What the runs check

| Run | Instance | Shows |
|---|---|---|
| `arti_box` | a box with a report button, or a free one once that is deleted; 2 screen objects, 2 button objects, 2 blocks queued | `TypeOK`, `AnswerIsFresh`, `ScreenMatchesModel`, `StaleAnswerDropped`, `ImplementsDialog` |
| `arti_live` | live data (refreshing, with a page of its own) beside a box, 2 screen objects | `WaiterReachable`, `RefreshReturns`, `AnswerEndsShow` |
| `arti_blocking` | a menu without buttons; only "back" | violation, see 6 |
| `socket_calls` | 2 calls, 1 socket object | `TypeOK`, `CallHasTimer` |
| `socket_return` | 1 call, 1 socket object, fair | `RpcReturned` |
| `socket_reconnect` | no call, 2 sockets whose delegate methods overlap, fair | `PingWatchesOpen`, `ReconnectsAfterDrop`, `ClosedGoesQuiet` |
| `socket_closed` | no call, 1 socket object | violation, see 6 |
| `init_one` | one connection; limits of 1, 2, 3 and 4 ticks | `TypeOK`, `SuccessComplete`, `StopsAsking`, `VciInitEnds`, `WifiFollows` |
| `ead` | 2 connections, 1-byte writes, 1 notification and 1 block waiting | `TypeOK`, `StaleNoticed`, `Reconnects`, `SendEnds` |
| `scan` | 2 systems; 3 vehicles: a missing system behind and before one with codes, a product that asks before erasing, an entry without each right; 1 system entered before the first scan; fair | `TypeOK`, `EraseOffered`, `ReportMatchesPage`, `ImplementsRounds`, `ScanEnds`, `EraseEnds` |
| `ecu` | 5 lists of one or two rows with every protocol between them, 2 tests started; fair | `TypeOK`, `PassHeard`, `SilentGivenUp`, `WellFormed`, `AnswersFresh`, `NothingLeft`, `TestsEnd` |
| `translate` | a title and a row with two texts in turn, one of them too long; 2 taps under way at a time, 2 words a batch; by the service or by the host application | `TypeOK`, `Aligned`, `CacheEmptied`, `AskedIsTranslated` |

Why these bounds. *Dialogue*: the hazards need an object replaced while another
still refers to it (two objects) and a button deleted or disabled after it was
tapped (two buttons, one of them greying itself); two queued blocks are a show
and the reload it causes. With both buttons in the box at once (`MaxButtons = 2`,
2.5 million states, two minutes) the same properties hold. *Algorithm calls*: the hazards need a second call to
find what the first has left (two calls), and a socket that opens or fails after
it was replaced (two sockets); each instance has one of these, as together they
are out of reach, and the invariants of both are proved for every size. One
heartbeat without an answer is already the limit: larger limits only delay the
same step. *Initialisation*: only the order of the four limits matters to the
code, and the instance keeps it; all three retries are reached. *Session*: an
accessory is left on record and another attached (two); a write of one byte
already has "nothing written", "all written" and "given up". *Scan*: with two systems
a scan can be paused between them, and each can be the one that is missing or has codes;
every right and the product's question occur in one of the vehicles. *Control units*: a
test depends on an earlier one only through what that left behind, and two rows, or two
tests started, have an earlier one; every protocol is in some list, with the one that
leaves its link behind beside one that does not. Both modules' invariants are proved for
any number of systems, vehicles, rows and tests. *Translation*: two taps are enough for one
to take out what the other has put in; with three words and two a batch a tap may have one
batch, two, or one and a blank that is lost, as a tap that finds another's words in the
dictionary has all three. The invariants are proved for any of these numbers.

`arti_box` uses symmetry and a `VIEW` that hides what freed memory holds, and the
socket runs without temporal properties use a `VIEW` that hides history: neither
is used where a property is about liveness. Deadlock is checked except in
`init_*`, where an initialisation ends and nothing more happens, and in `ecu`, where the
page is left. `translate` uses symmetry between the taps, and has no liveness.

`socket_return` and `socket_reconnect` together cover what one run could not;
`ConnectingSpec` adds that the network lets a connection through now and then.

## 4. Fairness

Assumed is what the operating system's scheduling gives and nothing of people or
networks:

- `ArtiModel!Fairness`: the diagnosis thread inside `show`, a touch being
  handled, the main queue and each running timer are served. The queue and timers
  need strong fairness since a touch disables them while it is handled. No
  fairness for taps: a blocking screen may wait for ever.
- `ADWebSocket!Fairness`: threads, delegate queues, timers, blocks. Strong
  fairness for the reconnection timer, whose tick a socket that is connecting
  disables. `SocketsEnd`: a socket that was replaced is eventually ended by the
  network, so that the finite pool of socket objects is not used up, which memory
  never is. No fairness for replies: a server may be silent.
- `VCIInit!TimedSpec`: time passes and handlers run; calls may never return.
  `AnsweredSpec` adds that they do.
- `EADSession!FairSpec`: both threads run and the main run loop serves its
  sources in turn; when the framework is asked for a session with an attached
  accessory again and again it makes one at some point; the communication thread
  opens the device again after a failure, as the library does, and meanwhile
  tries to receive. Accessories and streams need not come, stay or work.
- `SystemScan!FairSpec`: the application goes on, the page is drawn, and a page that
  covers it is left at some point. Nothing is assumed of the user.
- `EcuEntry!FairSpec`: the program's thread goes on and the time it waits for an answer
  ends, one weak fairness condition for both. The unit need not answer, and the user need
  not start a test or leave.

## 5. What is proved

Each theorem holds for every value of the constants that satisfies the module's
assumptions (which only say that the sets' nil values are outside them and that
bounds are numbers in order). Some have a hypothesis of their own as well.
Three theorems about `VCIInit` need `OneRun`: there is one connection.
`ScreenShowsModel` needs `OneReport`: no screen is born with two report buttons
and none swallows the tap of one that greys itself. In the source every list of
built-in buttons has at most one, `AddButtonEx` never makes another (its ids count
from 0), and a report tap is swallowed only with an expired licence
(`TDD_ArtiSystemModel.mm:1140`), when the button bar does not grey it either
(`TDD_ArtiButtonCollectionView.m:230`).
`EarlyAnswersChecked` needs `NoSwallow`: with swallowed taps the property is
false, as the last table of section 6 says.

| Theorem | States | Inductive invariant and why it is needed |
|---|---|---|
| `ArtiModelProofs!TypeCorrect` | `[]TypeOK` | inductive with its last conjuncts: inside `show` there is an object, a touch being handled has a button and a screen |
| `ArtiModelProofs!AnswersAreFresh` | `[]AnswerIsFresh` | `FreshInv` adds `IdsAreAnswers`: no button is called `DF_ID_NOKEY`, or accepting it would look like no answer |
| `ArtiModelProofs!WaitersAreReachable` | `[]WaiterReachable` | `WaiterInv`: the property itself allows a screen that is up and about to be covered; `WillBeReached` says which block comes last, so that serving the queue's head never hides the only way to the waiter |
| `ArtiModelProofs!DialogImplemented` | `ImplementsDialog` | under `FreshInv` every action is one of `Dialog`'s or a stutter: `ShowRead` is `Take`, `ShowClear` is `Return`, `AcceptClick` and `BackClick` are `Answer` |
| `ArtiModelProofs!ScreenShowsModel` | `OneReport /\ Spec => []ScreenMatchesModel` | `ScreenInv`: buttons of objects something points to are `Apart`, so a change to one screen cannot show on another; the bar has the screen's buttons unless `isReloadButton` is set, the cells the bar's unless a block for them is queued (`Showing`); a reload asked for before the wait is on its way (`Coming`). The one exception is a ghost: a hidden report button tapped through a cell that has not been rebound becomes visible by being greyed; `Ghostless` says that no such tap is left once the thread waits |
| `ArtiModelProofs!EarlyAnswersChecked` | `NoSwallow /\ Spec => StaleAnswerDropped` | `Named`: an answer other than "back" is the id of `lastClickButtonModel`, unless a click that will overwrite it is being handled; memory that is still pointed to is not constructed anew, so the button keeps its id |
| `ADWebSocketProofs!TypeCorrect` | `[]TypeOK` | inductive with "in a call only inside a diagnosis" |
| `ADWebSocketProofs!HeartbeatWatches` | `[]PingWatchesOpen` | inductive given `TypeOK`: whatever stops the heartbeat takes the socket away in the same step, and a socket becomes open with its delegate method queued |
| `ADWebSocketProofs!CallsHaveTimers` | `[]CallHasTimer` | `CallInv`: a call that has not been made has no time-out, answer or subscription, so what is left from earlier calls cannot end this one's time-out |
| `VCIInitProofs!TypeCorrect` | `[]TypeOK` | inductive as it stands, for any number of connections |
| `VCIInitProofs!SuccessIsComplete` | `OneRun /\ Spec => []SuccessComplete` | `VciInv`: the run, the retry's timer and the retry take turns (`Turns`), so whoever says how it ended is the last to be asking; until then only the time-out may have decided (`Undecided`), and each value is known, noted in `failIndex` or still ahead of the run (`Known`). The Wi-Fi phase, which notes its own failures there, comes only with a Wi-Fi module (`WifiSupported`, `NotYet`). Of two runs it is false: see `SuccessHasSN` below |
| `VCIInitProofs!AskingStops` | `OneRun /\ Spec => StopsAsking` | from `Undecided`: a thread that asks on has seen that the time is not up, so nobody has ended it |
| `EADSessionProofs!TypeCorrect` | `[]TypeOK` | part of `IInv`; the bytes written and left never exceed the message, although closing the session clears what is left in between |
| `EADSessionProofs!StaleAccessoryNoticed` | `[]StaleNoticed` | `IInv` says who will notice: the main thread is to be told (`Told`), or is about to forget the accessory (`Forgets`), or the communication thread has yet to try it or to forget it (`FindsOut`). The main thread handles notifications only between its own openings, so what it has matched it is still to be told about; what the communication thread has matched it tries, since only it holds `_isOpeningSession` and there is no session until it makes one (`Owned`) |
| `SystemScanProofs!TypeCorrect` | `[]TypeOK` | part of `IInv` = `TypeOK` and five parts; inside the scan's loop the status is "start" and there is a system left (`Places`) |
| `SystemScanProofs!FinishIsComplete` | `[]FinishShowsAll` | the systems before `iScan` have results (`Passed`); entering a system or erasing never takes one away |
| `SystemScanProofs!EraseOfferedSafely` | `[]EraseOffered` | given with `Places`: where the statuses may be set decides which of them meet |
| `SystemScanProofs!ReportFollowsPage` | `[]ReportMatchesPage` | `Lines`: unless a system was entered too early or a missing one comes first, line i of the report is system i's and lists what the page shows, and during an erasure what is still to be erased has a line; `PausePending` says where a paused scan stands |
| `SystemScanProofs!Refines` | `ImplementsRounds` | under `IInv` every action is a step of `ScanRound` or a stutter |
| `EcuEntryProofs!TypeCorrect` | `[]TypeOK` | with `Place` and `Course`: which command and repetition each protocol can be at |
| `EcuEntryProofs!PassIsHeard` | `[]PassHeard` | `Heard`: a frame got, queued or already used was counted, and one that was right is in `right`; `Noted` and `PassHeard` itself for what an entry has put behind it |
| `EcuEntryProofs!SilenceIsGivenUp` | `[]SilentGivenUp` | `Count`: while nothing was heard the number of requests is a function of protocol, command and repetitions |
| `EcuEntryProofs!RequestsWellFormed` | `[]WellFormed` | `Course` says when the packing is on |
| `EcuEntryProofs!FreshAnswers` | `[]AnswersFresh` | `QueueFresh` and `Waiting`: on a link that clears its queue no frame is older than the last request while it is waited for |
| `EcuEntryProofs!NothingIsLeft` | `[]NothingLeft` | with `Place`, which says when there is a link |
| `EcuEntryProofs!AllRowsTested` | `AllTested` | `RowsDone`: the rows before the one under test have verdicts |
| `TranslationProofs!TypeCorrect` | `[]TypeOK` | with `AtWord`: a block that cuts is at one of its words, or adding it would read past them |
| `TranslationProofs!AlignedCorrect` | `[]Aligned` | `Batches`: the batches hold the words, or blanks, in order, the first one those after what is answered; `Answers`: as long as what is collected is not more than the words it belongs to them. Over the host application that needs more: what is collected is blanks until one answer fills it, and a second answer makes it too much |
| `TranslationProofs!CacheEmptiedCorrect` | `[]CacheEmptied` | `Held`: each word in the dictionary has a block that has copied it or is about to copy |
| `TranslationProofs!SpinnerCorrect` | `[]SpinnerMeansWork` | inductive given `TypeOK`: the step that sets the flag begins the work, the step that ends any block's work takes it back |
| `TranslationProofs!AskedIsTranslatedCorrect` | `AskedIsTranslated` | on top of the invariant of the others. `Alone`: beside a tap that is served alone all is idle, so only its own steps count. `CleanCuts`: its batches have no blank, together hold all words, and are one within the limit; `Collecting`: what is answered is translations, in the end one for each word; `Applying`: the dictionary has them all, and every text that is through has its own. `Undone`: a title whose shown text cannot be looked up any more has been translated before |

Three of these are proved and in no run's list: `FinishShowsAll`, which
`ImplementsRounds` contains for the most part, `AllTested` and
`SpinnerMeansWork`. TLC found each to hold on its run's instance before it was
proved.

Proofs are by one lemma or step per action. Sequences need small lemmas of their
own (what a queue contains after one of its ends has moved).

That something comes about is proved from the fairness of section 4 and one hypothesis
more. The provers do not look into `ENABLED`, so each module of proofs states under
`GuardsEnable` (`SocketGuardsEnable` for what `ReconnectionRests` needs, and with more
`DropGuardsEnable` for `DroppedReconnects`) what `ENABLED` says of the actions the argument waits for: where the action's own guard holds, the
action can be taken. It is a conjunction of such facts and nothing else. TLC evaluated
each in every reachable state of the runs' instances and found it true.

| Theorem | States | Argument |
|---|---|---|
| `ArtiModelProofs!AnswersEndShows` | `FairSpec /\ []GuardsEnable => AnswerEndsShow` | a signal about to be sent stays so until the main thread sends it (`Signalled`), and finds the waiter; from "woken" two steps of the diagnosis thread lead back |
| `ArtiModelProofs!TimersEndShows` | the same `=> TimerEndsShow` | a running timer of the screen waited on keeps running until it fires or something else wakes the thread. A touch disables it, but the main thread is idle again and again (`IdleRecurs`), which strong fairness needs |
| `ArtiModelProofs!RefreshesReturn` | the same `=> RefreshReturns` | a waiter whose timer does not run has its block in the main queue (from `WaiterInv`); by induction on the blocks before it the queue reaches it, its block starts the timer, and the timer ends the wait |
| `ADWebSocketProofs!CallsReturn` | `FairSpec /\ []GuardsEnable => RpcReturned` | place by place through `RpcSend`; in its wait `CallInv` says that either there is a result, which only the diagnosis thread takes, or the call's own time-out is to come |
| `ADWebSocketProofs!ReconnectionRests` | with two socket objects, `FairSpec /\ []SocketGuardsEnable => ClosedGoesQuiet` | after `close`, `reconnect` queues no further opening, so the last block that opens a socket gets nearer the queue's head with each block run (`LastOpen`). A socket other than the current one ends and does the finitely many delegate methods it has left (`EventsLimited`, `Work`), so the block at the head finds one. Without a second object the model's reconnection could only wait for memory, which is no property of the code |
| `ADWebSocketProofs!DroppedReconnects` | with finitely many socket objects, `ConnectingSpec /\ []DropGuardsEnable => ReconnectsAfterDrop` | `DropOK`: beside a socket that dropped a timer runs, a heartbeat is to come, or the socket has yet to report that it opened or failed (`Watched`), the opening before anything else (`OpenedFirst`). If a block waits to open the next socket it comes to the queue's head (`Coming`) and finds one there (`Fading`). If none does, the dropped socket reports (`Telling`); then `Blocks`, the blocks queued and twice the sockets that have yet to report themselves open, falls until no report can stop the timers any more, and the heartbeat or the reconnection timer ticks and asks for a socket. The network lets one of those through (`Passes`) |
| `VCIInitProofs!InitialisationEnds` | `OneRun /\ TimedSpec /\ []GuardsEnable => VciInitEnds` | `LimitInv`: while it is undecided the limit's timer is running down; induction on twice the time left, and one more if a handler is due. No call need return |
| `VCIInitProofs!WifiPhaseFollows` | for a finite `Run`, `Spec /\ []GuardsEnable => WifiFollows` | `WifiTurn`: once the VCI is decided, some thread is about to ask the Wi-Fi module, unless its status is set; the call of each of finitely many threads returns |
| `EADSessionProofs!EverySendEnds` | `FairSpec /\ []GuardsEnable => SendEnds` | `LimitSet`: a write has its limit set, or the block that sets it queued, or the flag it stops at. Each opening by the main thread ends (`Rank`), so the queue drains block by block and the limit fires |
| `EADSessionProofs!SessionComesBack` | the same `=> Reconnects` | an accessory that stays is on record again: the notices before its own are handled one by one, and `LinkTrue` says that a dead stream will be told of. Then the communication thread gets nearer to a session with each step (`Distance`), or the framework keeps refusing one, which strong fairness of `AllocSession` excludes |
| `SystemScanProofs!EveryScanEnds` | `FairSpec /\ []GuardsEnable => ScanEnds` | induction on the systems left and, within one, the steps of the `Show`s it needs; steps of the page and of the user leave the application where it is, and each of its own steps lowers `Left` |
| `SystemScanProofs!EveryEraseEnds` | the same `=> EraseEnds` | the same with the systems to erase; an entry without the right is left out by the property itself |
| `EcuEntryProofs!EveryTestEnds` | `FairSpec /\ []GuardsEnable => TestsEnd` | induction on the rows left and, within a row, on the exchanges, repetitions and steps its protocol may still need; a unit that answers only shortens it |

Induction in these proofs is on how far away the goal is: `F(n)` says that what is n
steps away comes about, and is itself a temporal formula. `TemporalInduction` proves
induction for a function over the numbers (from the pigeonhole principle) and over finite
sets; the proofs take the function whose value at n is the truth of `F(n)` in the
behaviour at hand. `TimersEndShows` is in no run's list: `arti_live` has its consequence,
`RefreshReturns`.

Only model-checked: the truth of `GuardsEnable` and its like, which are about `ENABLED`,
and the two runs that find a violation.

## 6. Where the code disagrees with its documentation

With a run each; the counterexamples are a few steps long.

- `arti_blocking`: a second answer's signal that comes after the first has been
  read and cleared wakes the *next* show of the screen, which returns
  `DF_ID_NOKEY` from a screen only the user can answer (`:378`, `:386`).
- `socket_closed`: a reconnection begun before `close` opens a socket after it;
  it stays until the next diagnosis (`TDD_ADWebSocket.m:153`).

Without a run. These definitions are kept beside the others and can be given to
TLC as they are:

| Definition | Instance that refutes it | What happens |
|---|---|---|
| `DelButtonDeletesNamed` | a menu with up to 3 buttons | DelButton takes its argument as a position although it is documented as the ID AddButtonEx returned; after one deletion it deletes a different button (`TDD_ArtiModelBase.m:185`) |
| `OtherViewMeansSubPage` | `arti_live`'s | a show block that is queued when the user opens the live-data page replaces the page and leaves `isShowOtherView` set; later shows of the screen only wait for its timer |
| `StaleAnswerDropped` | live data alone (`LiveID`), one object, two buttons | a swallowed tap replaces `lastClickButtonModel`, so a stale answer from before it is no longer recognised |
| `OwnAnswer` | `socket_return`'s | every message ends every subscription: a heartbeat's answer, or another call's late one, is handed to the call |
| `WaitingIsSent` | `socket_return`'s | a request whose send failed as the socket was still connecting is kept while `webSocketDidOpen` is between sending and forgetting, and is forgotten unsent |
| `HeartbeatLossReconnects` | `FairSpec`, no calls, one socket, `PongLimit = 2` | unanswered heartbeats start the reconnection timer, which stops when it finds the socket open |
| `SuccessHasSN` | `init_one`'s with `Run = {run1, run2}` | a run's late answer lands in the next run's model |
| `VciInitEnds` | the same | the first run's time-out handler cancels the second's timers |
| `WifiEnds` | `init_one`'s | each poll restarts the two-minute limit for the Wi-Fi module, which therefore never ends the polling (`TDD_VCIInitializeModel.m:230`) |
| `FailIndexTrue` | `init_one`'s | a failure to get the Wi-Fi module's type is noted in the VCI's failure bits, where its bit means the Bluetooth version, which then counts as missing although it is known (`TDD_VCIInitializeModel.m:509`, against `TDD_VCIInitializeModel.h:40`) |
| `OpenMeansSession` | `ead`'s with two notifications waiting | `openSession` answers YES to a thread while the other is still opening; OpenDevice reports a connection there may never be (`TDD_StdCommModel.mm:55`) |
| `StopPauses` | `scan`'s | a tap on STOP that comes while the page is only redrawn is thrown away with what that `Show` returns (`DemoAppLayer.cpp:305`); rule 12 of `ArtiSystem.h` wants a pause at once |
| `NotLeftScanning` | `scan`'s | BACK given to the same `Show` leaves the page in the middle of a scan, against rule 4 |
| `ClearReported` | `scan`'s | an erasure that is refused for want of the right is never reported done (`DemoAppLayer.cpp:372`), and the page's buttons stay off, against rules 7 and 11 |
| `BatchLimit` | `translate`'s | the host application is given all words for each batch (`TDD_TranslationManager.m:50`), which no longer keeps to the limit of line 23; with two batches what it answers is too much and thrown away. A long word is added to a full batch without a look at the limit (`:175`) |
| `SentOnce` | `translate`'s | a tap sends the words another one is having translated as well, as it copies the whole dictionary (`TDD_ArtiModelBase.m:520`, against the comment at `:472`) |
| `DoneIsTranslated` | `translate`'s | a text is looked up, then read again: if another block takes the word out in between, or the text is set, it is marked as translated without being so (`TDD_ArtiModelBase.m:566`, against `TDD_TranslatedModel.h:15`) |

Met while reading, not expressed as a property: SendToDevice returns one less
than the bytes sent (`TDD_EADSessionController.m:49`, against
`TDD_StdCommModel.mm:122`); the message box's timer can answer the box's next show
(`TDD_ArtiMsgBoxModel.mm:781`) and puts back button statuses by position from a
list that earlier shows may have left longer (`:787`); the confirmation of a
fault-code erase reads the view controller's model again when it is given
(`TDD_DiagnosisViewController.m:1439`); a last word over the limit drops the
translation batch it would have closed (`TDD_TranslationManager.m:174`), which
`AskedIsTranslated` therefore leaves out.

## 7. What is not modelled

- Of the dialogue: the content of screens, texts, the toast and alert layers, the
  dozens of `ArtiButtonClick:` overrides beyond "swallows, and may open a page",
  `isLock = NO` models (they never wait), the message box's timer, the
  confirmation of an erase, and the navigation stack.
- Of algorithm calls: payloads, encryption, the log upload; two requests are
  assumed not to share a key (its second-resolution time stamp).
- Of initialisation: the values themselves and what the host application does
  with the notifications.
- Of the session: received bytes, the low-voltage alert, the VCI status, the
  arithmetic of the SN checks (a switch the environment throws), the disused
  background time-out.
- Binary frameworks (the vehicle application, the StdComm and StdShow libraries)
  are seen only through their calls. Vendored pods, assets, generated and layout
  code are left aside.
- Data races on single properties are taken as atomic reads and writes:
  Objective-C object properties here are word-sized, and none of the properties
  depends on a torn value.

## 8. Plan

Written, in this order: `ArtiModel` with `Dialog` and proofs; `ADWebSocket` with
proofs; `VCIInit` with proofs; `EADSession` with proofs; `SystemScan` with `ScanRound` and
proofs; `EcuEntry` with proofs; `Translation` with proofs.

What could follow, in order of weight:

1. `ArtiModel`: the message box's timer (`modelUnlock`) and the erase
   confirmation as actions, with the answers they misplace.
2. `Elm327`: reassembly of replies (`Connector.m`) as a function on chunked input
   against the undivided reply, and the command queue with its time-outs.
3. `BLECenter`: scan, connect and connection time-out against late callbacks,
   with TDarts as its client.
4. `DiagLife`: entering and leaving a vehicle, as the composition of the dialogue
   and the algorithm calls on the one diagnosis thread; the function mask as a
   pure algorithm.
5. An abstract call/return specification that `ADWebSocket`, the IoT request and
   the authorisation calls implement, or fail to where they wait without a limit.
