------------------------------ MODULE EADSession ------------------------------
(***************************************************************************)
(* The session with the vehicle communication interface (VCI).             *)
(*                                                                         *)
(* TDD_EADSessionController keeps the VCI's accessory and a session with   *)
(* it.  Two threads open and close that session without a lock: the main   *)
(* thread, on notifications of the External Accessory framework and on     *)
(* events of the session's streams, and the communication thread of the    *)
(* StdComm library, through OpenDevice, CloseDevice, SendToDevice and      *)
(* ReceiveFromDevice.  A thread's step is what it does between two reads   *)
(* of what the other may change.                                           *)
(*                                                                         *)
(* An accessory stands for one connection of a device.  Whether the SN     *)
(* checks refuse communication is a switch the environment throws.         *)
(***************************************************************************)
EXTENDS Integers, Sequences, FiniteSets

CONSTANTS
  Acc, NoAcc,
  Size,        \* bytes of a message to send
  MaxNotices,  \* bound on notifications that wait for the main thread
  MaxQueue     \* bound on blocks that wait for the main thread

ASSUME EADAssumption ==
  NoAcc \notin Acc /\ Size \in Nat \ {0} /\ MaxNotices \in Nat /\ MaxQueue \in Nat

VARIABLES
  connected, notices,   \* the framework: attached accessories, notifications to come
  refused,              \* whether the SN is disabled, or not the selected one
  accessory,
  session,              \* the accessory the session is with
  link,                 \* the session's: see Link
  opener,               \* who has set _isOpeningSession
  pc, arg,              \* where each thread is, and the accessory it works with
  isWriteData, left, bytesWritten,  \* SendToDevice
  queue, armed          \* dispatched blocks, and the delayed cancelWriteData

frameVars == <<connected, notices>>
sessVars == <<accessory, session, link>>
writeVars == <<isWriteData, bytesWritten>>
mainVars == <<queue, armed>>
vars == <<frameVars, refused, sessVars, opener, pc, arg, writeVars, left, mainVars>>

Thread == {"main", "comm"}
Accessory == Acc \cup {NoAcc}

\* A session that has lost its accessory is dead; gone, when the session says so.
Link == {"none", "live", "dead", "gone"}
InOpen == {"marry", "setup", "assign", "open", "alloc", "created", "opened"}
Block == {"arm", "disarm"}

TypeOK ==
  /\ connected \subseteq Acc
  /\ notices \in Seq({"connect", "disconnect"} \X Acc)
  /\ refused \in BOOLEAN
  /\ accessory \in Accessory /\ session \in Accessory /\ link \in Link
  /\ opener \in Thread \cup {"nobody"}
  /\ pc \in [Thread -> InOpen \cup {"idle", "ready", "failed", "write"}]
  /\ pc["main"] \notin {"ready", "failed", "write"}
  /\ \A t \in Thread : opener = t => pc[t] \in InOpen
  /\ arg \in [Thread -> Accessory]
  /\ isWriteData \in BOOLEAN /\ left \in 0 .. Size /\ bytesWritten \in -1 .. Size - 1
  /\ queue \in Seq(Block) /\ armed \in BOOLEAN

Init ==
  /\ connected = {} /\ notices = <<>>
  /\ refused = FALSE
  /\ accessory = NoAcc /\ session = NoAcc /\ link = "none"
  /\ opener = "nobody"
  /\ pc = [t \in Thread |-> "idle"] /\ arg = [t \in Thread |-> NoAcc]
  /\ isWriteData = FALSE /\ left = 0 /\ bytesWritten = -1
  /\ queue = <<>> /\ armed = FALSE
-----------------------------------------------------------------------------
(* The framework, and the host application's SN checks.                    *)

Attach(a) ==
  /\ a \notin connected \cup {accessory, session, arg["main"], arg["comm"]}
  /\ \A i \in DOMAIN notices : notices[i][2] # a
  /\ Len(notices) < MaxNotices
  /\ connected' = connected \cup {a}
  /\ notices' = Append(notices, <<"connect", a>>)
  /\ UNCHANGED <<refused, sessVars, opener, pc, arg, writeVars, left, mainVars>>

Detach(a) ==
  /\ a \in connected /\ Len(notices) < MaxNotices
  /\ connected' = connected \ {a}
  /\ notices' = Append(notices, <<"disconnect", a>>)
  /\ IF session = a THEN link' \in {"dead", "gone"} ELSE UNCHANGED link
  /\ UNCHANGED <<refused, accessory, session, opener, pc, arg, writeVars, left, mainVars>>

\* The selected SN, the VCI's own or the ban on it changes.
Check ==
  /\ refused' = ~refused
  /\ UNCHANGED <<frameVars, sessVars, opener, pc, arg, writeVars, left, mainVars>>
-----------------------------------------------------------------------------
(* What both threads run.                                                  *)

Goto(t, label) == pc' = [pc EXCEPT ![t] = label]

\* Where setupControllerForAccessory returns to: openSession, which has called
\* it to match an accessory or to forget one, or else the main run loop.
AfterSetup(t) ==
  Goto(t, IF opener # t THEN "idle" ELSE IF arg[t] = NoAcc THEN "opened" ELSE "alloc")

\* Where openSession returns to: itself, through setupControllerForAccessory,
\* or else the thread's caller.
AfterOpen(t, ok) ==
  Goto(t, IF opener = t THEN "alloc" ELSE IF t = "comm" /\ ok THEN "ready" ELSE "idle")

\* closeSession: a session that says its accessory is gone is left as it is.
CloseSession ==
  IF link \in {"none", "gone"}
  THEN UNCHANGED <<session, link, left>>
  ELSE session' = NoAcc /\ link' = "none" /\ left' = 0

OpenSession(t) ==
  /\ pc[t] = "open"
  /\ IF refused \/ session # NoAcc \/ opener # "nobody"
     THEN AfterOpen(t, ~refused) /\ UNCHANGED opener
     ELSE opener' = t /\ Goto(t, IF accessory = NoAcc THEN "marry" ELSE "alloc")
  /\ UNCHANGED <<frameVars, refused, sessVars, arg, writeVars, left, mainVars>>

\* marryBLE: one of the accessories attached now, if there is any.
MarryBLE(t) ==
  /\ pc[t] = "marry"
  /\ \/ \E a \in connected : arg' = [arg EXCEPT ![t] = a] /\ Goto(t, "setup")
     \/ connected = {} /\ Goto(t, IF opener = t THEN "alloc" ELSE "idle") /\ UNCHANGED arg
  /\ UNCHANGED <<frameVars, refused, sessVars, opener, writeVars, left, mainVars>>

SetupController(t) ==
  /\ pc[t] = "setup"
  /\ IF accessory = arg[t]
     THEN AfterSetup(t) /\ UNCHANGED <<session, link, left>>
     ELSE CloseSession /\ Goto(t, "assign")
  /\ UNCHANGED <<frameVars, refused, accessory, opener, arg, writeVars, mainVars>>

SetAccessory(t) ==
  /\ pc[t] = "assign"
  /\ accessory' = arg[t]
  /\ IF arg[t] = NoAcc THEN AfterSetup(t) ELSE Goto(t, "open")
  /\ UNCHANGED <<frameVars, refused, session, link, opener, arg, writeVars, left, mainVars>>

\* EASession's initialiser returns nil for an accessory that is not attached,
\* and may for one that is.
AllocSession(t, ok) ==
  /\ pc[t] = "alloc"
  /\ IF accessory = NoAcc \/ session # NoAcc
     THEN Goto(t, "opened") /\ UNCHANGED arg
     ELSE /\ ok => accessory \in connected
          /\ arg' = [arg EXCEPT ![t] = IF ok THEN accessory ELSE NoAcc]
          /\ Goto(t, "created")
  /\ UNCHANGED <<frameVars, refused, sessVars, opener, writeVars, left, mainVars>>

\* The session is assigned; without one the accessory is forgotten.
SetSession(t) ==
  /\ pc[t] = "created"
  /\ session' = arg[t]
  /\ IF arg[t] = NoAcc
     THEN link' = "none" /\ Goto(t, "setup")
     ELSE link' \in (IF arg[t] \in connected THEN {"live"} ELSE {"dead", "gone"})
          /\ Goto(t, "opened")
  /\ UNCHANGED <<frameVars, refused, accessory, opener, arg, writeVars, left, mainVars>>

\* Mutant: a call that has made no session leaves _isOpeningSession set.
OpenedIfMade(t) ==
  /\ pc[t] = "opened"
  /\ opener' = IF session = NoAcc THEN opener ELSE "nobody"
  /\ Goto(t, IF t = "comm" /\ session # NoAcc THEN "ready" ELSE "idle")
  /\ UNCHANGED <<frameVars, refused, sessVars, arg, writeVars, left, mainVars>>

Opened(t) ==
  /\ pc[t] = "opened"
  /\ opener' = "nobody"
  /\ Goto(t, IF t = "comm" /\ session # NoAcc THEN "ready" ELSE "idle")
  /\ UNCHANGED <<frameVars, refused, sessVars, arg, writeVars, left, mainVars>>

Session(t) ==
  \/ OpenSession(t) \/ MarryBLE(t) \/ SetupController(t) \/ SetAccessory(t)
  \/ AllocSession(t, FALSE) \/ SetSession(t) \/ Opened(t)
-----------------------------------------------------------------------------
(* The main thread.                                                        *)

AccessoryDidConnect ==
  /\ pc["main"] = "idle" /\ notices # <<>> /\ Head(notices)[1] = "connect"
  /\ notices' = Tail(notices)
  /\ Goto("main", IF accessory = NoAcc THEN "marry" ELSE "idle")
  /\ UNCHANGED <<connected, refused, sessVars, opener, arg, writeVars, left, mainVars>>

\* Mutant: without a session there is nothing to tidy up.
AccessoryDidDisconnectInSession ==
  /\ pc["main"] = "idle" /\ notices # <<>> /\ Head(notices)[1] = "disconnect"
  /\ notices' = Tail(notices)
  /\ IF accessory = Head(notices)[2] /\ session # NoAcc
     THEN arg' = [arg EXCEPT !["main"] = NoAcc] /\ Goto("main", "setup")
     ELSE UNCHANGED <<arg, pc>>
  /\ UNCHANGED <<connected, refused, sessVars, opener, writeVars, left, mainVars>>

AccessoryDidDisconnect ==
  /\ pc["main"] = "idle" /\ notices # <<>> /\ Head(notices)[1] = "disconnect"
  /\ notices' = Tail(notices)
  /\ IF accessory = Head(notices)[2]
     THEN arg' = [arg EXCEPT !["main"] = NoAcc] /\ Goto("main", "setup")
     ELSE UNCHANGED <<arg, pc>>
  /\ UNCHANGED <<connected, refused, sessVars, opener, writeVars, left, mainVars>>

\* Mutant: the end of the streams is only logged.
StreamEndLogged ==
  /\ pc["main"] = "idle" /\ link \in {"dead", "gone"}
  /\ UNCHANGED vars

\* NSStreamEventEndEncountered: closeSessionWithCloseStream.
StreamEnd ==
  /\ pc["main"] = "idle" /\ link \in {"dead", "gone"}
  /\ session' = NoAcc /\ link' = "none" /\ left' = 0
  /\ UNCHANGED <<frameVars, refused, accessory, opener, pc, arg, writeVars, mainVars>>

RunBlock ==
  /\ pc["main"] = "idle" /\ queue # <<>>
  /\ armed' = (Head(queue) = "arm")
  /\ queue' = Tail(queue)
  /\ UNCHANGED <<frameVars, refused, sessVars, opener, pc, arg, writeVars, left>>

CancelWriteData ==
  /\ pc["main"] = "idle" /\ armed
  /\ armed' = FALSE /\ isWriteData' = FALSE
  /\ UNCHANGED <<frameVars, refused, sessVars, opener, pc, arg, left, bytesWritten, queue>>
-----------------------------------------------------------------------------
(* The communication thread: it opens the device, sends and receives, and  *)
(* on a failure closes it and opens it again.                              *)

OpenDevice ==
  /\ pc["comm"] = "idle"
  /\ Goto("comm", "open")
  /\ UNCHANGED <<frameVars, refused, sessVars, opener, arg, writeVars, left, mainVars>>

CloseDevice ==
  /\ pc["comm"] \in {"ready", "failed"}
  /\ CloseSession
  /\ Goto("comm", "idle")
  /\ UNCHANGED <<frameVars, refused, accessory, opener, arg, writeVars, mainVars>>

\* What is received is left out: only the failure changes anything.
ReceiveFails ==
  /\ pc["comm"] = "ready"
  /\ accessory = NoAcc \/ session = NoAcc \/ refused
  /\ Goto("comm", "failed")
  /\ UNCHANGED <<frameVars, refused, sessVars, opener, arg, writeVars, left, mainVars>>

\* Mutant: nothing limits the time of a write.
SendToDeviceUnlimited ==
  /\ pc["comm"] = "ready" /\ Len(queue) < MaxQueue
  /\ left' = Size /\ bytesWritten' = -1 /\ isWriteData' = TRUE
  /\ Goto("comm", "write")
  /\ UNCHANGED <<frameVars, refused, sessVars, opener, arg, mainVars>>

\* writeData, up to the loop of _writeData.
SendToDevice ==
  /\ pc["comm"] = "ready" /\ Len(queue) < MaxQueue
  /\ left' = Size /\ bytesWritten' = -1 /\ isWriteData' = TRUE
  /\ queue' = Append(queue, "arm")
  /\ Goto("comm", "write")
  /\ UNCHANGED <<frameVars, refused, sessVars, opener, arg, armed>>

\* The output stream takes some bytes; it has space only while it is live.
WriteBytes(n) ==
  /\ pc["comm"] = "write"
  /\ left > 0 /\ isWriteData /\ link = "live"
  /\ left' = left - n /\ bytesWritten' = bytesWritten + n
  /\ UNCHANGED <<frameVars, refused, sessVars, opener, pc, arg, isWriteData, mainVars>>

\* The loop ends: all is written, time is up, there is no session, or the
\* stream fails.  What has been written is one byte more than bytesWritten.
WriteEnd(streamFails) ==
  /\ pc["comm"] = "write"
  /\ left = 0 \/ ~isWriteData \/ session = NoAcc \/ streamFails
  /\ queue' = Append(queue, "disarm")
  /\ Goto("comm", IF bytesWritten = -1 THEN "failed" ELSE "ready")
  /\ UNCHANGED <<frameVars, refused, sessVars, opener, arg, writeVars, left, armed>>
-----------------------------------------------------------------------------
Main == AccessoryDidConnect \/ AccessoryDidDisconnect \/ StreamEnd \/ RunBlock \/ CancelWriteData
Comm ==
  \/ OpenDevice \/ CloseDevice \/ ReceiveFails \/ SendToDevice
  \/ \E n \in 1 .. left : WriteBytes(n)
  \/ \E streamFails \in BOOLEAN : WriteEnd(streamFails)
Framework == Check \/ \E a \in Acc : Attach(a) \/ Detach(a)

Next ==
  \/ Framework \/ Main \/ Comm
  \/ \E t \in Thread : Session(t) \/ AllocSession(t, TRUE)

Spec == Init /\ [][Next]_vars

ThreadRuns(t) == WF_vars(Session(t)) /\ SF_vars(AllocSession(t, TRUE))

\* Threads run, the main run loop serves its notifications, stream events, timers
\* and blocks in turn, and the framework does not refuse for ever to make a
\* session; devices and streams need not fail.
FairSpec ==
  /\ Spec
  /\ \A t \in Thread : ThreadRuns(t)
  /\ WF_vars(AccessoryDidConnect) /\ WF_vars(AccessoryDidDisconnect)
  /\ SF_vars(StreamEnd) /\ SF_vars(RunBlock) /\ SF_vars(CancelWriteData)
  /\ WF_vars(OpenDevice) /\ WF_vars(ReceiveFails) /\ WF_vars(pc["comm"] = "failed" /\ CloseDevice)
  /\ WF_vars(WriteEnd(FALSE))
-----------------------------------------------------------------------------
(* Promises that are proved as well as checked.                            *)

\* An accessory that is attached no longer does not stay on record: its
\* notification is to come, or a thread is about to find out that no session
\* can be made with it.
StaleNoticed ==
  accessory \in Acc \ connected =>
    \/ \E i \in DOMAIN notices : notices[i] = <<"disconnect", accessory>>
    \/ \E t \in Thread : pc[t] \in InOpen

\* Once one accessory stays attached and the SN is accepted, there is a live
\* session with it again and again, whatever sessions were left behind.
ReconnectsTo(a) ==
  <>[](connected = {a} /\ ~refused) => []<>(session = a /\ link = "live")
Reconnects == \A a \in Acc : ReconnectsTo(a)

\* A write ends, whatever becomes of the session.
SendEnds == pc["comm"] = "write" ~> pc["comm"] # "write"
=============================================================================
