----------------------------- MODULE ADWebSocket -----------------------------
(***************************************************************************)
(* Algorithm calls over the web socket.                                    *)
(*                                                                         *)
(* The vehicle application, on the diagnosis thread, calls RpcSend and     *)
(* waits until SetRpcRecv is called.  RpcSend subscribes a request to      *)
(* TDD_ADWebSocket, which sends it over the current SRWebSocket or keeps   *)
(* it for the next one.  Each socket runs its delegate methods, one at a   *)
(* time, on a queue of its own; heartbeats, reconnections, the delayed     *)
(* openings and the callbacks run on the main thread.  Entering a          *)
(* diagnosis opens the socket, leaving it closes the socket.               *)
(*                                                                         *)
(* A request's key is its own: two requests are at least a second apart.   *)
(***************************************************************************)
EXTENDS Naturals, FiniteSets, SequencesExt

CONSTANTS
  Rpc,       \* the calls the vehicle application makes
  Sock,      \* SRWebSocket objects that memory may hold
  NoRpc, NoSock,
  PongLimit, \* heartbeats without an answer that call for a reconnection
  MaxQueue   \* bound: a new diagnosis, a reconnection and an answer wait for these many blocks

ASSUME SocketAssumption ==
  /\ NoRpc \notin Rpc
  /\ Rpc \cap {"none", "timeout", "heart", "opened", "failed"} = {}
  /\ NoSock \notin Sock
  /\ IsFiniteSet(Rpc)
  /\ PongLimit \in Nat \ {0}
  /\ MaxQueue \in Nat \ {0}

VARIABLES
  diag,       \* whether the diagnosis thread is inside a diagnosis
  pc,         \* where the diagnosis thread is in RpcSend
  rpc,        \* the call it is in
  failed,     \* whether the send it has just made returned an error
  got,        \* what SetRpcRecv has handed to each call
  rpcTimer,   \* the time-out of each call
  returned,   \* hasWebsocketReturn of each call
  isClosed,
  ws,         \* self.webSocket
  state,      \* readyState of each socket
  events,     \* delegate methods each socket has still to run
  opening,    \* sockets between the two halves of webSocketDidOpen
  atServer,   \* what each socket has sent and the server has not answered
  waitDatas, subscribeDict,
  pingTimer, reconTimer, \* whether the two timers of NTimeUtil exist
  pong,       \* receivePongInterval, in heartbeats
  delayed,    \* blocks given to dispatch_after for the main queue
  inbox,      \* messages given to dispatch_async for the main queue
  sent        \* history: the calls some socket has carried to the server

rpcVars == <<pc, rpc, failed, got, rpcTimer, returned>>
sockVars == <<ws, state, events, opening, atServer>>
dictVars == <<waitDatas, subscribeDict>>
timerVars == <<pingTimer, reconTimer, pong>>
queueVars == <<delayed, inbox>>
vars == <<diag, isClosed, rpcVars, sockVars, dictVars, timerVars, queueVars, sent>>

Message == Rpc \cup {"heart"}

TypeOK ==
  /\ diag \in BOOLEAN /\ isClosed \in BOOLEAN
  /\ pc \in {"run", "check", "reconnect", "keep", "send", "record", "wait"}
  /\ rpc \in Rpc \cup {NoRpc}
  /\ failed \in BOOLEAN
  /\ got \in [Rpc -> Message \cup {"none", "timeout"}]
  /\ rpcTimer \in [Rpc -> {"off", "set", "firing", "done"}]
  /\ returned \in [Rpc -> BOOLEAN]
  /\ ws \in Sock \cup {NoSock}
  /\ state \in [Sock -> {"connecting", "open", "closing", "closed"}]
  /\ events \in [Sock -> Seq(Message \cup {"opened", "failed"})]
  /\ opening \subseteq Sock
  /\ atServer \in [Sock -> SUBSET Message]
  /\ waitDatas \subseteq Rpc /\ subscribeDict \subseteq Rpc
  /\ pingTimer \in BOOLEAN /\ reconTimer \in BOOLEAN
  /\ pong \in 0 .. PongLimit
  /\ delayed \in Seq({"open", "ping"}) /\ inbox \in Seq(Message)
  /\ sent \subseteq Rpc
  /\ (pc # "run" => rpc \in Rpc /\ diag)

Init ==
  /\ diag = FALSE /\ isClosed = FALSE
  /\ pc = "run" /\ rpc = NoRpc /\ failed = FALSE
  /\ got = [r \in Rpc |-> "none"]
  /\ rpcTimer = [r \in Rpc |-> "off"]
  /\ returned = [r \in Rpc |-> FALSE]
  /\ ws = NoSock
  /\ state = [s \in Sock |-> "closed"]
  /\ events = [s \in Sock |-> <<>>]
  /\ opening = {}
  /\ atServer = [s \in Sock |-> {}]
  /\ waitDatas = {} /\ subscribeDict = {}
  /\ pingTimer = FALSE /\ reconTimer = FALSE /\ pong = 0
  /\ delayed = <<>> /\ inbox = <<>> /\ sent = {}
-----------------------------------------------------------------------------
(* The parts the methods are made of.                                      *)

\* A socket object whose life is over; the current one, too, goes when it is
\* replaced.
Unused(s) == state[s] = "closed" /\ events[s] = <<>> /\ s \notin opening

\* openWithToken: the socket it replaces, if any, is neither closed nor forgotten
\* by the network.
OpenWithToken ==
  \E s \in Sock :
    /\ Unused(s)
    /\ ws' = s
    /\ state' = [state EXCEPT ![s] = "connecting"]
    /\ atServer' = [atServer EXCEPT ![s] = {}]
    /\ pong' = 0

\* _close: closing a connecting or open socket ends later, on the network's side.
CloseSocket ==
  IF ws = NoSock
  THEN UNCHANGED <<ws, state, pingTimer, pong>>
  ELSE /\ ws' = NoSock
       /\ state' = [state EXCEPT ![ws] = IF @ = "closed" THEN @ ELSE "closing"]
       /\ pingTimer' = FALSE
       /\ pong' = 0

\* Mutant: reconnect forgets to look at isClosed.
ReconnectAlways == CloseSocket /\ delayed' = Append(delayed, "open")

\* reconnect: the new socket is opened by a block of its own.
Reconnect ==
  IF isClosed
  THEN UNCHANGED <<ws, state, pingTimer, pong, delayed>>
  ELSE CloseSocket /\ delayed' = Append(delayed, "open")

IsOpen == ws # NoSock /\ state[ws] = "open"

\* SetRpcRecv ends the call that is being made, whichever it is.
SetRpcRecv(result) ==
  got' = IF pc # "run" /\ got[rpc] = "none" THEN [got EXCEPT ![rpc] = result] ELSE got
-----------------------------------------------------------------------------
(* The diagnosis thread.                                                   *)

\* ArtiDiagWithCarModel: on the way in ...
EnterDiag ==
  /\ ~diag
  /\ Len(delayed) < MaxQueue
  /\ diag' = TRUE
  /\ isClosed' = FALSE
  /\ OpenWithToken
  /\ UNCHANGED <<rpcVars, events, opening, dictVars, pingTimer, reconTimer, queueVars, sent>>

\* Mutant: the diagnosis may be ended in the middle of a call.
LeaveDiagAnytime ==
  /\ diag
  /\ diag' = FALSE
  /\ isClosed' = TRUE
  /\ reconTimer' = FALSE
  /\ CloseSocket
  /\ UNCHANGED <<rpcVars, events, opening, atServer, dictVars, queueVars, sent>>

\* ... and out: close.
LeaveDiag ==
  /\ diag /\ pc = "run"
  /\ diag' = FALSE
  /\ isClosed' = TRUE
  /\ reconTimer' = FALSE
  /\ CloseSocket
  /\ UNCHANGED <<rpcVars, events, opening, atServer, dictVars, queueVars, sent>>

RpcSend(r) ==
  /\ diag /\ pc = "run"
  /\ rpcTimer[r] = "off"
  /\ rpcTimer' = [rpcTimer EXCEPT ![r] = "set"]
  /\ rpc' = r
  /\ pc' = "check"
  /\ UNCHANGED <<diag, isClosed, failed, got, returned, sockVars, dictVars, timerVars,
                 queueVars, sent>>

\* sendSubscribeData: whether there is a socket is read once ...
SubscribeCheck ==
  /\ pc = "check"
  /\ pc' = IF ws = NoSock THEN "reconnect" ELSE "send"
  /\ UNCHANGED <<diag, isClosed, rpc, failed, got, rpcTimer, returned, sockVars, dictVars,
                 timerVars, queueVars, sent>>

\* ... and reconnect closes the one there is now.
SubscribeReconnect ==
  /\ pc = "reconnect"
  /\ pc' = "keep"
  /\ Reconnect
  /\ UNCHANGED <<diag, isClosed, rpc, failed, got, rpcTimer, returned, events, opening,
                 atServer, dictVars, reconTimer, inbox, sent>>

SubscribeKeep ==
  /\ pc = "keep"
  /\ waitDatas' = waitDatas \cup {rpc}
  /\ pc' = "wait"
  /\ UNCHANGED <<diag, isClosed, rpc, failed, got, rpcTimer, returned, sockVars,
                 subscribeDict, timerVars, queueVars, sent>>

\* sendData: a socket that has gone meanwhile is no error.
SubscribeSend ==
  /\ pc = "send"
  /\ pc' = "record"
  /\ failed' = (ws # NoSock /\ ~IsOpen)
  /\ IF IsOpen
     THEN atServer' = [atServer EXCEPT ![ws] = @ \cup {rpc}] /\ sent' = sent \cup {rpc}
     ELSE UNCHANGED <<atServer, sent>>
  /\ reconTimer' = (reconTimer \/ ws = NoSock)
  /\ UNCHANGED <<diag, isClosed, rpc, got, rpcTimer, returned, ws, state, events, opening,
                 dictVars, pingTimer, pong, queueVars>>

SubscribeRecord ==
  /\ pc = "record"
  /\ pc' = "wait"
  /\ subscribeDict' = subscribeDict \cup {rpc}
  /\ waitDatas' = IF failed THEN waitDatas \cup {rpc} ELSE waitDatas
  /\ reconTimer' = (reconTimer \/ failed)
  /\ failed' = FALSE
  /\ UNCHANGED <<diag, isClosed, rpc, got, rpcTimer, returned, sockVars, pingTimer, pong,
                 queueVars, sent>>

RpcReturn ==
  /\ pc = "wait"
  /\ got[rpc] # "none"
  /\ pc' = "run"
  /\ rpc' = NoRpc
  /\ UNCHANGED <<diag, isClosed, failed, got, rpcTimer, returned, sockVars, dictVars,
                 timerVars, queueVars, sent>>

DiagStep ==
  \/ SubscribeCheck \/ SubscribeReconnect \/ SubscribeKeep
  \/ SubscribeSend \/ SubscribeRecord \/ RpcReturn
-----------------------------------------------------------------------------
(* The time-out of a call, on a global queue: it looks, then reports.      *)

\* Mutant: a request that has been sent is taken for answered.
RpcTimeoutFireUnsent(r) ==
  /\ rpcTimer[r] = "set"
  /\ rpcTimer' = [rpcTimer EXCEPT ![r] =
                     IF returned[r] \/ r \in subscribeDict THEN "done" ELSE "firing"]
  /\ UNCHANGED <<diag, isClosed, pc, rpc, failed, got, returned, sockVars, dictVars,
                 timerVars, queueVars, sent>>

RpcTimeoutFire(r) ==
  /\ rpcTimer[r] = "set"
  /\ rpcTimer' = [rpcTimer EXCEPT ![r] = IF returned[r] THEN "done" ELSE "firing"]
  /\ UNCHANGED <<diag, isClosed, pc, rpc, failed, got, returned, sockVars, dictVars,
                 timerVars, queueVars, sent>>

RpcTimeoutReport(r) ==
  /\ rpcTimer[r] = "firing"
  /\ rpcTimer' = [rpcTimer EXCEPT ![r] = "done"]
  /\ SetRpcRecv("timeout")
  /\ UNCHANGED <<diag, isClosed, pc, rpc, failed, returned, sockVars, dictVars, timerVars,
                 queueVars, sent>>
-----------------------------------------------------------------------------
(* The network and the server, as SRWebSocket reports them.                *)

Connected(s) ==
  /\ state[s] = "connecting"
  /\ state' = [state EXCEPT ![s] = "open"]
  /\ events' = [events EXCEPT ![s] = Append(@, "opened")]
  /\ UNCHANGED <<diag, isClosed, rpcVars, ws, opening, atServer, dictVars, timerVars,
                 queueVars, sent>>

\* didFailWithError will be called.
Fail(s) ==
  /\ state[s] # "closed"
  /\ state' = [state EXCEPT ![s] = "closed"]
  /\ events' = [events EXCEPT ![s] = Append(@, "failed")]
  /\ UNCHANGED <<diag, isClosed, rpcVars, ws, opening, atServer, dictVars, timerVars,
                 queueVars, sent>>

\* Only didCloseWithCode will be called, which logs.
CloseDone(s) ==
  /\ state[s] \in {"open", "closing"}
  /\ state' = [state EXCEPT ![s] = "closed"]
  /\ UNCHANGED <<diag, isClosed, rpcVars, ws, events, opening, atServer, dictVars,
                 timerVars, queueVars, sent>>

Reply(s) ==
  \E q \in atServer[s] :
    /\ state[s] = "open"
    /\ Len(events[s]) + Len(inbox) < MaxQueue
    /\ atServer' = [atServer EXCEPT ![s] = @ \ {q}]
    /\ events' = [events EXCEPT ![s] = Append(@, q)]
    /\ UNCHANGED <<diag, isClosed, rpcVars, ws, state, opening, dictVars, timerVars,
                   queueVars, sent>>
-----------------------------------------------------------------------------
(* The delegate methods, on the queue of their socket.                     *)

\* The event a socket's queue turns to next.
NextEvent(s) == IF s \in opening \/ events[s] = <<>> THEN "none" ELSE Head(events[s])
TakeEvent(s) == events' = [events EXCEPT ![s] = Tail(@)]

\* One reconnect for each request.
Openings(W) == [i \in 1 .. Cardinality(W) |-> "open"]

\* webSocketDidOpen sends what is waiting, over whichever socket is now the
\* current one ...
DidOpenSend(s) ==
  /\ NextEvent(s) = "opened"
  /\ TakeEvent(s)
  /\ opening' = opening \cup {s}
  /\ reconTimer' = (waitDatas # {} /\ ws # NoSock /\ ~IsOpen)
  /\ delayed' = Append(delayed, "ping")
                  \o IF ws = NoSock /\ ~isClosed THEN Openings(waitDatas) ELSE <<>>
  /\ subscribeDict' = IF ws = NoSock THEN subscribeDict ELSE subscribeDict \cup waitDatas
  /\ IF IsOpen
     THEN /\ atServer' = [atServer EXCEPT ![ws] = @ \cup waitDatas]
          /\ sent' = sent \cup waitDatas
     ELSE UNCHANGED <<atServer, sent>>
  /\ UNCHANGED <<diag, isClosed, rpcVars, ws, state, waitDatas, pingTimer, pong, inbox>>

\* ... and then forgets all that is waiting.
DidOpenForget(s) ==
  /\ s \in opening
  /\ opening' = opening \ {s}
  /\ waitDatas' = {}
  /\ UNCHANGED <<diag, isClosed, rpcVars, ws, state, events, atServer, subscribeDict,
                 timerVars, queueVars, sent>>

\* Mutant: any failure stops the heartbeat.
DidFailStopsPing(s) ==
  /\ NextEvent(s) = "failed"
  /\ TakeEvent(s)
  /\ reconTimer' = TRUE
  /\ pingTimer' = FALSE
  /\ UNCHANGED <<diag, isClosed, rpcVars, ws, state, opening, atServer, dictVars, pong,
                 queueVars, sent>>

\* Mutant: a failure is only logged.
DidFailLogs(s) ==
  /\ NextEvent(s) = "failed"
  /\ TakeEvent(s)
  /\ UNCHANGED <<diag, isClosed, rpcVars, ws, state, opening, atServer, dictVars, timerVars,
                 queueVars, sent>>

DidFail(s) ==
  /\ NextEvent(s) = "failed"
  /\ TakeEvent(s)
  /\ reconTimer' = TRUE
  /\ UNCHANGED <<diag, isClosed, rpcVars, ws, state, opening, atServer, dictVars, pingTimer,
                 pong, queueVars, sent>>

DidReceive(s) ==
  /\ NextEvent(s) \in Message
  /\ TakeEvent(s)
  /\ pong' = IF NextEvent(s) = "heart" THEN 0 ELSE pong
  /\ inbox' = Append(inbox, NextEvent(s))
  /\ UNCHANGED <<diag, isClosed, rpcVars, ws, state, opening, atServer, dictVars, pingTimer,
                 reconTimer, delayed, sent>>

Delegate(s) == DidOpenSend(s) \/ DidOpenForget(s) \/ DidFail(s) \/ DidReceive(s)
-----------------------------------------------------------------------------
(* The main thread.                                                        *)

\* The block of reconnect: it does not look at isClosed again.
RunOpen ==
  /\ delayed # <<>> /\ Head(delayed) = "open"
  /\ delayed' = Tail(delayed)
  /\ OpenWithToken
  /\ UNCHANGED <<diag, isClosed, rpcVars, events, opening, dictVars, pingTimer, reconTimer,
                 inbox, sent>>

\* sendPing.
RunPing ==
  /\ delayed # <<>> /\ Head(delayed) = "ping"
  /\ delayed' = Tail(delayed)
  /\ pingTimer' = TRUE
  /\ pong' = 0
  /\ UNCHANGED <<diag, isClosed, rpcVars, sockVars, dictVars, reconTimer, inbox, sent>>

\* Mutant: a heartbeat's answer uses the subscriptions up without ending the call.
DeliverHeartIgnored ==
  /\ inbox # <<>>
  /\ inbox' = Tail(inbox)
  /\ returned' = [r \in Rpc |-> returned[r] \/ r \in subscribeDict]
  /\ subscribeDict' = {}
  /\ IF subscribeDict = {} \/ Head(inbox) = "heart"
     THEN UNCHANGED got ELSE SetRpcRecv(Head(inbox))
  /\ UNCHANGED <<diag, isClosed, pc, rpc, failed, rpcTimer, sockVars, waitDatas, timerVars,
                 delayed, sent>>

\* Every message is handed to every subscription, and ends it.
Deliver ==
  /\ inbox # <<>>
  /\ inbox' = Tail(inbox)
  /\ returned' = [r \in Rpc |-> returned[r] \/ r \in subscribeDict]
  /\ subscribeDict' = {}
  /\ IF subscribeDict = {} THEN UNCHANGED got ELSE SetRpcRecv(Head(inbox))
  /\ UNCHANGED <<diag, isClosed, pc, rpc, failed, rpcTimer, sockVars, waitDatas, timerVars,
                 delayed, sent>>

\* The heartbeat.
PingTick ==
  /\ pingTimer
  /\ atServer' = IF IsOpen THEN [atServer EXCEPT ![ws] = @ \cup {"heart"}] ELSE atServer
  /\ pong' = IF pong = PongLimit THEN pong ELSE pong + 1
  /\ reconTimer' = (reconTimer \/ ~IsOpen \/ pong + 1 >= PongLimit)
  /\ UNCHANGED <<diag, isClosed, rpcVars, ws, state, events, opening, dictVars, pingTimer,
                 queueVars, sent>>

\* The timer of openReconnectTimer; no socket looks to it like one that is
\* connecting.
ReconTick ==
  /\ reconTimer
  /\ ws # NoSock /\ state[ws] # "connecting"
  /\ reconTimer' = ~IsOpen
  /\ IF IsOpen
     THEN UNCHANGED <<ws, state, pingTimer, pong, delayed>>
     ELSE Len(delayed) < MaxQueue /\ Reconnect
  /\ UNCHANGED <<diag, isClosed, rpcVars, events, opening, atServer, dictVars, inbox, sent>>
-----------------------------------------------------------------------------
Next ==
  \/ EnterDiag \/ LeaveDiag \/ DiagStep
  \/ \E r \in Rpc : RpcSend(r) \/ RpcTimeoutFire(r) \/ RpcTimeoutReport(r)
  \/ \E s \in Sock : Connected(s) \/ Fail(s) \/ CloseDone(s) \/ Reply(s) \/ Delegate(s)
  \/ RunOpen \/ RunPing \/ Deliver \/ PingTick \/ ReconTick

Spec == Init /\ [][Next]_vars

\* The time-out of a call runs on a global queue.
TimeoutRuns(r) == WF_vars(RpcTimeoutFire(r)) /\ WF_vars(RpcTimeoutReport(r))

\* Each socket has a queue of its own.
DelegateRuns(s) == WF_vars(Delegate(s))

\* The threads, queues and timers run.
Fairness ==
  /\ WF_vars(DiagStep)
  /\ \A r \in Rpc : TimeoutRuns(r)
  /\ \A s \in Sock : DelegateRuns(s)
  /\ WF_vars(RunOpen) /\ WF_vars(RunPing) /\ WF_vars(Deliver)
  /\ WF_vars(PingTick) /\ SF_vars(ReconTick)

\* The network ends connections nobody keeps up (the pool of sockets is finite).
NetworkEnds(s) == WF_vars(s # ws /\ (Fail(s) \/ CloseDone(s)))
SocketsEnd == \A s \in Sock : NetworkEnds(s)

FairSpec == Spec /\ Fairness /\ SocketsEnd

\* A network that lets a connection through now and then.
Passes == \E s \in Sock : s = ws /\ Connected(s)
ConnectingSpec == FairSpec /\ SF_vars(Passes)
-----------------------------------------------------------------------------
\* A connection that is open is watched: its heartbeat runs, or the block that
\* starts it is waiting, or the delegate method that asks for it is still to
\* run.  Nothing else notices a connection that dies silently.
PingWatchesOpen ==
  IsOpen => \/ pingTimer
            \/ Contains(delayed, "ping")
            \/ Contains(events[ws], "opened")

\* The vehicle application is never left in RpcSend: as long as its call has no
\* result the time-out of that very call is still to come, and will not think
\* the answer has been given (hasWebsocketReturn) without SetRpcRecv.
CallHasTimer ==
  pc # "run" /\ got[rpc] = "none" =>
    rpcTimer[rpc] \in {"set", "firing"} /\ ~returned[rpc]

\* A call to RpcSend returns, whatever the network and the server do:
\* SetRpcRecv is called for it or its time-out is reported.
Returns(r) == rpc = r ~> rpc # r
RpcReturned == \A r \in Rpc : Returns(r)

\* After the diagnosis has been left for good the reconnection machinery comes
\* to rest: the heartbeat and the reconnection timer may be left running, yet
\* reconnect does not open sockets for ever.
ClosedGoesQuiet == <>[]isClosed => <>[]~Contains(delayed, "open")

\* A socket that drops during a diagnosis, with or without a word from
\* SRWebSocket, is replaced until one is open again: by the failure's
\* reconnection timer, or because the heartbeat cannot be sent.
Dropped == ws # NoSock /\ state[ws] = "closed" /\ ~isClosed
ReconnectsAfterDrop == Dropped ~> IsOpen \/ isClosed
=============================================================================
