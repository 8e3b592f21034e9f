-------------------------- MODULE ADWebSocketProofs --------------------------
(* What holds of ADWebSocket for any calls, sockets and bounds.            *)
EXTENDS ADWebSocket, TemporalInduction, TLAPS

\* What sequences contain after one of their ends has moved.
LEMMA AppendContains ==
  ASSUME NEW S, NEW s \in Seq(S), NEW e \in S, NEW x, Contains(s, x) \/ e = x
  PROVE  Contains(Append(s, e), x)
BY DEF Contains

\* What is not the head is in the tail.
LEMMA TailContains ==
  ASSUME NEW S, NEW s \in Seq(S), NEW x, Contains(s, x)
  PROVE  s # <<>> /\ (Head(s) = x \/ Contains(Tail(s), x))
<1>1. PICK i \in 1 .. Len(s) : s[i] = x
  BY DEF Contains
<1>2. s # <<>>
  BY <1>1
<1>3. CASE i = 1
  BY <1>1, <1>2, <1>3
<1>4. CASE i # 1
  <2>1. i - 1 \in 1 .. Len(Tail(s)) /\ Tail(s)[i - 1] = x
    BY <1>1, <1>2, <1>4
  <2>. QED
    BY <1>2, <2>1 DEF Contains
<1>. QED
  BY <1>3, <1>4

\* Concatenation loses nothing.
LEMMA ConcatContains ==
  ASSUME NEW S, NEW s \in Seq(S), NEW t \in Seq(S), NEW x, Contains(s, x)
  PROVE  Contains(s \o t, x)
BY DEF Contains
-----------------------------------------------------------------------------

\* openWithToken, _close and reconnect keep the types of what they assign.
LEMMA OpenTyped ==
  ASSUME TypeOK, OpenWithToken
  PROVE  /\ ws' \in Sock
         /\ state' \in [Sock -> {"connecting", "open", "closing", "closed"}]
         /\ atServer' \in [Sock -> SUBSET Message]
         /\ pong' \in 0 .. PongLimit
<1>1. 0 \in 0 .. PongLimit
  BY SocketAssumption
<1>. QED
  BY <1>1 DEF TypeOK, OpenWithToken

\* See OpenTyped.
LEMMA CloseTyped ==
  ASSUME TypeOK, CloseSocket
  PROVE  /\ ws' \in Sock \cup {NoSock}
         /\ state' \in [Sock -> {"connecting", "open", "closing", "closed"}]
         /\ pingTimer' \in BOOLEAN
         /\ pong' \in 0 .. PongLimit
<1>1. 0 \in 0 .. PongLimit
  BY SocketAssumption
<1>2. CASE ws = NoSock
  BY <1>2 DEF TypeOK, CloseSocket
<1>3. CASE ws # NoSock
  <2>1. ws \in Sock
    BY <1>3 DEF TypeOK
  <2>2. state' = [state EXCEPT ![ws] = IF state[ws] = "closed" THEN state[ws] ELSE "closing"]
    BY <1>3 DEF CloseSocket
  <2>3. state' \in [Sock -> {"connecting", "open", "closing", "closed"}]
    BY <2>1, <2>2 DEF TypeOK
  <2>. QED
    BY <1>1, <1>3, <2>3 DEF TypeOK, CloseSocket
<1>. QED
  BY <1>2, <1>3

\* See OpenTyped.
LEMMA ReconnectTyped ==
  ASSUME TypeOK, Reconnect
  PROVE  /\ ws' \in Sock \cup {NoSock}
         /\ state' \in [Sock -> {"connecting", "open", "closing", "closed"}]
         /\ pingTimer' \in BOOLEAN
         /\ pong' \in 0 .. PongLimit
         /\ delayed' \in Seq({"open", "ping"})
<1>1. CASE isClosed
  BY <1>1 DEF Reconnect, TypeOK
<1>2. CASE ~isClosed
  <2>1. CloseSocket /\ delayed' = Append(delayed, "open")
    BY <1>2 DEF Reconnect
  <2>2. delayed' \in Seq({"open", "ping"})
    BY <2>1 DEF TypeOK
  <2>. QED
    BY <2>1, <2>2, CloseTyped
<1>. QED
  BY <1>1, <1>2

\* Finitely many requests wait, so their reconnections are a sequence.
LEMMA Opens == ASSUME TypeOK PROVE Openings(waitDatas) \in Seq({"open", "ping"})
<1>1. IsFiniteSet(waitDatas)
  BY SocketAssumption, FS_Subset DEF TypeOK
<1>2. Cardinality(waitDatas) \in Nat
  BY <1>1, FS_CardinalityType
<1>. QED
  BY <1>2 DEF Openings

\* TypeOK holds at the start ...
LEMMA TypeInit == Init => TypeOK
<1>. SUFFICES ASSUME Init PROVE TypeOK
  OBVIOUS
<1>1. pong \in 0 .. PongLimit
  BY SocketAssumption DEF Init
<1>2. /\ events \in [Sock -> Seq(Message \cup {"opened", "failed"})]
      /\ delayed \in Seq({"open", "ping"}) /\ inbox \in Seq(Message)
  BY DEF Init
<1>3. /\ atServer \in [Sock -> SUBSET Message]
      /\ returned \in [Rpc -> BOOLEAN]
      /\ got \in [Rpc -> Message \cup {"none", "timeout"}]
      /\ rpcTimer \in [Rpc -> {"off", "set", "firing", "done"}]
      /\ state \in [Sock -> {"connecting", "open", "closing", "closed"}]
  BY DEF Init
<1>. QED
  BY <1>1, <1>2, <1>3 DEF Init, TypeOK

\* ... and every action keeps it.
LEMMA TypeNext == TypeOK /\ [Next]_vars => TypeOK'
<1>. SUFFICES ASSUME TypeOK, [Next]_vars PROVE TypeOK'
  OBVIOUS
<1>. USE DEF TypeOK, Message
<1>1. CASE EnterDiag
  BY <1>1, OpenTyped DEF EnterDiag, rpcVars, dictVars, queueVars
<1>2. CASE LeaveDiag
  BY <1>2, CloseTyped DEF LeaveDiag, rpcVars, dictVars, queueVars
<1>3. CASE SubscribeCheck
  BY <1>3 DEF SubscribeCheck, sockVars, dictVars, timerVars, queueVars
<1>4. CASE SubscribeReconnect
  BY <1>4, ReconnectTyped DEF SubscribeReconnect, dictVars
<1>5. CASE SubscribeKeep
  BY <1>5 DEF SubscribeKeep, sockVars, timerVars, queueVars
<1>6. CASE SubscribeSend
  <2>1. failed' \in BOOLEAN /\ reconTimer' \in BOOLEAN
    BY <1>6, Zenon DEF SubscribeSend, TypeOK
  <2>2. atServer' \in [Sock -> SUBSET Message] /\ sent' \subseteq Rpc
    <3>1. rpc \in Rpc
      BY <1>6 DEF SubscribeSend
    <3>2. \/ /\ atServer' = [atServer EXCEPT ![ws] = atServer[ws] \cup {rpc}]
             /\ sent' = sent \cup {rpc}
          \/ atServer' = atServer /\ sent' = sent
      BY <1>6, Zenon DEF SubscribeSend
    <3>. QED
      BY <3>1, <3>2
  <2>3. /\ pc = "send" /\ pc' = "record"
        /\ UNCHANGED <<diag, isClosed, rpc, got, rpcTimer, returned, ws, state, events,
                       opening, waitDatas, subscribeDict, pingTimer, pong, delayed, inbox>>
    BY <1>6 DEF SubscribeSend, dictVars, queueVars
  <2>. QED
    BY <2>1, <2>2, <2>3
<1>7. CASE SubscribeRecord
  BY <1>7 DEF SubscribeRecord, sockVars, queueVars
<1>8. CASE RpcReturn
  BY <1>8 DEF RpcReturn, sockVars, dictVars, timerVars, queueVars
<1>9. ASSUME NEW r \in Rpc, RpcSend(r) PROVE TypeOK'
  BY <1>9, SocketAssumption DEF RpcSend, sockVars, dictVars, timerVars, queueVars
<1>10. ASSUME NEW r \in Rpc, RpcTimeoutFire(r) PROVE TypeOK'
  BY <1>10 DEF RpcTimeoutFire, sockVars, dictVars, timerVars, queueVars
<1>11. ASSUME NEW r \in Rpc, RpcTimeoutReport(r) PROVE TypeOK'
  BY <1>11 DEF RpcTimeoutReport, SetRpcRecv, sockVars, dictVars, timerVars, queueVars
<1>12. ASSUME NEW s \in Sock, Connected(s) PROVE TypeOK'
  BY <1>12 DEF Connected, rpcVars, dictVars, timerVars, queueVars
<1>13. ASSUME NEW s \in Sock, Fail(s) PROVE TypeOK'
  BY <1>13 DEF Fail, rpcVars, dictVars, timerVars, queueVars
<1>14. ASSUME NEW s \in Sock, CloseDone(s) PROVE TypeOK'
  BY <1>14 DEF CloseDone, rpcVars, dictVars, timerVars, queueVars
<1>15. ASSUME NEW s \in Sock, Reply(s) PROVE TypeOK'
  BY <1>15 DEF Reply, rpcVars, dictVars, timerVars, queueVars
<1>16. ASSUME NEW s \in Sock, DidOpenSend(s) PROVE TypeOK'
  <2>1. reconTimer' \in BOOLEAN
    BY <1>16, Zenon DEF DidOpenSend
  <2>2. delayed' \in Seq({"open", "ping"})
    BY <1>16, Opens DEF DidOpenSend
  <2>3. events' \in [Sock -> Seq(Message \cup {"opened", "failed"})]
    BY <1>16 DEF DidOpenSend, TakeEvent, NextEvent
  <2>4. atServer' \in [Sock -> SUBSET Message] /\ sent' \subseteq Rpc
    BY <1>16 DEF DidOpenSend, IsOpen
  <2>5. subscribeDict' \subseteq Rpc /\ opening' \subseteq Sock
    BY <1>16 DEF DidOpenSend
  <2>6. UNCHANGED <<diag, isClosed, pc, rpc, failed, got, rpcTimer, returned, ws, state,
                    waitDatas, pingTimer, pong, inbox>>
    BY <1>16, Zenon DEF DidOpenSend, rpcVars
  <2>. QED
    BY <2>1, <2>2, <2>3, <2>4, <2>5, <2>6
<1>17. ASSUME NEW s \in Sock, DidOpenForget(s) PROVE TypeOK'
  BY <1>17 DEF DidOpenForget, rpcVars, timerVars, queueVars
<1>18. ASSUME NEW s \in Sock, DidFail(s) PROVE TypeOK'
  BY <1>18, SocketAssumption
     DEF DidFail, TakeEvent, NextEvent, rpcVars, dictVars, queueVars
<1>19. ASSUME NEW s \in Sock, DidReceive(s) PROVE TypeOK'
  BY <1>19, SocketAssumption DEF DidReceive, TakeEvent, NextEvent, rpcVars, dictVars
<1>20. CASE RunOpen
  BY <1>20, OpenTyped DEF RunOpen, rpcVars, dictVars
<1>21. CASE RunPing
  BY <1>21, SocketAssumption DEF RunPing, rpcVars, sockVars, dictVars
<1>22. CASE Deliver
  <2>1. returned' \in [Rpc -> BOOLEAN]
    BY <1>22, Zenon DEF Deliver
  <2>2. got' \in [Rpc -> Message \cup {"none", "timeout"}]
    <3>1. Head(inbox) \in Message
      BY <1>22 DEF Deliver
    <3>2. got' = got \/ got' = [got EXCEPT ![rpc] = Head(inbox)]
      BY <1>22, Zenon DEF Deliver, SetRpcRecv
    <3>. QED
      BY <3>1, <3>2
  <2>3. inbox' \in Seq(Message) /\ subscribeDict' \subseteq Rpc
    BY <1>22 DEF Deliver
  <2>4. UNCHANGED <<diag, isClosed, pc, rpc, failed, rpcTimer, ws, state, events, opening,
                    atServer, waitDatas, pingTimer, reconTimer, pong, delayed, sent>>
    BY <1>22 DEF Deliver, sockVars, timerVars
  <2>. QED
    BY <2>1, <2>2, <2>3, <2>4
<1>23. CASE PingTick
  BY <1>23, SocketAssumption DEF PingTick, IsOpen, rpcVars, dictVars, queueVars
<1>24. CASE ReconTick
  BY <1>24, ReconnectTyped DEF ReconTick, IsOpen, rpcVars, dictVars
<1>25. CASE UNCHANGED vars
  BY <1>25 DEF vars, rpcVars, sockVars, dictVars, timerVars, queueVars
<1>. QED
  BY <1>1, <1>2, <1>3, <1>4, <1>5, <1>6, <1>7, <1>8, <1>9, <1>10, <1>11, <1>12, <1>13,
     <1>14, <1>15, <1>16, <1>17, <1>18, <1>19, <1>20, <1>21, <1>22, <1>23, <1>24, <1>25
     DEF Next, DiagStep, Delegate

\* Every variable keeps its type; the vehicle application is only in a call while
\* the diagnosis is on (ArtiDiagWithCarModel).
THEOREM TypeCorrect == Spec => []TypeOK
BY TypeInit, TypeNext, PTL DEF Spec
-----------------------------------------------------------------------------
(* The heartbeat.  PingWatchesOpen is inductive as it stands: the only     *)
(* places that end a heartbeat take the socket away in the same step, and  *)
(* the event that asks for one travels from the socket's queue to the main *)
(* thread without a gap.                                                   *)

\* What CloseSocket and Reconnect leave behind is not an open socket.
LEMMA CloseNotOpen == ASSUME CloseSocket, ws # NoSock PROVE ~IsOpen'
BY DEF CloseSocket, IsOpen

\* Neither is a socket that openWithToken has just made.
LEMMA OpenNotOpen == ASSUME TypeOK, OpenWithToken PROVE ~IsOpen'
BY DEF OpenWithToken, IsOpen, TypeOK

\* Every action keeps an open connection watched.
LEMMA PingNext ==
  ASSUME TypeOK, PingWatchesOpen, [Next]_vars
  PROVE  PingWatchesOpen'
<1>1. ASSUME UNCHANGED <<ws, state, events, pingTimer, delayed>> PROVE PingWatchesOpen'
  BY <1>1 DEF PingWatchesOpen, IsOpen
<1>2. CASE EnterDiag
  BY <1>2, OpenNotOpen DEF EnterDiag, PingWatchesOpen
<1>3. CASE LeaveDiag
  <2>1. CASE ws = NoSock
    BY <1>3, <2>1 DEF LeaveDiag, CloseSocket, PingWatchesOpen, IsOpen
  <2>2. CASE ws # NoSock
    BY <1>3, <2>2, CloseNotOpen DEF LeaveDiag, PingWatchesOpen
  <2>. QED
    BY <2>1, <2>2
<1>4. ASSUME Reconnect, UNCHANGED events PROVE PingWatchesOpen'
  <2>1. CASE isClosed
    BY <1>1, <1>4, <2>1 DEF Reconnect
  <2>2. CASE ~isClosed /\ ws # NoSock
    BY <1>4, <2>2, CloseNotOpen DEF Reconnect, PingWatchesOpen
  <2>3. CASE ~isClosed /\ ws = NoSock
    BY <1>4, <2>3 DEF Reconnect, CloseSocket, PingWatchesOpen, IsOpen
  <2>. QED
    BY <2>1, <2>2, <2>3
<1>5. CASE SubscribeReconnect
  BY <1>4, <1>5 DEF SubscribeReconnect
<1>6. CASE \/ SubscribeCheck \/ SubscribeKeep \/ SubscribeSend \/ SubscribeRecord
           \/ RpcReturn \/ Deliver \/ PingTick \/ UNCHANGED vars
  BY <1>1, <1>6
     DEF SubscribeCheck, SubscribeKeep, SubscribeSend, SubscribeRecord, RpcReturn,
     Deliver, PingTick, sockVars, timerVars, queueVars, vars
<1>7. ASSUME NEW r \in Rpc, RpcSend(r) \/ RpcTimeoutFire(r) \/ RpcTimeoutReport(r)
      PROVE  PingWatchesOpen'
  BY <1>1, <1>7
     DEF RpcSend, RpcTimeoutFire, RpcTimeoutReport, sockVars, timerVars, queueVars
<1>8. ASSUME NEW s \in Sock, NEW e \in Message \cup {"opened", "failed"},
             events' = [events EXCEPT ![s] = Append(@, e)],
             UNCHANGED <<ws, pingTimer, delayed>>,
             state'[s] = "open" /\ state[s] # "open" => e = "opened",
             \A t \in Sock \ {s} : state'[t] = state[t]
      PROVE  PingWatchesOpen'
  <2>. SUFFICES ASSUME IsOpen', ~pingTimer, ~Contains(delayed, "ping")
                PROVE  Contains(events'[ws], "opened")
    BY <1>8 DEF PingWatchesOpen
  <2>1. ws \in Sock /\ state'[ws] = "open"
    BY <1>8 DEF IsOpen, TypeOK
  <2>2. CASE ws # s
    BY <1>8, <2>1, <2>2 DEF PingWatchesOpen, IsOpen, TypeOK
  <2>3. CASE ws = s
    <3>1. Contains(events[ws], "opened") \/ e = "opened"
      BY <1>8, <2>1, <2>3 DEF PingWatchesOpen, IsOpen, TypeOK
    <3>2. /\ events'[ws] = Append(events[ws], e)
          /\ events[ws] \in Seq(Message \cup {"opened", "failed"})
      BY <1>8, <2>1, <2>3 DEF TypeOK
    <3>. QED
      BY <3>1, <3>2, AppendContains
  <2>. QED
    BY <2>2, <2>3
<1>9. ASSUME NEW s \in Sock, Connected(s) PROVE PingWatchesOpen'
  BY <1>8, <1>9 DEF Connected, TypeOK, timerVars, queueVars
<1>10. ASSUME NEW s \in Sock, Fail(s) PROVE PingWatchesOpen'
  BY <1>8, <1>10 DEF Fail, TypeOK, timerVars, queueVars
<1>11. ASSUME NEW s \in Sock, CloseDone(s) PROVE PingWatchesOpen'
  BY <1>11 DEF CloseDone, TypeOK, timerVars, queueVars, PingWatchesOpen, IsOpen
<1>12. ASSUME NEW s \in Sock, Reply(s) PROVE PingWatchesOpen'
  BY <1>8, <1>12 DEF Reply, TypeOK, timerVars, queueVars
<1>13. ASSUME NEW s \in Sock, TakeEvent(s), NextEvent(s) # "none",
              UNCHANGED <<ws, state, pingTimer>>,
              Contains(delayed, "ping") \/ NextEvent(s) = "opened" => Contains(delayed', "ping")
       PROVE  PingWatchesOpen'
  <2>. SUFFICES ASSUME IsOpen, ~pingTimer, ~Contains(delayed', "ping")
                PROVE  Contains(events'[ws], "opened")
    BY <1>13 DEF PingWatchesOpen, IsOpen
  <2>1. ws \in Sock /\ Contains(events[ws], "opened") /\ Head(events[s]) # "opened"
    BY <1>13 DEF PingWatchesOpen, IsOpen, TypeOK, NextEvent
  <2>2. events[s] \in Seq(Message \cup {"opened", "failed"})
    BY DEF TypeOK
  <2>3. events' = [events EXCEPT ![s] = Tail(events[s])]
    BY <1>13 DEF TakeEvent
  <2>4. CASE ws = s
    BY <2>1, <2>2, <2>3, <2>4, TailContains DEF TypeOK
  <2>5. CASE ws # s
    BY <2>1, <2>3, <2>5 DEF TypeOK
  <2>. QED
    BY <2>4, <2>5
<1>14. ASSUME NEW s \in Sock, DidOpenSend(s) PROVE PingWatchesOpen'
  <2>1. Contains(Append(delayed, "ping"), "ping") /\ Append(delayed, "ping") \in Seq({"open", "ping"})
    BY AppendContains DEF TypeOK
  <2>. DEFINE t == IF ws = NoSock /\ ~isClosed THEN Openings(waitDatas) ELSE <<>>
  <2>2. t \in Seq({"open", "ping"}) /\ delayed' = Append(delayed, "ping") \o t
    <3>1. t \in Seq({"open", "ping"})
      BY Opens
    <3>2. delayed' = Append(delayed, "ping") \o t
      BY <1>14, Zenon DEF DidOpenSend
    <3>. QED
      BY <3>1, <3>2
  <2>3. Contains(delayed', "ping")
    <3>. HIDE DEF t
    <3>. QED
      BY <2>1, <2>2, ConcatContains
  <2>4. NextEvent(s) = "opened" /\ TakeEvent(s) /\ UNCHANGED <<ws, state, pingTimer>>
    BY <1>14 DEF DidOpenSend
  <2>. QED
    BY <1>13, <2>3, <2>4
<1>15. ASSUME NEW s \in Sock, DidOpenForget(s) PROVE PingWatchesOpen'
  BY <1>1, <1>15 DEF DidOpenForget, timerVars, queueVars
<1>16. ASSUME NEW s \in Sock, DidFail(s) PROVE PingWatchesOpen'
  BY <1>13, <1>16 DEF DidFail, queueVars
<1>17. ASSUME NEW s \in Sock, DidReceive(s) PROVE PingWatchesOpen'
  BY <1>13, <1>17, SocketAssumption DEF DidReceive, Message
<1>18. CASE RunOpen
  BY <1>18, OpenNotOpen DEF RunOpen, PingWatchesOpen
<1>19. CASE RunPing
  BY <1>19 DEF RunPing, PingWatchesOpen
<1>20. CASE ReconTick
  BY <1>1, <1>4, <1>20 DEF ReconTick
<1>. QED
  BY <1>2, <1>3, <1>5, <1>6, <1>7, <1>9, <1>10, <1>11, <1>12, <1>14, <1>15, <1>16, <1>17,
     <1>18, <1>19, <1>20 DEF Next, DiagStep, Delegate

\* An open connection is always watched by its heartbeat, the only thing that
\* notices when it dies silently (didCloseWithCode only logs).
THEOREM HeartbeatWatches == Spec => []PingWatchesOpen
<1>1. Init => PingWatchesOpen
  BY DEF Init, PingWatchesOpen, IsOpen
<1>. QED
  BY <1>1, TypeInit, TypeNext, PingNext, PTL DEF Spec
-----------------------------------------------------------------------------
(* The time-outs.  That a call without a result still has its timer needs  *)
(* what is known of the calls to come: nobody holds their requests yet.    *)

CallInv ==
  /\ CallHasTimer
  /\ \A r \in Rpc :
       rpcTimer[r] = "off" =>
         /\ ~returned[r]
         /\ r \notin subscribeDict /\ r \notin waitDatas
         /\ pc # "run" => rpc # r

\* CallInv holds at the start ...
LEMMA CallInit == Init => CallInv
BY DEF Init, CallInv, CallHasTimer

\* SetRpcRecv leaves no call without a result.
LEMMA RecvEnds ==
  ASSUME TypeOK, NEW result, result # "none", SetRpcRecv(result), pc # "run"
  PROVE  got'[rpc] # "none"
BY DEF TypeOK, SetRpcRecv

\* ... and every action keeps it.
LEMMA CallNext ==
  ASSUME TypeOK, CallInv, [Next]_vars
  PROVE  CallInv'
<1>. USE DEF CallInv, CallHasTimer
<1>1. ASSUME UNCHANGED <<pc, rpc, got, rpcTimer, returned, dictVars>> PROVE CallInv'
  BY <1>1 DEF dictVars
<1>2. CASE \/ EnterDiag \/ LeaveDiag \/ RunOpen \/ RunPing \/ PingTick \/ ReconTick
           \/ UNCHANGED vars
  BY <1>1, <1>2
     DEF EnterDiag, LeaveDiag, RunOpen, RunPing, PingTick, ReconTick, rpcVars, vars
<1>3. ASSUME NEW s \in Sock, Connected(s) \/ Fail(s) \/ CloseDone(s) \/ Reply(s) PROVE CallInv'
  BY <1>1, <1>3 DEF Connected, Fail, CloseDone, Reply, rpcVars
<1>4. ASSUME NEW s \in Sock, DidFail(s) \/ DidReceive(s) PROVE CallInv'
  BY <1>1, <1>4 DEF DidFail, DidReceive, rpcVars
<1>5. ASSUME NEW s \in Sock, DidOpenSend(s) \/ DidOpenForget(s) PROVE CallInv'
  <2>1. UNCHANGED <<pc, rpc, got, rpcTimer, returned>>
    BY <1>5 DEF DidOpenSend, DidOpenForget, rpcVars
  <2>2. waitDatas' \subseteq waitDatas /\ subscribeDict' \subseteq subscribeDict \cup waitDatas
    BY <1>5 DEF DidOpenSend, DidOpenForget
  <2>. QED
    BY <2>1, <2>2
<1>6. ASSUME NEW r \in Rpc, RpcSend(r) PROVE CallInv'
  BY <1>6 DEF RpcSend, TypeOK, dictVars
<1>7. CASE SubscribeCheck \/ SubscribeReconnect
  BY <1>7 DEF SubscribeCheck, SubscribeReconnect, dictVars
<1>8. CASE SubscribeSend
  <2>1. /\ pc # "run" /\ pc' # "run"
        /\ UNCHANGED <<rpc, got, rpcTimer, returned, waitDatas, subscribeDict>>
    BY <1>8 DEF SubscribeSend, dictVars
  <2>. QED
    BY <2>1
<1>9. CASE SubscribeKeep \/ SubscribeRecord
  <2>1. /\ pc # "run" /\ pc' # "run" /\ UNCHANGED <<rpc, got, rpcTimer, returned>>
        /\ waitDatas' \subseteq waitDatas \cup {rpc}
        /\ subscribeDict' \subseteq subscribeDict \cup {rpc}
    BY <1>9 DEF SubscribeKeep, SubscribeRecord
  <2>. QED
    BY <2>1
<1>10. CASE RpcReturn
  BY <1>10 DEF RpcReturn, dictVars
<1>11. ASSUME NEW r \in Rpc, RpcTimeoutFire(r) PROVE CallInv'
  BY <1>11 DEF RpcTimeoutFire, TypeOK, dictVars
<1>12. ASSUME NEW r \in Rpc, RpcTimeoutReport(r) PROVE CallInv'
  <2>1. pc # "run" => got'[rpc] # "none"
    BY <1>12, RecvEnds DEF RpcTimeoutReport
  <2>2. /\ rpcTimer' = [rpcTimer EXCEPT ![r] = "done"]
        /\ UNCHANGED <<pc, rpc, returned, waitDatas, subscribeDict>>
    BY <1>12 DEF RpcTimeoutReport, dictVars
  <2>. QED
    BY <2>1, <2>2 DEF TypeOK
<1>13. CASE Deliver
  <2>1. UNCHANGED <<pc, rpc, rpcTimer, waitDatas>> /\ subscribeDict' = {}
    BY <1>13 DEF Deliver
  <2>2. CASE subscribeDict = {}
    <3>1. \A r \in Rpc : ~returned[r] => ~returned'[r]
      BY <1>13, <2>2, Zenon DEF Deliver
    <3>2. got' = got
      BY <1>13, <2>2 DEF Deliver
    <3>. QED
      BY <2>1, <3>1, <3>2 DEF TypeOK
  <2>3. CASE subscribeDict # {}
    <3>1. pc # "run" => got'[rpc] # "none"
      <4>1. Head(inbox) \in Message /\ Head(inbox) # "none"
        BY <1>13, SocketAssumption DEF Deliver, TypeOK, Message
      <4>. QED
        BY <1>13, <2>3, <4>1, RecvEnds DEF Deliver
    <3>2. \A r \in Rpc : ~returned[r] /\ r \notin subscribeDict => ~returned'[r]
      BY <1>13, Zenon DEF Deliver
    <3>. QED
      BY <2>1, <3>1, <3>2
  <2>. QED
    BY <2>2, <2>3
<1>. QED
  BY <1>2, <1>3, <1>4, <1>5, <1>6, <1>7, <1>8, <1>9, <1>10, <1>11, <1>12, <1>13
     DEF Next, DiagStep, Delegate

\* Whatever the network and the server do, an unanswered call's time-out is
\* still to come: RpcSend is never left without a result for good.
THEOREM CallsHaveTimers == Spec => []CallHasTimer
<1>1. CallInv => CallHasTimer
  BY DEF CallInv
<1>. QED
  BY <1>1, TypeInit, TypeNext, CallInit, CallNext, PTL DEF Spec
-----------------------------------------------------------------------------
(* Calls return.  A call goes through finitely many stages, so that        *)
(* fairness can be applied to one after the other.  What ENABLED says of   *)
(* the actions a call waits for, which follows from their guards, is a     *)
(* hypothesis.                                                             *)

\* The diagnosis thread can take its next step, unless it waits for a result,
\* and the time-out of a call can run, first to look and then to report.
DiagCanStep ==
  pc \notin {"run", "wait"} \/ (pc = "wait" /\ got[rpc] # "none") => ENABLED <<DiagStep>>_vars
TimeoutCanRun(r) ==
  /\ rpcTimer[r] = "set" => ENABLED <<RpcTimeoutFire(r)>>_vars
  /\ rpcTimer[r] = "firing" => ENABLED <<RpcTimeoutReport(r)>>_vars
GuardsEnable == DiagCanStep /\ \A r \in Rpc : TimeoutCanRun(r)

\* What is known in every state; outside RpcSend there is no call.
CallOK == TypeOK /\ CallInv /\ (pc = "run" => rpc = NoRpc)

\* Where the call r is, and, once it waits, what it waits for.
At(r, c) == rpc = r /\ pc = c
Unanswered(r, t) == At(r, "wait") /\ got[r] = "none" /\ rpcTimer[r] = t
Answered(r) == At(r, "wait") /\ got[r] # "none"

\* Only the diagnosis thread moves from place to place.
LEMMA OnlyDiagMoves ==
  ASSUME [Next]_vars
  PROVE  DiagStep \/ (\E r \in Rpc : RpcSend(r)) \/ UNCHANGED <<pc, rpc>>
<1>1. CASE EnterDiag \/ LeaveDiag \/ UNCHANGED vars
  BY <1>1 DEF EnterDiag, LeaveDiag, rpcVars, vars
<1>2. CASE RunOpen \/ RunPing \/ Deliver \/ PingTick \/ ReconTick
  BY <1>2 DEF RunOpen, RunPing, Deliver, PingTick, ReconTick, rpcVars
<1>3. ASSUME NEW r \in Rpc, RpcTimeoutFire(r) \/ RpcTimeoutReport(r) PROVE UNCHANGED <<pc, rpc>>
  BY <1>3 DEF RpcTimeoutFire, RpcTimeoutReport
<1>4. ASSUME NEW s \in Sock, Connected(s) \/ Fail(s) \/ CloseDone(s) \/ Reply(s) \/ Delegate(s)
      PROVE  UNCHANGED <<pc, rpc>>
  BY <1>4 DEF Connected, Fail, CloseDone, Reply, Delegate, DidOpenSend, DidOpenForget, DidFail,
              DidReceive, rpcVars
<1>. QED
  BY <1>1, <1>2, <1>3, <1>4 DEF Next

\* CallOK holds throughout.
LEMMA CallOKAlways == Spec => []CallOK
<1>. DEFINE Idle == pc = "run" => rpc = NoRpc
<1>1. Init => Idle
  BY DEF Init
<1>2. ASSUME TypeOK, Idle, [Next]_vars PROVE Idle'
  <2>1. CASE DiagStep
    BY <2>1, <1>2 DEF DiagStep, SubscribeCheck, SubscribeReconnect, SubscribeKeep,
                      SubscribeSend, SubscribeRecord, RpcReturn
  <2>2. ASSUME NEW r \in Rpc, RpcSend(r) PROVE Idle'
    BY <2>2 DEF RpcSend
  <2>. QED
    BY <2>1, <2>2, <1>2, OnlyDiagMoves
<1>3. CallOK <=> TypeOK /\ CallInv /\ Idle
  BY DEF CallOK
<1>. HIDE DEF Idle
<1>. QED
  BY <1>1, <1>2, <1>3, TypeInit, TypeNext, CallInit, CallNext, PTL DEF Spec

\* Before it waits a call stays where it is until the diagnosis thread moves,
\* and then it is one stage further.
LEMMA CallAdvances ==
  ASSUME NEW r \in Rpc, CallOK, [Next]_vars
  PROVE  /\ At(r, "check") => At(r, "check")' \/ At(r, "reconnect")' \/ At(r, "send")'
         /\ At(r, "reconnect") => At(r, "reconnect")' \/ At(r, "keep")'
         /\ At(r, "keep") => At(r, "keep")' \/ At(r, "wait")'
         /\ At(r, "send") => At(r, "send")' \/ At(r, "record")'
         /\ At(r, "record") => At(r, "record")' \/ At(r, "wait")'
         /\ DiagStep =>
              /\ At(r, "check") => At(r, "reconnect")' \/ At(r, "send")'
              /\ At(r, "reconnect") => At(r, "keep")'
              /\ At(r, "send") => At(r, "record")'
              /\ At(r, "keep") \/ At(r, "record") => At(r, "wait")'
<1>1. CASE DiagStep
  BY <1>1 DEF At, DiagStep, SubscribeCheck, SubscribeReconnect, SubscribeKeep, SubscribeSend,
              SubscribeRecord, RpcReturn
<1>2. CASE ~DiagStep
  <2>1. CASE UNCHANGED <<pc, rpc>>
    BY <2>1, <1>2 DEF At
  <2>2. CASE \E q \in Rpc : RpcSend(q)
    BY <2>2, <1>2 DEF At, RpcSend
  <2>. QED
    BY <1>2, <2>1, <2>2, OnlyDiagMoves
<1>. QED
  BY <1>1, <1>2

\* A result is not taken back.
LEMMA GotStays ==
  ASSUME NEW r \in Rpc, CallOK, [Next]_vars, got[r] # "none"
  PROVE  got'[r] # "none"
<1>1. ASSUME NEW result, SetRpcRecv(result) PROVE got'[r] # "none"
  BY <1>1 DEF SetRpcRecv, CallOK, TypeOK
<1>2. CASE UNCHANGED got
  BY <1>2
<1>3. CASE EnterDiag \/ LeaveDiag \/ UNCHANGED vars
  BY <1>2, <1>3 DEF EnterDiag, LeaveDiag, rpcVars, vars
<1>4. CASE RunOpen \/ RunPing \/ PingTick \/ ReconTick
  BY <1>2, <1>4 DEF RunOpen, RunPing, PingTick, ReconTick, rpcVars
<1>5. CASE Deliver
  BY <1>1, <1>2, <1>5 DEF Deliver
<1>6. CASE DiagStep
  BY <1>2, <1>6 DEF DiagStep, SubscribeCheck, SubscribeReconnect, SubscribeKeep, SubscribeSend,
                    SubscribeRecord, RpcReturn
<1>7. ASSUME NEW q \in Rpc, RpcSend(q) \/ RpcTimeoutFire(q) \/ RpcTimeoutReport(q)
      PROVE  got'[r] # "none"
  BY <1>1, <1>2, <1>7 DEF RpcSend, RpcTimeoutFire, RpcTimeoutReport
<1>8. ASSUME NEW s \in Sock, Connected(s) \/ Fail(s) \/ CloseDone(s) \/ Reply(s) \/ Delegate(s)
      PROVE  got'[r] # "none"
  BY <1>2, <1>8 DEF Connected, Fail, CloseDone, Reply, Delegate, DidOpenSend, DidOpenForget,
                    DidFail, DidReceive, rpcVars
<1>. QED
  BY <1>3, <1>4, <1>5, <1>6, <1>7, <1>8 DEF Next

\* A time-out that has looked does not look again, and a request is used once.
LEMMA FiringStays ==
  ASSUME NEW r \in Rpc, CallOK, [Next]_vars, rpcTimer[r] = "firing"
  PROVE  rpcTimer'[r] # "set"
<1>2. CASE UNCHANGED rpcTimer
  BY <1>2
<1>3. CASE EnterDiag \/ LeaveDiag \/ UNCHANGED vars
  BY <1>2, <1>3 DEF EnterDiag, LeaveDiag, rpcVars, vars
<1>4. CASE RunOpen \/ RunPing \/ PingTick \/ ReconTick \/ Deliver
  BY <1>2, <1>4 DEF RunOpen, RunPing, PingTick, ReconTick, Deliver, rpcVars
<1>6. CASE DiagStep
  BY <1>2, <1>6 DEF DiagStep, SubscribeCheck, SubscribeReconnect, SubscribeKeep, SubscribeSend,
                    SubscribeRecord, RpcReturn
<1>7. ASSUME NEW q \in Rpc, RpcSend(q) \/ RpcTimeoutFire(q) \/ RpcTimeoutReport(q)
      PROVE  rpcTimer'[r] # "set"
  BY <1>7 DEF RpcSend, RpcTimeoutFire, RpcTimeoutReport, CallOK, TypeOK
<1>8. ASSUME NEW s \in Sock, Connected(s) \/ Fail(s) \/ CloseDone(s) \/ Reply(s) \/ Delegate(s)
      PROVE  rpcTimer'[r] # "set"
  BY <1>2, <1>8 DEF Connected, Fail, CloseDone, Reply, Delegate, DidOpenSend, DidOpenForget,
                    DidFail, DidReceive, rpcVars
<1>. QED
  BY <1>3, <1>4, <1>6, <1>7, <1>8 DEF Next

\* A call that waits has its result or a time-out, and goes on in this order.
LEMMA WaitAdvances ==
  ASSUME NEW r \in Rpc, CallOK, CallOK', [Next]_vars
  PROVE  /\ At(r, "wait") => Unanswered(r, "set") \/ Unanswered(r, "firing") \/ Answered(r)
         /\ Unanswered(r, "set") => Unanswered(r, "set")' \/ Unanswered(r, "firing")' \/ Answered(r)'
         /\ Unanswered(r, "firing") => Unanswered(r, "firing")' \/ Answered(r)'
         /\ Answered(r) => Answered(r)' \/ (rpc # r)'
         /\ Unanswered(r, "set") /\ RpcTimeoutFire(r) => Unanswered(r, "firing")'
         /\ Unanswered(r, "firing") /\ RpcTimeoutReport(r) => Answered(r)'
         /\ Answered(r) /\ DiagStep => (rpc # r)'
<1>1. ASSUME At(r, "wait") PROVE Unanswered(r, "set") \/ Unanswered(r, "firing") \/ Answered(r)
  BY <1>1 DEF At, Unanswered, Answered, CallOK, CallInv, CallHasTimer
<1>2. ASSUME At(r, "wait") PROVE At(r, "wait")' \/ (DiagStep /\ got[r] # "none" /\ (rpc # r)')
  <2>1. CASE DiagStep
    BY <1>2, <2>1, SocketAssumption
       DEF At, DiagStep, SubscribeCheck, SubscribeReconnect, SubscribeKeep, SubscribeSend,
           SubscribeRecord, RpcReturn
  <2>2. CASE ~DiagStep
    BY <1>2, <2>2, OnlyDiagMoves DEF At, RpcSend
  <2>. QED
    BY <2>1, <2>2
<1>3. ASSUME At(r, "wait")'
      PROVE  Unanswered(r, "set")' \/ Unanswered(r, "firing")' \/ Answered(r)'
  BY <1>3 DEF At, Unanswered, Answered, CallOK, CallInv, CallHasTimer
<1>4. ASSUME Unanswered(r, "firing") PROVE ~Unanswered(r, "set")'
  BY <1>4, FiringStays DEF Unanswered
<1>5. ASSUME Answered(r) PROVE ~Unanswered(r, "set")' /\ ~Unanswered(r, "firing")'
  BY <1>5, GotStays DEF Answered, Unanswered
<1>6. ASSUME Unanswered(r, "set"), RpcTimeoutFire(r) PROVE Unanswered(r, "firing")'
  BY <1>6 DEF Unanswered, At, RpcTimeoutFire, CallOK, CallInv, CallHasTimer, TypeOK
<1>7. ASSUME Unanswered(r, "firing"), RpcTimeoutReport(r) PROVE Answered(r)'
  <2>1. got'[rpc] # "none"
    BY <1>7, RecvEnds DEF Unanswered, At, RpcTimeoutReport, CallOK
  <2>. QED
    BY <1>7, <2>1 DEF Unanswered, Answered, At, RpcTimeoutReport
<1>8. ASSUME Answered(r), DiagStep PROVE (rpc # r)'
  BY <1>8, SocketAssumption
     DEF Answered, At, DiagStep, SubscribeCheck, SubscribeReconnect, SubscribeKeep,
         SubscribeSend, SubscribeRecord, RpcReturn
<1>9. /\ Unanswered(r, "set") => At(r, "wait") /\ got[r] = "none"
      /\ Unanswered(r, "firing") => At(r, "wait") /\ got[r] = "none"
      /\ Answered(r) => At(r, "wait")
  BY DEF Unanswered, Answered
<1>. QED
  BY <1>1, <1>2, <1>3, <1>4, <1>5, <1>6, <1>7, <1>8, <1>9

\* What a call needs of Fairness.
LEMMA TimeoutsRun == Fairness => \A r \in Rpc : TimeoutRuns(r)
BY PTL DEF Fairness

\* The stages of one call, chained.
LEMMA CallReturns ==
  ASSUME NEW r \in Rpc
  PROVE  FairSpec /\ []GuardsEnable => Returns(r)
<1>1. CallOK /\ rpc = r =>
        \/ At(r, "check") \/ At(r, "reconnect") \/ At(r, "keep") \/ At(r, "send")
        \/ At(r, "record") \/ At(r, "wait")
  BY SocketAssumption DEF CallOK, TypeOK, At
<1>2. GuardsEnable =>
        /\ At(r, "check") \/ At(r, "reconnect") \/ At(r, "keep") \/ At(r, "send")
             \/ At(r, "record") \/ Answered(r) => ENABLED <<DiagStep>>_vars
        /\ TimeoutCanRun(r)
  BY DEF GuardsEnable, DiagCanStep, At, Answered
<1>3. TimeoutCanRun(r) =>
        /\ Unanswered(r, "set") => ENABLED <<RpcTimeoutFire(r)>>_vars
        /\ Unanswered(r, "firing") => ENABLED <<RpcTimeoutReport(r)>>_vars
  BY DEF TimeoutCanRun, Unanswered
<1>4. Fairness => WF_vars(DiagStep)
  BY PTL DEF Fairness
<1>5. Fairness => TimeoutRuns(r)
  BY TimeoutsRun
<1>6. TimeoutRuns(r) => WF_vars(RpcTimeoutFire(r)) /\ WF_vars(RpcTimeoutReport(r))
  BY PTL DEF TimeoutRuns
<1>7. CallOK /\ [Next]_vars =>
        /\ At(r, "check") => At(r, "check")' \/ At(r, "reconnect")' \/ At(r, "send")'
        /\ At(r, "reconnect") => At(r, "reconnect")' \/ At(r, "keep")'
        /\ At(r, "keep") => At(r, "keep")' \/ At(r, "wait")'
        /\ At(r, "send") => At(r, "send")' \/ At(r, "record")'
        /\ At(r, "record") => At(r, "record")' \/ At(r, "wait")'
  BY CallAdvances
<1>8. CallOK /\ <<DiagStep>>_vars =>
        /\ At(r, "check") => At(r, "reconnect")' \/ At(r, "send")'
        /\ At(r, "reconnect") => At(r, "keep")'
        /\ At(r, "send") => At(r, "record")'
        /\ At(r, "keep") \/ At(r, "record") => At(r, "wait")'
  <2>1. DiagStep => Next
    BY DEF Next
  <2>. QED
    BY <2>1, CallAdvances
<1>9. CallOK /\ CallOK' /\ [Next]_vars =>
        /\ At(r, "wait") => Unanswered(r, "set") \/ Unanswered(r, "firing") \/ Answered(r)
        /\ Unanswered(r, "set") =>
             Unanswered(r, "set")' \/ Unanswered(r, "firing")' \/ Answered(r)'
        /\ Unanswered(r, "firing") => Unanswered(r, "firing")' \/ Answered(r)'
        /\ Answered(r) => Answered(r)' \/ (rpc # r)'
  BY WaitAdvances
<1>10. /\ CallOK /\ CallOK' /\ <<RpcTimeoutFire(r)>>_vars =>
            (Unanswered(r, "set") => Unanswered(r, "firing")')
       /\ CallOK /\ CallOK' /\ <<RpcTimeoutReport(r)>>_vars =>
            (Unanswered(r, "firing") => Answered(r)')
       /\ CallOK /\ CallOK' /\ <<DiagStep>>_vars => (Answered(r) => (rpc # r)')
  <2>1. RpcTimeoutFire(r) \/ RpcTimeoutReport(r) \/ DiagStep => Next
    BY DEF Next
  <2>. QED
    BY <2>1, WaitAdvances
<1>. DEFINE Behaves == FairSpec /\ []GuardsEnable
<1>11. Behaves => /\ []CallOK /\ [][Next]_vars /\ []GuardsEnable /\ WF_vars(DiagStep)
                  /\ WF_vars(RpcTimeoutFire(r)) /\ WF_vars(RpcTimeoutReport(r))
  BY <1>4, <1>5, <1>6, CallOKAlways, PTL DEF FairSpec, Spec
<1>. HIDE DEF Behaves
<1>12. Behaves => (At(r, "check") ~> At(r, "reconnect") \/ At(r, "send"))
  BY <1>2, <1>7, <1>8, <1>11, PTL
<1>13. Behaves => (At(r, "reconnect") ~> At(r, "keep"))
  BY <1>2, <1>7, <1>8, <1>11, PTL
<1>14. Behaves => (At(r, "keep") ~> At(r, "wait"))
  BY <1>2, <1>7, <1>8, <1>11, PTL
<1>15. Behaves => (At(r, "send") ~> At(r, "record"))
  BY <1>2, <1>7, <1>8, <1>11, PTL
<1>16. Behaves => (At(r, "record") ~> At(r, "wait"))
  BY <1>2, <1>7, <1>8, <1>11, PTL
<1>17. Behaves => (Unanswered(r, "set") ~> Unanswered(r, "firing") \/ Answered(r))
  BY <1>2, <1>3, <1>9, <1>10, <1>11, PTL
<1>18. Behaves => (Unanswered(r, "firing") ~> Answered(r))
  BY <1>2, <1>3, <1>9, <1>10, <1>11, PTL
<1>19. Behaves => (Answered(r) ~> rpc # r)
  BY <1>2, <1>9, <1>10, <1>11, PTL
<1>20. Behaves => (At(r, "wait") ~> Unanswered(r, "set") \/ Unanswered(r, "firing") \/ Answered(r))
  <2>1. CallOK /\ At(r, "wait") => Unanswered(r, "set") \/ Unanswered(r, "firing") \/ Answered(r)
    BY DEF At, Unanswered, Answered, CallOK, CallInv, CallHasTimer
  <2>. QED
    BY <2>1, <1>11, PTL
<1>21. Behaves => (At(r, "wait") ~> rpc # r)
  BY <1>17, <1>18, <1>19, <1>20, PTL
<1>22. Behaves => (rpc = r ~> rpc # r)
  BY <1>1, <1>11, <1>12, <1>13, <1>14, <1>15, <1>16, <1>21, PTL
<1>. QED
  BY <1>22, PTL DEF Behaves, Returns

\* A call to RpcSend returns, for any number of calls and sockets: the
\* diagnosis thread reaches its wait, and then either an answer comes first or
\* the time-out of that very call does.
THEOREM CallsReturn == FairSpec /\ []GuardsEnable => RpcReturned
BY CallReturns DEF RpcReturned
-----------------------------------------------------------------------------
(* After the diagnosis reconnect stops opening sockets.  Each block that   *)
(* would open one is run, once a socket can be had, and adds no other.     *)

\* The main queue's blocks, the delegate methods and the network's ends of
\* connections can take place where their guards hold.
QueueCanRun ==
  /\ delayed # <<>> /\ Head(delayed) = "open" /\ (\E s \in Sock : Unused(s)) =>
       ENABLED <<RunOpen>>_vars
  /\ delayed # <<>> /\ Head(delayed) = "ping" => ENABLED <<RunPing>>_vars
SocketCanEnd(s) ==
  /\ s \in opening \/ events[s] # <<>> => ENABLED <<Delegate(s)>>_vars
  /\ s # ws /\ state[s] # "closed" => ENABLED <<s # ws /\ (Fail(s) \/ CloseDone(s))>>_vars
SocketGuardsEnable == QueueCanRun /\ \A s \in Sock : SocketCanEnd(s)

\* The diagnosis is over when the socket has been closed.  A socket's delegate
\* methods are those of its opening, its failure and a bounded number of messages.
EventLimit(l) ==
  IF l = "connecting" THEN 0 ELSE IF l = "closed" THEN MaxQueue + 1 ELSE MaxQueue
EventsLimited(s) == Len(events[s]) <= EventLimit(state[s])
SocketOK == TypeOK /\ (isClosed => ~diag) /\ \A s \in Sock : EventsLimited(s)

LEMMA EventsShrink ==
  ASSUME TypeOK, NEW s \in Sock, TakeEvent(s), events[s] # <<>>
  PROVE  /\ \A t \in Sock \ {s} : events'[t] = events[t]
         /\ Len(events[s]) \in Nat \ {0} /\ Len(events'[s]) = Len(events[s]) - 1
<1>1. events \in [Sock -> Seq(Message \cup {"opened", "failed"})]
  BY DEF TypeOK
<1>2. events[s] \in Seq(Message \cup {"opened", "failed"})
  BY <1>1
<1>3. \A t \in Sock \ {s} : events'[t] = events[t]
  BY <1>1 DEF TakeEvent
<1>4. events'[s] = Tail(events[s])
  BY <1>1 DEF TakeEvent
<1>. QED
  BY <1>2, <1>3, <1>4

\* Each delegate method takes one event, and does not touch the socket otherwise.
LEMMA DelegateTakes ==
  ASSUME TypeOK, NEW s \in Sock, Delegate(s)
  PROVE  /\ UNCHANGED <<ws, state, isClosed, diag>>
         /\ \A t \in Sock \ {s} : events'[t] = events[t] /\ (t \in opening' <=> t \in opening)
         /\ \/ s \in opening /\ s \notin opening' /\ events'[s] = events[s]
            \/ s \notin opening /\ Len(events[s]) \in Nat \ {0}
               /\ Len(events'[s]) = Len(events[s]) - 1
<1>1. CASE DidOpenForget(s)
  BY <1>1 DEF DidOpenForget
<1>2. CASE DidOpenSend(s)
  <2>1. events[s] # <<>> /\ s \notin opening /\ TakeEvent(s)
    BY <1>2 DEF DidOpenSend, NextEvent
  <2>2. UNCHANGED <<ws, state, isClosed, diag>> /\ opening' = opening \cup {s}
    BY <1>2 DEF DidOpenSend
  <2>. QED
    BY <2>1, <2>2, EventsShrink
<1>3. CASE DidFail(s) \/ DidReceive(s)
  <2>1. events[s] # <<>> /\ s \notin opening /\ TakeEvent(s)
    BY <1>3, SocketAssumption DEF DidFail, DidReceive, NextEvent, Message
  <2>2. UNCHANGED <<ws, state, isClosed, diag, opening>>
    BY <1>3 DEF DidFail, DidReceive
  <2>. QED
    BY <2>1, <2>2, EventsShrink
<1>. QED
  BY <1>1, <1>2, <1>3 DEF Delegate

LEMMA ClosedOnLeaving ==
  ASSUME TypeOK, isClosed => ~diag, [Next]_vars
  PROVE  (isClosed => ~diag)'
<1>1. CASE EnterDiag \/ LeaveDiag \/ UNCHANGED vars
  BY <1>1 DEF EnterDiag, LeaveDiag, vars
<1>2. CASE DiagStep
  BY <1>2 DEF DiagStep, SubscribeCheck, SubscribeReconnect, SubscribeKeep, SubscribeSend,
              SubscribeRecord, RpcReturn
<1>3. CASE RunOpen \/ RunPing \/ Deliver \/ PingTick \/ ReconTick
  BY <1>3 DEF RunOpen, RunPing, Deliver, PingTick, ReconTick
<1>4. ASSUME NEW r \in Rpc, RpcSend(r) \/ RpcTimeoutFire(r) \/ RpcTimeoutReport(r)
      PROVE  UNCHANGED <<isClosed, diag>>
  BY <1>4 DEF RpcSend, RpcTimeoutFire, RpcTimeoutReport
<1>5. ASSUME NEW s \in Sock, Connected(s) \/ Fail(s) \/ CloseDone(s) \/ Reply(s) \/ Delegate(s)
      PROVE  UNCHANGED <<isClosed, diag>>
  BY <1>5, DelegateTakes DEF Connected, Fail, CloseDone, Reply
<1>. QED
  BY <1>1, <1>2, <1>3, <1>4, <1>5 DEF Next

LEMMA EventsStayLimited ==
  ASSUME TypeOK, \A s \in Sock : EventsLimited(s), [Next]_vars
  PROVE  (\A s \in Sock : EventsLimited(s))'
<1>. SUFFICES ASSUME NEW s \in Sock PROVE EventsLimited(s)'
  OBVIOUS
<1>0. /\ events \in [Sock -> Seq(Message \cup {"opened", "failed"})]
      /\ state \in [Sock -> {"connecting", "open", "closing", "closed"}]
      /\ events[s] \in Seq(Message \cup {"opened", "failed"}) /\ Len(events[s]) \in Nat
      /\ MaxQueue \in Nat \ {0} /\ inbox \in Seq(Message) /\ Len(inbox) \in Nat
      /\ EventsLimited(s) /\ ws \in Sock \cup {NoSock}
  BY SocketAssumption DEF TypeOK
<1>1. CASE UNCHANGED <<events, state>>
  BY <1>0, <1>1 DEF EventsLimited
<1>2. ASSUME UNCHANGED events, OpenWithToken PROVE EventsLimited(s)'
  <2>1. PICK t \in Sock : Unused(t) /\ state' = [state EXCEPT ![t] = "connecting"]
    BY <1>2 DEF OpenWithToken
  <2>2. state'[s] = state[s] \/ (events[s] = <<>> /\ Len(events[s]) = 0)
    BY <1>0, <2>1 DEF Unused
  <2>. QED
    BY <1>0, <1>2, <2>2 DEF EventsLimited, EventLimit
<1>3. ASSUME UNCHANGED events, CloseSocket PROVE EventsLimited(s)'
  <2>1. state'[s] = state[s] \/ (state'[s] = "closing" /\ state[s] # "closed")
    BY <1>0, <1>3 DEF CloseSocket
  <2>. QED
    BY <1>0, <1>3, <2>1 DEF EventsLimited, EventLimit
<1>4. ASSUME UNCHANGED events, Reconnect PROVE EventsLimited(s)'
  BY <1>0, <1>1, <1>3, <1>4 DEF Reconnect
<1>5. CASE EnterDiag \/ RunOpen \/ LeaveDiag \/ SubscribeReconnect \/ ReconTick
  BY <1>1, <1>2, <1>3, <1>4, <1>5 DEF EnterDiag, RunOpen, LeaveDiag, SubscribeReconnect, ReconTick
<1>6. ASSUME NEW t \in Sock, Connected(t) \/ Fail(t) PROVE EventsLimited(s)'
  <2>1. CASE t # s
    <3>1. events'[s] = events[s] /\ state'[s] = state[s]
      BY <1>0, <1>6, <2>1 DEF Connected, Fail
    <3>. QED
      BY <1>0, <3>1 DEF EventsLimited
  <2>2. CASE t = s
    <3>1. Len(events'[s]) = Len(events[s]) + 1
      BY <1>0, <1>6, <2>2 DEF Connected, Fail
    <3>2. \/ state[s] = "connecting" /\ state'[s] = "open"
          \/ state[s] # "closed" /\ state'[s] = "closed"
      BY <1>0, <1>6, <2>2 DEF Connected, Fail
    <3>. QED
      BY <1>0, <3>1, <3>2 DEF EventsLimited, EventLimit
  <2>. QED
    BY <2>1, <2>2
<1>7. ASSUME NEW t \in Sock, CloseDone(t) PROVE EventsLimited(s)'
  <2>1. UNCHANGED events /\ (state'[s] = state[s] \/ state'[s] = "closed")
    BY <1>0, <1>7 DEF CloseDone
  <2>. QED
    BY <1>0, <2>1 DEF EventsLimited, EventLimit
<1>8. ASSUME NEW t \in Sock, Reply(t) PROVE EventsLimited(s)'
  <2>1. PICK q \in atServer[t] :
          /\ state[t] = "open" /\ Len(events[t]) + Len(inbox) < MaxQueue
          /\ events' = [events EXCEPT ![t] = Append(@, q)] /\ UNCHANGED state
    BY <1>8 DEF Reply
  <2>2. CASE t # s
    <3>1. events'[s] = events[s] /\ state'[s] = state[s]
      BY <1>0, <2>1, <2>2
    <3>. QED
      BY <1>0, <3>1 DEF EventsLimited
  <2>3. CASE t = s
    <3>1. Len(events'[s]) = Len(events[s]) + 1 /\ state'[s] = "open"
      BY <1>0, <2>1, <2>3
    <3>. QED
      BY <1>0, <2>1, <2>3, <3>1 DEF EventsLimited, EventLimit
  <2>. QED
    BY <2>2, <2>3
<1>9. ASSUME NEW t \in Sock, Delegate(t) PROVE EventsLimited(s)'
  <2>1. UNCHANGED state /\ (events'[s] = events[s] \/ Len(events'[s]) = Len(events[s]) - 1)
    BY <1>9, DelegateTakes
  <2>. QED
    BY <1>0, <2>1 DEF EventsLimited, EventLimit
<1>10. CASE DiagStep
  BY <1>1, <1>5, <1>10 DEF DiagStep, SubscribeCheck, SubscribeKeep, SubscribeSend,
     SubscribeRecord, RpcReturn, sockVars
<1>11. CASE RunPing \/ Deliver \/ PingTick \/ UNCHANGED vars
  BY <1>1, <1>11 DEF RunPing, Deliver, PingTick, vars, sockVars
<1>12. ASSUME NEW r \in Rpc, RpcSend(r) \/ RpcTimeoutFire(r) \/ RpcTimeoutReport(r)
       PROVE  EventsLimited(s)'
  BY <1>1, <1>12 DEF RpcSend, RpcTimeoutFire, RpcTimeoutReport, sockVars
<1>. QED
  BY <1>5, <1>6, <1>7, <1>8, <1>9, <1>10, <1>11, <1>12 DEF Next

LEMMA SocketOKAlways == Spec => []SocketOK
<1>1. Init => (isClosed => ~diag) /\ \A s \in Sock : EventsLimited(s)
  <2>. SUFFICES ASSUME Init PROVE \A s \in Sock : EventsLimited(s)
    BY DEF Init
  <2>1. \A s \in Sock : events[s] = <<>> /\ Len(events[s]) = 0 /\ state[s] = "closed"
    BY DEF Init
  <2>. QED
    BY <2>1, SocketAssumption DEF EventsLimited, EventLimit
<1>2. SocketOK /\ TypeOK' /\ [Next]_vars => SocketOK'
  BY ClosedOnLeaving, EventsStayLimited DEF SocketOK
<1>3. Init /\ TypeOK => SocketOK
  BY <1>1 DEF SocketOK
<1>. QED
  BY <1>2, <1>3, TypeCorrect, PTL DEF Spec

\* No block behind the nth opens a socket, and the diagnosis is over.
LastOpen(n) == isClosed /\ \A i \in DOMAIN delayed : delayed[i] = "open" => i <= n
Settled(n) == LastOpen(n) \/ ~isClosed

\* The first block opens a socket, for which s may be had; its queue has so much to
\* do before.
Turn(s, n) == LastOpen(n) /\ delayed # <<>> /\ Head(delayed) = "open" /\ s # ws
Rest(s) == IF s \in opening THEN 1 ELSE 0
Work(s) == 2 * Len(events[s]) + Rest(s)
Dying(s, n, k) == Turn(s, n) /\ state[s] = "closed" /\ Work(s) <= k

\* What is done of a block when the first is taken, or "ping" is added.
LEMMA LastOpenTaken ==
  ASSUME NEW n \in Nat, TypeOK, LastOpen(n + 1), RunOpen \/ RunPing
  PROVE  LastOpen(n)'
<1>1. /\ delayed \in Seq({"open", "ping"}) /\ delayed # <<>> /\ delayed' = Tail(delayed)
      /\ isClosed' = isClosed
  BY DEF TypeOK, RunOpen, RunPing
<1>2. \A i \in DOMAIN delayed' : i \in Nat /\ i + 1 \in DOMAIN delayed /\ delayed'[i] = delayed[i + 1]
  BY <1>1
<1>. QED
  BY <1>1, <1>2 DEF LastOpen

LEMMA LastOpenKept ==
  ASSUME NEW n \in Nat, TypeOK, LastOpen(n), isClosed',
         UNCHANGED delayed \/ delayed' = Append(delayed, "ping")
  PROVE  LastOpen(n)'
<1>1. CASE delayed' = Append(delayed, "ping")
  <2>1. \A i \in DOMAIN delayed' :
          delayed'[i] = "ping" \/ (i \in DOMAIN delayed /\ delayed'[i] = delayed[i])
    BY <1>1 DEF TypeOK
  <2>. QED
    BY <2>1 DEF LastOpen
<1>. QED
  BY <1>1 DEF LastOpen

\* Once the diagnosis is over the sockets come and go with the blocks of the main
\* queue alone, and nobody adds one to open another.
LEMMA ClosedStep ==
  ASSUME SocketOK, isClosed, isClosed', [Next]_vars
  PROVE  \/ RunOpen
         \/ /\ UNCHANGED ws
            /\ RunPing \/ UNCHANGED delayed \/ delayed' = Append(delayed, "ping")
            /\ \A s \in Sock :
                 state[s] = "closed" =>
                   /\ state'[s] = "closed"
                   /\ Delegate(s) \/ (events'[s] = events[s] /\ (s \in opening' <=> s \in opening))
<1>0. /\ pc = "run" /\ ~diag
      /\ state \in [Sock -> {"connecting", "open", "closing", "closed"}]
      /\ events \in [Sock -> Seq(Message \cup {"opened", "failed"})]
  BY DEF SocketOK, TypeOK
<1>1. ~EnterDiag /\ ~LeaveDiag /\ ~DiagStep /\ ~\E r \in Rpc : RpcSend(r)
  BY <1>0 DEF EnterDiag, LeaveDiag, DiagStep, SubscribeCheck, SubscribeReconnect, SubscribeKeep,
     SubscribeSend, SubscribeRecord, RpcReturn, RpcSend
<1>2. CASE \E r \in Rpc : RpcTimeoutFire(r) \/ RpcTimeoutReport(r)
  BY <1>2 DEF RpcTimeoutFire, RpcTimeoutReport, sockVars, queueVars
<1>3. CASE RunPing \/ Deliver \/ PingTick \/ UNCHANGED vars
  BY <1>3 DEF RunPing, Deliver, PingTick, sockVars, queueVars, vars
<1>4. CASE ReconTick
  BY <1>4 DEF ReconTick, Reconnect
<1>5. ASSUME NEW t \in Sock, Connected(t) \/ Fail(t) \/ CloseDone(t) \/ Reply(t)
      PROVE  /\ UNCHANGED <<ws, delayed, opening>> /\ state[t] # "closed"
             /\ \A s \in Sock \ {t} : state'[s] = state[s] /\ events'[s] = events[s]
  BY <1>0, <1>5 DEF Connected, Fail, CloseDone, Reply, queueVars
<1>6. ASSUME NEW t \in Sock, Delegate(t)
      PROVE  UNCHANGED delayed \/ delayed' = Append(delayed, "ping")
  <2>1. CASE DidOpenSend(t)
    <3>1. delayed' = Append(delayed, "ping") \o <<>> /\ delayed \in Seq({"open", "ping"})
      BY <2>1 DEF DidOpenSend, SocketOK, TypeOK
    <3>. QED
      BY <3>1
  <2>2. CASE DidOpenForget(t) \/ DidFail(t) \/ DidReceive(t)
    BY <2>2 DEF DidOpenForget, DidFail, DidReceive, queueVars
  <2>. QED
    BY <1>6, <2>1, <2>2 DEF Delegate
<1>7. ASSUME NEW t \in Sock, Delegate(t)
      PROVE  /\ UNCHANGED <<ws, state>>
             /\ \A s \in Sock \ {t} : events'[s] = events[s] /\ (s \in opening' <=> s \in opening)
  BY <1>7, DelegateTakes DEF SocketOK
<1>. QED
  BY <1>1, <1>2, <1>3, <1>4, <1>5, <1>6, <1>7 DEF Next

LEMMA LastOpenStep ==
  ASSUME NEW n \in Nat, SocketOK, LastOpen(n), [Next]_vars
  PROVE  Settled(n)'
<1>. SUFFICES ASSUME isClosed' PROVE LastOpen(n)'
  BY DEF Settled
<1>1. CASE UNCHANGED delayed \/ delayed' = Append(delayed, "ping")
  BY <1>1, LastOpenKept DEF SocketOK
<1>2. CASE RunOpen \/ RunPing
  <2>1. n + 1 \in Nat /\ LastOpen(n + 1)
    BY DEF LastOpen, SocketOK, TypeOK
  <2>. QED
    BY <1>2, <2>1, LastOpenTaken DEF SocketOK
<1>. QED
  BY <1>1, <1>2, ClosedStep DEF LastOpen

LEMMA TurnStep ==
  ASSUME NEW n \in Nat, NEW s \in Sock, SocketOK, Turn(s, n + 1), [Next]_vars
  PROVE  Settled(n)' \/ Turn(s, n + 1)'
<1>. SUFFICES ASSUME isClosed' PROVE LastOpen(n)' \/ Turn(s, n + 1)'
  BY DEF Settled
<1>1. CASE RunOpen \/ RunPing
  BY <1>1, LastOpenTaken DEF SocketOK, Turn
<1>2. CASE UNCHANGED ws /\ (UNCHANGED delayed \/ delayed' = Append(delayed, "ping"))
  <2>1. LastOpen(n + 1)'
    BY <1>2, LastOpenKept DEF SocketOK, Turn
  <2>2. delayed' # <<>> /\ Head(delayed') = Head(delayed)
    <3>1. delayed \in Seq({"open", "ping"}) /\ delayed # <<>>
      BY DEF SocketOK, TypeOK, Turn
    <3>2. /\ Append(delayed, "ping") # <<>>
          /\ Head(Append(delayed, "ping")) = Head(delayed)
      BY <3>1
    <3>. QED
      BY <1>2, <3>1, <3>2
  <2>. QED
    BY <1>2, <2>1, <2>2 DEF Turn
<1>. QED
  BY <1>1, <1>2, ClosedStep DEF Turn, LastOpen

\* Whose queue works, and ends its connection once it is not the current one.
Runs(s) ==
  /\ [][Next]_vars /\ []SocketOK /\ []SocketGuardsEnable
  /\ DelegateRuns(s) /\ NetworkEnds(s) /\ WF_vars(RunOpen) /\ WF_vars(RunPing)

LEMMA CanEnd ==
  ASSUME NEW s \in Sock PROVE SocketGuardsEnable => SocketCanEnd(s)
BY DEF SocketGuardsEnable

\* Its connection ends ...
LEMMA TurnEnds ==
  ASSUME NEW n \in Nat, NEW s \in Sock
  PROVE  Runs(s) => (Turn(s, n + 1) ~> Dying(s, n + 1, 2 * MaxQueue + 3) \/ Settled(n))
<1>1. ASSUME SocketOK, Turn(s, n + 1), [Next]_vars PROVE Turn(s, n + 1)' \/ Settled(n)'
  BY <1>1, TurnStep
<1>2. ASSUME SocketOK, Turn(s, n + 1), s # ws /\ (Fail(s) \/ CloseDone(s))
      PROVE  (Turn(s, n + 1) /\ state[s] = "closed")' \/ Settled(n)'
  <2>1. state'[s] = "closed" /\ [Next]_vars
    BY <1>2 DEF Fail, CloseDone, SocketOK, TypeOK, Next
  <2>. QED
    BY <1>2, <2>1, TurnStep
<1>3. SocketOK => (Turn(s, n + 1) /\ state[s] = "closed" => Dying(s, n + 1, 2 * MaxQueue + 3))
  <2>. SUFFICES ASSUME SocketOK, Turn(s, n + 1), state[s] = "closed"
                PROVE  Work(s) <= 2 * MaxQueue + 3
    BY DEF Dying
  <2>1. Len(events[s]) \in Nat /\ Len(events[s]) <= MaxQueue + 1 /\ MaxQueue \in Nat
    BY SocketAssumption DEF SocketOK, TypeOK, EventsLimited, EventLimit
  <2>2. Rest(s) \in {0, 1}
    BY DEF Rest
  <2>. QED
    BY <2>1, <2>2 DEF Work
<1>4. SocketCanEnd(s) =>
        (Turn(s, n + 1) => state[s] = "closed" \/ ENABLED <<s # ws /\ (Fail(s) \/ CloseDone(s))>>_vars)
  BY DEF SocketCanEnd, Turn
<1>. QED
  BY <1>1, <1>2, <1>3, <1>4, CanEnd, PTL DEF Runs, NetworkEnds

\* ... its queue does what is left to do ...
LEMMA DyingStep ==
  ASSUME NEW n \in Nat, NEW k \in Nat, NEW s \in Sock, SocketOK, Dying(s, n + 1, k + 1), [Next]_vars
  PROVE  /\ Dying(s, n + 1, k + 1)' \/ Settled(n)'
         /\ Delegate(s) => Dying(s, n + 1, k)' \/ Settled(n)'
<1>. SUFFICES ASSUME Turn(s, n + 1)', ~Settled(n)'
              PROVE  Dying(s, n + 1, k + 1)' /\ (Delegate(s) => Dying(s, n + 1, k)')
  BY TurnStep DEF Dying
<1>0. /\ isClosed /\ isClosed' /\ Work(s) <= k + 1 /\ state[s] = "closed"
      /\ Len(events[s]) \in Nat
  BY DEF Dying, Turn, LastOpen, SocketOK, TypeOK
<1>1. CASE RunOpen
  <2>1. Settled(n)'
    BY <1>1, LastOpenTaken DEF Dying, Turn, SocketOK, Settled
  <2>. QED
    BY <2>1
<1>2. CASE Delegate(s)
  <2>1. Work(s)' <= Work(s) - 1 /\ Work(s) \in Nat /\ Work(s)' \in Nat /\ UNCHANGED state
    <3>1. Rest(s) \in {0, 1} /\ Rest(s)' \in {0, 1}
      BY DEF Rest
    <3>2. /\ UNCHANGED state
          /\ \/ Rest(s) = 1 /\ Rest(s)' = 0 /\ Len(events'[s]) = Len(events[s])
             \/ Rest(s) = 0 /\ Len(events[s]) \in Nat \ {0} /\ Len(events'[s]) = Len(events[s]) - 1
      BY <1>2, DelegateTakes DEF SocketOK, Rest
    <3>3. /\ Work(s) = 2 * Len(events[s]) + Rest(s)
          /\ Work(s)' = 2 * Len(events'[s]) + Rest(s)'
      BY DEF Work
    <3>4. Len(events'[s]) \in Nat
      BY <1>0, <3>2
    <3>5. Work(s) \in Nat /\ Work(s)' \in Nat
      BY <1>0, <3>1, <3>3, <3>4
    <3>6. CASE Rest(s) = 1 /\ Rest(s)' = 0 /\ Len(events'[s]) = Len(events[s])
      BY <1>0, <3>2, <3>3, <3>5, <3>6
    <3>7. CASE Rest(s) = 0 /\ Len(events'[s]) = Len(events[s]) - 1
      BY <1>0, <3>1, <3>2, <3>3, <3>5, <3>7
    <3>. QED
      BY <3>2, <3>5, <3>6, <3>7
  <2>. QED
    BY <1>0, <2>1 DEF Dying
<1>3. CASE ~RunOpen /\ ~Delegate(s)
  <2>1. state'[s] = "closed" /\ events'[s] = events[s] /\ (s \in opening' <=> s \in opening)
    BY <1>0, <1>3, ClosedStep
  <2>2. Work(s)' = Work(s)
    BY <2>1 DEF Work, Rest
  <2>. QED
    BY <1>0, <1>3, <2>1, <2>2 DEF Dying
<1>. QED
  BY <1>1, <1>2, <1>3

Dies(s, n, k) == Runs(s) => (Dying(s, n + 1, k) ~> Dying(s, n + 1, 0) \/ Settled(n))

LEMMA DieStep ==
  ASSUME NEW n \in Nat, NEW k \in Nat, NEW s \in Sock
  PROVE  Dies(s, n, k) => Dies(s, n, k + 1)
<1>1. SocketOK /\ [Next]_vars =>
        (Dying(s, n + 1, k + 1) => Dying(s, n + 1, k + 1)' \/ Settled(n)')
  BY DyingStep
<1>2. SocketOK /\ Dying(s, n + 1, k + 1) /\ Delegate(s) => Dying(s, n + 1, k)' \/ Settled(n)'
  BY DyingStep DEF Next
<1>3. ASSUME SocketOK, SocketCanEnd(s), Dying(s, n + 1, k + 1)
      PROVE  Dying(s, n + 1, 0) \/ ENABLED <<Delegate(s)>>_vars
  <2>1. ASSUME s \notin opening, events[s] = <<>> PROVE Dying(s, n + 1, 0)
    <3>1. Work(s) = 0
      BY <2>1 DEF Work, Rest
    <3>. QED
      BY <1>3, <3>1 DEF Dying
  <2>. QED
    BY <1>3, <2>1 DEF SocketCanEnd
<1>. QED
  BY <1>1, <1>2, <1>3, CanEnd, PTL DEF Dies, Runs, DelegateRuns

LEMMA AllDie == ASSUME NEW n \in Nat, NEW s \in Sock PROVE \A k \in Nat : Dies(s, n, k)
<1>. DEFINE Die == [k \in Nat |-> Dies(s, n, k)]
<1>1. Dies(s, n, 0)
  BY PTL DEF Dies
<1>2. ASSUME NEW k \in Nat PROVE Dies(s, n, k) => Dies(s, n, k + 1)
  BY DieStep
<1>3. \E U : Available(U) /\ \A k \in Nat : U[k] <=> Dies(s, n, k)
  <2>1. Available(Die)
    BY DEF Available
  <2>. QED
    BY <2>1
<1>. QED
  BY <1>1, <1>2, <1>3, FunctionInduction

\* ... and it is there for the block to open.
LEMMA DeadOpens ==
  ASSUME NEW n \in Nat, NEW s \in Sock
  PROVE  Runs(s) => (Dying(s, n + 1, 0) ~> Settled(n))
<1>. DEFINE Had == Turn(s, n + 1) /\ Unused(s)
<1>1. ASSUME SocketOK, Dying(s, n + 1, 0) PROVE Had
  <2>1. /\ events[s] \in Seq(Message \cup {"opened", "failed"}) /\ Len(events[s]) \in Nat
        /\ 2 * Len(events[s]) + Rest(s) <= 0 /\ Rest(s) \in {0, 1}
    BY <1>1 DEF SocketOK, TypeOK, Dying, Work, Rest
  <2>2. Len(events[s]) = 0 /\ Rest(s) = 0
    BY <2>1
  <2>3. events[s] = <<>>
    BY <2>1, <2>2
  <2>. QED
    BY <1>1, <2>2, <2>3 DEF Dying, Unused, Rest
<1>2. ASSUME SocketOK, Had, [Next]_vars PROVE Had' \/ Settled(n)'
  <2>. SUFFICES ASSUME Turn(s, n + 1)', ~Settled(n)' PROVE Unused(s)'
    BY <1>2, TurnStep
  <2>1. ~RunOpen
    BY <1>2, LastOpenTaken DEF Turn, SocketOK, Settled
  <2>2. ~Delegate(s)
    BY <1>2, SocketAssumption
       DEF Unused, Delegate, DidOpenSend, DidOpenForget, DidFail, DidReceive, NextEvent, Message
  <2>. QED
    BY <1>2, <2>1, <2>2, ClosedStep DEF Unused, Turn, LastOpen
<1>3. ASSUME SocketOK, Had, RunOpen PROVE Settled(n)'
  BY <1>3, LastOpenTaken DEF Turn, SocketOK, Settled
<1>4. SocketGuardsEnable => (Had => ENABLED <<RunOpen>>_vars)
  BY DEF SocketGuardsEnable, QueueCanRun, Turn
<1>. HIDE DEF Had
<1>. QED
  BY <1>1, <1>2, <1>3, <1>4, PTL DEF Runs

Opened(s, n) == Runs(s) => (Turn(s, n + 1) ~> Settled(n))

LEMMA TurnSettles == ASSUME NEW n \in Nat, NEW s \in Sock PROVE Opened(s, n)
<1>1. 2 * MaxQueue + 3 \in Nat
  BY SocketAssumption
<1>2. Dies(s, n, 2 * MaxQueue + 3)
  BY <1>1, AllDie
<1>. QED
  BY <1>2, TurnEnds, DeadOpens, PTL DEF Dies, Opened

\* Of two sockets one is not the current one, and can be had.
TwoRun(s, t) == Runs(s) /\ Runs(t)
Settles(s, t, n) == TwoRun(s, t) => (LastOpen(n) ~> Settled(0))

LEMMA SettleStep ==
  ASSUME NEW s \in Sock, NEW t \in Sock, s # t, NEW n \in Nat
  PROVE  Settles(s, t, n) => Settles(s, t, n + 1)
<1>. DEFINE Ping == LastOpen(n + 1) /\ delayed # <<>> /\ Head(delayed) = "ping"
<1>1. ASSUME SocketOK, LastOpen(n + 1)
      PROVE  LastOpen(n) \/ Ping \/ Turn(s, n + 1) \/ Turn(t, n + 1)
  <2>1. CASE delayed = <<>>
    BY <1>1, <2>1 DEF LastOpen
  <2>2. CASE delayed # <<>>
    <3>1. Head(delayed) \in {"open", "ping"}
      BY <1>1, <2>2 DEF SocketOK, TypeOK
    <3>. QED
      BY <1>1, <2>2, <3>1 DEF Turn
  <2>. QED
    BY <2>1, <2>2
<1>2. ASSUME SocketOK, Ping, [Next]_vars PROVE Ping' \/ Settled(n)'
  <2>. SUFFICES ASSUME isClosed' PROVE Ping' \/ Settled(n)'
    BY DEF Settled
  <2>1. CASE RunOpen \/ RunPing
    BY <1>2, <2>1, LastOpenTaken DEF SocketOK, Settled
  <2>2. CASE UNCHANGED delayed \/ delayed' = Append(delayed, "ping")
    <3>1. LastOpen(n + 1)'
      BY <1>2, <2>2, LastOpenKept DEF SocketOK
    <3>2. delayed' # <<>> /\ Head(delayed') = Head(delayed)
      <4>1. delayed \in Seq({"open", "ping"}) /\ delayed # <<>>
        BY <1>2 DEF SocketOK, TypeOK
      <4>2. /\ Append(delayed, "ping") # <<>>
            /\ Head(Append(delayed, "ping")) = Head(delayed)
        BY <4>1
      <4>. QED
        BY <2>2, <4>1, <4>2
    <3>. QED
      BY <1>2, <3>1, <3>2
  <2>. QED
    BY <1>2, <2>1, <2>2, ClosedStep DEF LastOpen
<1>3. ASSUME SocketOK, Ping, RunPing PROVE Settled(n)'
  BY <1>3, LastOpenTaken DEF SocketOK, Settled
<1>4. SocketGuardsEnable => (Ping => ENABLED <<RunPing>>_vars)
  BY DEF SocketGuardsEnable, QueueCanRun
<1>. HIDE DEF Ping
<1>5. Runs(s) => (Ping ~> Settled(n))
  BY <1>2, <1>3, <1>4, PTL DEF Runs
<1>6. Runs(s) /\ Runs(t) => (LastOpen(n + 1) ~> Settled(n) \/ LastOpen(n))
  <2>1. Opened(s, n) /\ Opened(t, n)
    BY TurnSettles
  <2>2. /\ Runs(s) => (Turn(s, n + 1) ~> Settled(n))
        /\ Runs(t) => (Turn(t, n + 1) ~> Settled(n))
    BY <2>1, PTL DEF Opened
  <2>3. Runs(s) => []SocketOK
    BY PTL DEF Runs
  <2>. QED
    BY <1>1, <1>5, <2>1, <2>2, <2>3, PTL
<1>. QED
  BY <1>6, PTL DEF Settles, Settled, TwoRun

LEMMA AllSettle ==
  ASSUME NEW s \in Sock, NEW t \in Sock, s # t
  PROVE  \A n \in Nat : Settles(s, t, n)
<1>. DEFINE Settle == [n \in Nat |-> Settles(s, t, n)]
<1>1. Settles(s, t, 0)
  BY PTL DEF Settles, Settled
<1>2. ASSUME NEW n \in Nat PROVE Settles(s, t, n) => Settles(s, t, n + 1)
  BY SettleStep
<1>3. \E U : Available(U) /\ \A n \in Nat : U[n] <=> Settles(s, t, n)
  <2>1. Available(Settle)
    BY DEF Available
  <2>. QED
    BY <2>1
<1>. QED
  BY <1>1, <1>2, <1>3, FunctionInduction

\* However many blocks there are when the diagnosis is over, they come to an end.
Soon == <>Settled(0)

LEMMA SettlesSoon ==
  ASSUME NEW s \in Sock, NEW t \in Sock, s # t
  PROVE  TwoRun(s, t) => (isClosed => Soon)
<1>1. ASSUME NEW n \in Nat PROVE TwoRun(s, t) => (LastOpen(n) => Soon)
  <2>1. Settles(s, t, n)
    BY AllSettle
  <2>. QED
    BY <2>1, PTL DEF Settles, Soon
<1>2. TwoRun(s, t) => SocketOK
  BY PTL DEF TwoRun, Runs
<1>3. SocketOK /\ isClosed => \E n \in Nat : LastOpen(n)
  <2>. SUFFICES ASSUME SocketOK, isClosed PROVE LastOpen(Len(delayed)) /\ Len(delayed) \in Nat
    OBVIOUS
  <2>. QED
    BY DEF SocketOK, TypeOK, LastOpen
<1>. QED
  BY <1>1, <1>2, <1>3

LEMMA EachRuns == Fairness /\ SocketsEnd => \A s \in Sock : DelegateRuns(s) /\ NetworkEnds(s)
<1>1. Fairness => \A s \in Sock : DelegateRuns(s)
  BY PTL DEF Fairness
<1>2. SocketsEnd => \A s \in Sock : NetworkEnds(s)
  BY PTL DEF SocketsEnd
<1>. QED
  BY <1>1, <1>2

\* After the last diagnosis the heartbeat and the reconnection timer may go on, yet
\* reconnect opens no more sockets, provided there is memory for a second one: for
\* any calls, and however many blocks were waiting.
THEOREM ReconnectionRests ==
  ASSUME NEW s \in Sock, NEW t \in Sock, s # t
  PROVE  FairSpec /\ []SocketGuardsEnable => ClosedGoesQuiet
<1>1. FairSpec /\ []SocketGuardsEnable => TwoRun(s, t)
  <2>1. Fairness /\ SocketsEnd => DelegateRuns(s) /\ NetworkEnds(s) /\ DelegateRuns(t) /\ NetworkEnds(t)
    BY EachRuns
  <2>2. Fairness => WF_vars(RunOpen) /\ WF_vars(RunPing)
    BY PTL DEF Fairness
  <2>. QED
    BY <2>1, <2>2, SocketOKAlways, PTL DEF FairSpec, Spec, TwoRun, Runs
<1>2. TwoRun(s, t) => [](isClosed => Soon)
  <2>1. TwoRun(s, t) => (isClosed => Soon)
    BY SettlesSoon
  <2>. QED
    BY <2>1, PTL DEF TwoRun, Runs, DelegateRuns, NetworkEnds
<1>3. SocketOK /\ [Next]_vars => (LastOpen(0) => Settled(0)')
  BY LastOpenStep
<1>4. TypeOK => (LastOpen(0) => ~Contains(delayed, "open"))
  BY DEF TypeOK, LastOpen, Contains
<1>5. Settled(0) => LastOpen(0) \/ ~isClosed
  BY DEF Settled
<1>6. TwoRun(s, t) => [][Next]_vars /\ []SocketOK
  BY PTL DEF TwoRun, Runs
<1>7. SocketOK => TypeOK
  BY DEF SocketOK
<1>8. TwoRun(s, t) => (<>[]isClosed => <>[]LastOpen(0))
  BY <1>2, <1>3, <1>5, <1>6, PTL DEF Soon
<1>. QED
  BY <1>1, <1>4, <1>6, <1>7, <1>8, PTL DEF ClosedGoesQuiet
-----------------------------------------------------------------------------
(* During a diagnosis a socket that dropped is replaced.  First, who is    *)
(* there to notice that it did.                                            *)

\* The current socket is never one that is being closed; a socket that dropped is
\* watched by one of the two timers, or by what will start one; a socket reports
\* its opening before all else.
KeptUp == ws # NoSock => state[ws] # "closing"
Watched ==
  Dropped => \/ reconTimer \/ pingTimer \/ Contains(delayed, "ping")
             \/ Contains(events[ws], "opened") \/ Contains(events[ws], "failed")
OpenedFirst(s) == \A i \in DOMAIN events[s] : events[s][i] = "opened" => i = 1
DropOK ==
  SocketOK /\ PingWatchesOpen /\ KeptUp /\ Watched /\ \A s \in Sock : OpenedFirst(s)

LEMMA Shapes ==
  ASSUME TypeOK
  PROVE  /\ state \in [Sock -> {"connecting", "open", "closing", "closed"}]
         /\ events \in [Sock -> Seq(Message \cup {"opened", "failed"})]
         /\ delayed \in Seq({"open", "ping"})
         /\ ws \in Sock \cup {NoSock} /\ NoSock \notin Sock
         /\ "opened" \notin Message /\ "failed" \notin Message
BY SocketAssumption DEF TypeOK, Message

\* What neither opens nor closes a socket leaves this one as it is.
LEMMA KeptUpKept == ASSUME TypeOK, KeptUp, [Next]_vars PROVE KeptUp'
<1>1. ASSUME OpenWithToken PROVE KeptUp'
  BY <1>1, Shapes DEF OpenWithToken, KeptUp
<1>2. ASSUME CloseSocket PROVE KeptUp'
  BY <1>2 DEF CloseSocket, KeptUp
<1>3. CASE UNCHANGED <<ws, state>>
  BY <1>3 DEF KeptUp
<1>4. ASSUME NEW s \in Sock, Connected(s) \/ Fail(s) \/ CloseDone(s) PROVE KeptUp'
  BY <1>4, Shapes DEF Connected, Fail, CloseDone, KeptUp
<1>5. ASSUME NEW s \in Sock, Reply(s) \/ Delegate(s) PROVE KeptUp'
  BY <1>3, <1>5 DEF Reply, Delegate, DidOpenSend, DidOpenForget, DidFail, DidReceive
<1>6. ASSUME NEW r \in Rpc, RpcSend(r) \/ RpcTimeoutFire(r) \/ RpcTimeoutReport(r)
      PROVE  KeptUp'
  BY <1>3, <1>6 DEF RpcSend, RpcTimeoutFire, RpcTimeoutReport, sockVars
<1>7. CASE DiagStep
  BY <1>2, <1>3, <1>7 DEF DiagStep, SubscribeCheck, SubscribeReconnect, SubscribeKeep,
     SubscribeSend, SubscribeRecord, RpcReturn, Reconnect, sockVars
<1>8. CASE RunPing \/ Deliver \/ PingTick \/ UNCHANGED vars
  BY <1>3, <1>8 DEF RunPing, Deliver, PingTick, vars, sockVars
<1>9. CASE EnterDiag \/ LeaveDiag \/ RunOpen \/ ReconTick
  BY <1>1, <1>2, <1>3, <1>9 DEF EnterDiag, LeaveDiag, RunOpen, ReconTick, Reconnect
<1>. QED
  BY <1>4, <1>5, <1>6, <1>7, <1>8, <1>9 DEF Next

\* What no longer is the head need not be looked for any further.
LEMMA WatchedKept ==
  ASSUME TypeOK, PingWatchesOpen, KeptUp, Watched, [Next]_vars
  PROVE  Watched'
<1>. SUFFICES ASSUME Dropped'
              PROVE  \/ reconTimer' \/ pingTimer' \/ Contains(delayed', "ping")
                     \/ Contains(events'[ws'], "opened") \/ Contains(events'[ws'], "failed")
  BY DEF Watched
<1>. DEFINE Here == \/ pingTimer \/ Contains(delayed, "ping")
                    \/ Contains(events[ws], "opened") \/ Contains(events[ws], "failed")
<1>0. /\ state \in [Sock -> {"connecting", "open", "closing", "closed"}]
      /\ events \in [Sock -> Seq(Message \cup {"opened", "failed"})]
      /\ delayed \in Seq({"open", "ping"})
      /\ ws \in Sock \cup {NoSock} /\ NoSock \notin Sock
      /\ "opened" \notin Message /\ "failed" \notin Message
  BY Shapes
<1>1. ASSUME OpenWithToken PROVE FALSE
  BY <1>0, <1>1 DEF OpenWithToken, Dropped
<1>2. ASSUME CloseSocket PROVE FALSE
  BY <1>2 DEF CloseSocket, Dropped
<1>3. ASSUME UNCHANGED <<ws, state, isClosed, events, pingTimer, delayed>>,
             reconTimer => reconTimer'
      PROVE  reconTimer' \/ Here'
  BY <1>3 DEF Dropped, Watched
<1>4. ASSUME NEW s \in Sock, Connected(s) PROVE reconTimer' \/ Here'
  <2>1. s # ws /\ UNCHANGED <<ws, isClosed, timerVars, queueVars>>
    BY <1>0, <1>4 DEF Connected, Dropped
  <2>2. ws \in Sock
    BY <1>0, <2>1 DEF Dropped
  <2>3. state'[ws] = state[ws] /\ events'[ws] = events[ws]
    BY <1>0, <1>4, <2>1, <2>2 DEF Connected
  <2>. QED
    BY <2>1, <2>3 DEF Dropped, Watched, timerVars, queueVars
<1>5. ASSUME NEW s \in Sock, Fail(s) PROVE reconTimer' \/ Here'
  <2>1. UNCHANGED <<ws, isClosed, timerVars, queueVars>> /\ ws \in Sock
    BY <1>0, <1>5 DEF Fail, Dropped
  <2>2. CASE s = ws
    <3>1. events'[ws] = Append(events[ws], "failed")
      BY <1>0, <1>5, <2>1, <2>2 DEF Fail
    <3>2. Contains(events'[ws], "failed")
      BY <1>0, <2>1, <3>1, AppendContains
    <3>. QED
      BY <2>1, <3>2
  <2>3. CASE s # ws
    <3>1. state'[ws] = state[ws] /\ events'[ws] = events[ws]
      BY <1>0, <1>5, <2>1, <2>3 DEF Fail
    <3>. QED
      BY <2>1, <3>1 DEF Dropped, Watched, timerVars, queueVars
  <2>. QED
    BY <2>2, <2>3
<1>6. ASSUME NEW s \in Sock, CloseDone(s) PROVE reconTimer' \/ Here'
  <2>1. UNCHANGED <<ws, isClosed, events, timerVars, queueVars>> /\ ws \in Sock
    BY <1>0, <1>6 DEF CloseDone, Dropped
  <2>2. CASE s = ws
    <3>1. IsOpen
      BY <1>0, <1>6, <2>1, <2>2 DEF CloseDone, KeptUp, IsOpen
    <3>. QED
      BY <2>1, <3>1 DEF PingWatchesOpen, timerVars, queueVars
  <2>3. CASE s # ws
    <3>1. state'[ws] = state[ws]
      BY <1>0, <1>6, <2>1, <2>3 DEF CloseDone
    <3>. QED
      BY <2>1, <3>1 DEF Dropped, Watched, timerVars, queueVars
  <2>. QED
    BY <2>2, <2>3
<1>7. ASSUME NEW s \in Sock, Reply(s) PROVE reconTimer' \/ Here'
  <2>1. s # ws /\ UNCHANGED <<ws, state, isClosed, timerVars, queueVars>>
    BY <1>7 DEF Reply, Dropped
  <2>2. events'[ws] = events[ws]
    BY <1>0, <1>7, <2>1 DEF Reply, Dropped
  <2>. QED
    BY <2>1, <2>2 DEF Dropped, Watched, timerVars, queueVars
<1>8. ASSUME NEW s \in Sock, DidOpenSend(s) PROVE Contains(delayed', "ping")
  <2>1. PICK q \in Seq({"open", "ping"}) : delayed' = Append(delayed, "ping") \o q
    <3>1. delayed' = Append(delayed, "ping")
                       \o IF ws = NoSock /\ ~isClosed THEN Openings(waitDatas) ELSE <<>>
      BY <1>8 DEF DidOpenSend
    <3>2. Openings(waitDatas) \in Seq({"open", "ping"}) /\ <<>> \in Seq({"open", "ping"})
      BY Opens
    <3>. QED
      BY <3>1, <3>2
  <2>2. Append(delayed, "ping") \in Seq({"open", "ping"}) /\ Contains(Append(delayed, "ping"), "ping")
    BY <1>0, AppendContains
  <2>. QED
    BY <2>1, <2>2, ConcatContains
<1>9. ASSUME NEW s \in Sock, DidReceive(s) PROVE reconTimer' \/ Here'
  <2>1. /\ UNCHANGED <<ws, state, isClosed, pingTimer, reconTimer, delayed>> /\ ws \in Sock
        /\ events[s] # <<>> => Head(events[s]) \in Message
        /\ events'[s] = Tail(events[s]) /\ \A t \in Sock \ {s} : events'[t] = events[t]
    <3>1. UNCHANGED <<ws, state, isClosed, pingTimer, reconTimer, delayed>> /\ ws \in Sock
      BY <1>0, <1>9 DEF DidReceive, Dropped
    <3>2. events[s] # <<>> => Head(events[s]) \in Message
      BY <1>9, SocketAssumption DEF DidReceive, NextEvent, Message
    <3>3. events'[s] = Tail(events[s]) /\ \A t \in Sock \ {s} : events'[t] = events[t]
      BY <1>0, <1>9 DEF DidReceive, TakeEvent
    <3>. QED
      BY <3>1, <3>2, <3>3
  <2>2. ASSUME NEW x \in {"opened", "failed"}, Contains(events[ws], x)
        PROVE  Contains(events'[ws], x)
    <3>1. CASE s = ws
      <4>1. events[ws] # <<>> /\ (Head(events[ws]) = x \/ Contains(Tail(events[ws]), x))
        BY <1>0, <2>1, <2>2, TailContains
      <4>. QED
        BY <1>0, <2>1, <2>2, <3>1, <4>1
    <3>2. CASE s # ws
      BY <2>1, <2>2, <3>2
    <3>. QED
      BY <3>1, <3>2
  <2>. QED
    BY <2>1, <2>2 DEF Dropped, Watched
<1>10. ASSUME NEW s \in Sock, Delegate(s) PROVE reconTimer' \/ Here'
  <2>1. CASE DidOpenForget(s)
    BY <1>3, <2>1 DEF DidOpenForget, timerVars, queueVars
  <2>2. CASE DidFail(s)
    BY <2>2 DEF DidFail
  <2>. QED
    BY <1>8, <1>9, <1>10, <2>1, <2>2 DEF Delegate
<1>11. ASSUME NEW r \in Rpc, RpcSend(r) \/ RpcTimeoutFire(r) \/ RpcTimeoutReport(r)
       PROVE  reconTimer' \/ Here'
  BY <1>3, <1>11 DEF RpcSend, RpcTimeoutFire, RpcTimeoutReport, sockVars, timerVars, queueVars
<1>12. CASE DiagStep
  <2>1. CASE SubscribeReconnect
    BY <1>2, <1>3, <2>1 DEF SubscribeReconnect, Reconnect
  <2>2. CASE SubscribeCheck \/ SubscribeKeep \/ RpcReturn
    BY <1>3, <2>2 DEF SubscribeCheck, SubscribeKeep, RpcReturn, sockVars, timerVars, queueVars
  <2>3. CASE SubscribeSend \/ SubscribeRecord
    BY <1>3, <2>3 DEF SubscribeSend, SubscribeRecord, sockVars, queueVars
  <2>. QED
    BY <1>12, <2>1, <2>2, <2>3 DEF DiagStep
<1>13. CASE RunPing
  BY <1>13 DEF RunPing
<1>14. CASE PingTick
  BY <1>14 DEF PingTick, Dropped, IsOpen
<1>15. CASE ReconTick
  <2>1. CASE IsOpen
    BY <1>15, <2>1 DEF ReconTick, Dropped, IsOpen
  <2>2. CASE ~IsOpen
    BY <1>15, <2>2 DEF ReconTick
  <2>. QED
    BY <2>1, <2>2
<1>16. CASE Deliver \/ UNCHANGED vars
  BY <1>3, <1>16 DEF Deliver, vars, sockVars, timerVars, queueVars
<1>17. CASE EnterDiag \/ RunOpen
  BY <1>1, <1>17 DEF EnterDiag, RunOpen
<1>18. CASE LeaveDiag
  BY <1>18 DEF LeaveDiag, Dropped
<1>. QED
  BY <1>4, <1>5, <1>6, <1>7, <1>10, <1>11, <1>12, <1>13, <1>14, <1>15, <1>16, <1>17, <1>18
     DEF Next

LEMMA OpenedFirstKept ==
  ASSUME SocketOK, \A s \in Sock : OpenedFirst(s), [Next]_vars
  PROVE  (\A s \in Sock : OpenedFirst(s))'
<1>. SUFFICES ASSUME NEW s \in Sock PROVE OpenedFirst(s)'
  OBVIOUS
<1>0. /\ events \in [Sock -> Seq(Message \cup {"opened", "failed"})]
      /\ "opened" \notin Message /\ OpenedFirst(s) /\ TypeOK
      /\ events[s] \in Seq(Message \cup {"opened", "failed"})
  BY Shapes DEF SocketOK
<1>1. ASSUME events'[s] = events[s] PROVE OpenedFirst(s)'
  BY <1>0, <1>1 DEF OpenedFirst
<1>2. ASSUME NEW x \in Message \cup {"failed"}, events'[s] = Append(events[s], x)
      PROVE  OpenedFirst(s)'
  <2>1. \A i \in DOMAIN events'[s] :
          events'[s][i] = x \/ (i \in DOMAIN events[s] /\ events'[s][i] = events[s][i])
    BY <1>0, <1>2
  <2>. QED
    BY <1>0, <2>1 DEF OpenedFirst
<1>3. ASSUME events[s] # <<>>, events'[s] = Tail(events[s]) PROVE OpenedFirst(s)'
  <2>1. \A i \in DOMAIN events'[s] :
          i \in Nat \ {0} /\ i + 1 \in DOMAIN events[s] /\ events'[s][i] = events[s][i + 1]
    BY <1>0, <1>3
  <2>2. \A i \in DOMAIN events'[s] : i + 1 # 1
    BY <2>1
  <2>. QED
    BY <1>0, <2>1, <2>2 DEF OpenedFirst
<1>4. ASSUME NEW t \in Sock, Connected(t) PROVE OpenedFirst(s)'
  <2>1. CASE t = s
    <3>1. Len(events[s]) <= 0
      BY <1>4, <2>1 DEF Connected, SocketOK, EventsLimited, EventLimit
    <3>2. events'[s] = Append(events[s], "opened") /\ Len(events[s]) = 0
      BY <1>0, <1>4, <2>1, <3>1 DEF Connected
    <3>3. DOMAIN events'[s] = {1}
      BY <1>0, <3>2
    <3>. QED
      BY <3>3 DEF OpenedFirst
  <2>2. CASE t # s
    BY <1>0, <1>1, <1>4, <2>2 DEF Connected
  <2>. QED
    BY <2>1, <2>2
<1>5. ASSUME NEW t \in Sock, Fail(t) PROVE OpenedFirst(s)'
  BY <1>0, <1>1, <1>2, <1>5 DEF Fail
<1>6. ASSUME NEW t \in Sock, Reply(t) PROVE OpenedFirst(s)'
  <2>1. PICK q \in atServer[t] : events' = [events EXCEPT ![t] = Append(@, q)]
    BY <1>6 DEF Reply
  <2>2. q \in Message
    BY <1>0, <2>1 DEF TypeOK
  <2>. QED
    BY <1>0, <1>1, <1>2, <2>1, <2>2
<1>7. ASSUME NEW t \in Sock, Delegate(t) PROVE OpenedFirst(s)'
  <2>1. \/ UNCHANGED events
        \/ events[t] # <<>> /\ TakeEvent(t)
    BY <1>7, SocketAssumption
       DEF Delegate, DidOpenSend, DidOpenForget, DidFail, DidReceive, NextEvent, Message
  <2>2. CASE events[t] # <<>> /\ TakeEvent(t) /\ t = s
    BY <1>0, <1>3, <2>2 DEF TakeEvent
  <2>3. CASE TakeEvent(t) /\ t # s
    BY <1>0, <1>1, <2>3 DEF TakeEvent
  <2>. QED
    BY <1>1, <2>1, <2>2, <2>3
<1>8. ASSUME NEW r \in Rpc, RpcSend(r) \/ RpcTimeoutFire(r) \/ RpcTimeoutReport(r)
      PROVE  UNCHANGED events
  BY <1>8 DEF RpcSend, RpcTimeoutFire, RpcTimeoutReport, sockVars
<1>9. CASE DiagStep
  BY <1>1, <1>9 DEF DiagStep, SubscribeCheck, SubscribeReconnect, SubscribeKeep,
     SubscribeSend, SubscribeRecord, RpcReturn, sockVars
<1>10. CASE EnterDiag \/ LeaveDiag \/ RunOpen \/ RunPing \/ Deliver \/ PingTick \/ ReconTick \/ UNCHANGED vars
  BY <1>1, <1>10 DEF EnterDiag, LeaveDiag, RunOpen, RunPing, Deliver, PingTick, ReconTick, vars,
     sockVars
<1>11. ASSUME NEW t \in Sock, CloseDone(t) PROVE UNCHANGED events
  BY <1>11 DEF CloseDone
<1>. QED
  BY <1>1, <1>4, <1>5, <1>6, <1>7, <1>8, <1>9, <1>10, <1>11 DEF Next

LEMMA DropOKAlways == Spec => []DropOK
<1>1. Init => KeptUp /\ Watched /\ \A s \in Sock : OpenedFirst(s)
  BY DEF Init, KeptUp, Watched, Dropped, OpenedFirst
<1>2. SocketOK /\ PingWatchesOpen /\ DropOK /\ [Next]_vars =>
        KeptUp' /\ Watched' /\ (\A s \in Sock : OpenedFirst(s))'
  BY KeptUpKept, WatchedKept, OpenedFirstKept DEF DropOK, SocketOK
<1>3. SocketOK /\ PingWatchesOpen /\ KeptUp /\ Watched /\ (\A s \in Sock : OpenedFirst(s)) => DropOK
  BY DEF DropOK
<1>4. (SocketOK /\ PingWatchesOpen)' /\ KeptUp' /\ Watched' /\ (\A s \in Sock : OpenedFirst(s))' => DropOK'
  BY DEF DropOK
<1>. QED
  BY <1>1, <1>2, <1>3, <1>4, SocketOKAlways, HeartbeatWatches, PTL DEF Spec
-----------------------------------------------------------------------------
(* While there is no connection and the diagnosis goes on, the next one is *)
(* on its way.                                                             *)

Connecting == ws # NoSock /\ state[ws] = "connecting"
Reached == Connecting \/ IsOpen \/ isClosed
Broken == ~Reached /\ (ws = NoSock => Contains(delayed, "open"))

\* The sockets that have yet to report that they are open.
Reporting == {s \in Sock : state[s] = "connecting" \/ Contains(events[s], "opened")}

\* What the main queue and the socket s see of a step.
QueueGrows ==
  \E q \in Seq({"open", "ping"}) : delayed' = delayed \o q
SocketRests(s) ==
  state[s] = "closed" =>
    /\ state'[s] = "closed"
    /\ Delegate(s) \/ (events'[s] = events[s] /\ (s \in opening' <=> s \in opening))

\* A socket is taken away only to be replaced.
LEMMA ReconnectAsks ==
  ASSUME TypeOK, Reconnect, ~isClosed
  PROVE  /\ ws' = NoSock /\ QueueGrows /\ delayed' = Append(delayed, "open")
         /\ Contains(delayed', "open")
         /\ \A s \in Sock : state[s] = "closed" => state'[s] = "closed"
         /\ \A s \in Sock : state'[s] = "connecting" => state[s] = "connecting"
<1>0. delayed' = Append(delayed, "open") /\ CloseSocket
  BY DEF Reconnect
<1>1. delayed' = delayed \o <<"open">> /\ Contains(delayed', "open")
  <2>1. delayed \in Seq({"open", "ping"})
    BY Shapes
  <2>2. Contains(Append(delayed, "open"), "open")
    BY <2>1, AppendContains
  <2>. QED
    BY <1>0, <2>1, <2>2
<1>2. <<"open">> \in Seq({"open", "ping"})
  OBVIOUS
<1>3. ws' = NoSock /\ \A s \in Sock : /\ state[s] = "closed" => state'[s] = "closed"
                                      /\ state'[s] = "connecting" => state[s] = "connecting"
  BY <1>0, Shapes DEF CloseSocket
<1>. QED
  BY <1>0, <1>1, <1>2, <1>3 DEF QueueGrows

LEMMA OpenConnects == ASSUME TypeOK, OpenWithToken PROVE Connecting'
BY Shapes DEF OpenWithToken, Connecting

\* The queue of a socket only adds to the main queue.
LEMMA DelegateAdds ==
  ASSUME TypeOK, NEW s \in Sock, Delegate(s)
  PROVE  /\ UNCHANGED <<ws, state, isClosed>> /\ QueueGrows
         /\ \/ UNCHANGED delayed
            \/ DidOpenSend(s) /\ (ws # NoSock => delayed' = Append(delayed, "ping"))
<1>1. delayed \in Seq({"open", "ping"}) /\ <<>> \in Seq({"open", "ping"}) /\ delayed \o <<>> = delayed
  BY Shapes
<1>2. CASE DidOpenForget(s) \/ DidFail(s) \/ DidReceive(s)
  <2>1. UNCHANGED <<ws, state, isClosed, delayed>>
    BY <1>2 DEF DidOpenForget, DidFail, DidReceive, queueVars
  <2>. QED
    BY <1>1, <2>1 DEF QueueGrows
<1>3. CASE DidOpenSend(s)
  <2>1. DEFINE q == IF ws = NoSock /\ ~isClosed THEN Openings(waitDatas) ELSE <<>>
  <2>2. UNCHANGED <<ws, state, isClosed>> /\ delayed' = Append(delayed, "ping") \o q
    BY <1>3 DEF DidOpenSend
  <2>3. q \in Seq({"open", "ping"})
    BY <1>1, Opens
  <2>4. <<"ping">> \o q \in Seq({"open", "ping"}) /\ delayed' = delayed \o (<<"ping">> \o q)
    <3>. HIDE DEF q
    <3>1. <<"ping">> \in Seq({"open", "ping"}) /\ Append(delayed, "ping") = delayed \o <<"ping">>
      BY <1>1
    <3>2. <<"ping">> \o q \in Seq({"open", "ping"})
      BY <2>3, <3>1
    <3>3. delayed' = (delayed \o <<"ping">>) \o q
      BY <2>2, <3>1
    <3>. QED
      BY <1>1, <2>3, <3>1, <3>2, <3>3
  <2>5. ws # NoSock => delayed' = Append(delayed, "ping")
    BY <1>1, <2>2
  <2>. QED
    BY <1>3, <2>2, <2>4, <2>5 DEF QueueGrows
<1>. QED
  BY <1>2, <1>3 DEF Delegate

LEMMA BrokenStep ==
  ASSUME DropOK, Broken, [Next]_vars, ~Reached'
  PROVE  /\ ~RunOpen /\ ~EnterDiag /\ Broken'
         /\ RunPing \/ QueueGrows
         /\ ws' = ws \/ (ws' = NoSock /\ Contains(delayed', "open"))
         /\ \A s \in Sock : SocketRests(s)
<1>0. /\ TypeOK /\ ~isClosed /\ ~isClosed' /\ ~Connecting'
      /\ delayed \in Seq({"open", "ping"}) /\ <<>> \in Seq({"open", "ping"}) /\ delayed \o <<>> = delayed
  BY Shapes DEF DropOK, SocketOK, Broken, Reached
<1>. DEFINE Mild == /\ RunPing \/ QueueGrows
                    /\ ws' = ws \/ (ws' = NoSock /\ Contains(delayed', "open"))
                    /\ \A s \in Sock : SocketRests(s)
<1>1. ~RunOpen /\ ~EnterDiag /\ ~LeaveDiag
  BY <1>0, OpenConnects DEF RunOpen, EnterDiag, LeaveDiag
<1>2. ASSUME UNCHANGED delayed PROVE QueueGrows
  BY <1>0, <1>2 DEF QueueGrows
<1>3. ASSUME UNCHANGED <<ws, state, events, opening>>, UNCHANGED delayed \/ RunPing PROVE Mild
  BY <1>2, <1>3 DEF SocketRests
<1>4. ASSUME Reconnect, UNCHANGED <<events, opening>> PROVE Mild
  BY <1>0, <1>4, ReconnectAsks DEF SocketRests
<1>5. ASSUME NEW t \in Sock, Connected(t) \/ Fail(t) \/ CloseDone(t) \/ Reply(t) PROVE Mild
  <2>1. UNCHANGED <<ws, delayed, opening>> /\ state[t] # "closed"
    BY <1>5 DEF Connected, Fail, CloseDone, Reply, queueVars
  <2>2. \A s \in Sock \ {t} : state'[s] = state[s] /\ events'[s] = events[s]
    BY <1>0, <1>5, Shapes DEF Connected, Fail, CloseDone, Reply
  <2>. QED
    BY <1>2, <2>1, <2>2 DEF SocketRests
<1>6. ASSUME NEW t \in Sock, Delegate(t) PROVE Mild
  <2>1. UNCHANGED <<ws, state>> /\ QueueGrows
    BY <1>0, <1>6, DelegateAdds
  <2>2. \A s \in Sock \ {t} : events'[s] = events[s] /\ (s \in opening' <=> s \in opening)
    BY <1>0, <1>6, DelegateTakes
  <2>. QED
    BY <1>6, <2>1, <2>2 DEF SocketRests
<1>7. ASSUME NEW r \in Rpc, RpcSend(r) \/ RpcTimeoutFire(r) \/ RpcTimeoutReport(r) PROVE Mild
  BY <1>3, <1>7 DEF RpcSend, RpcTimeoutFire, RpcTimeoutReport, sockVars, queueVars
<1>8. ASSUME DiagStep PROVE Mild
  <2>1. CASE SubscribeReconnect
    BY <1>4, <2>1 DEF SubscribeReconnect
  <2>2. CASE SubscribeCheck \/ SubscribeKeep \/ SubscribeSend \/ SubscribeRecord \/ RpcReturn
    BY <1>3, <2>2 DEF SubscribeCheck, SubscribeKeep, SubscribeSend, SubscribeRecord, RpcReturn,
       sockVars, queueVars
  <2>. QED
    BY <1>8, <2>1, <2>2 DEF DiagStep
<1>9. ASSUME RunPing \/ Deliver \/ PingTick \/ UNCHANGED vars PROVE Mild
  BY <1>3, <1>9 DEF RunPing, Deliver, PingTick, vars, sockVars, queueVars
<1>10. ASSUME ReconTick PROVE Mild
  BY <1>4, <1>10 DEF ReconTick, Broken, Reached
<1>11. Mild
  BY <1>1, <1>5, <1>6, <1>7, <1>8, <1>9, <1>10 DEF Next
<1>12. Broken'
  <2>. SUFFICES ASSUME ws' = NoSock, ws = NoSock PROVE Contains(delayed', "open")
    BY <1>11 DEF Broken
  <2>1. Contains(delayed, "open")
    BY DEF Broken
  <2>2. CASE RunPing
    BY <1>0, <2>1, <2>2, TailContains DEF RunPing
  <2>3. CASE QueueGrows
    BY <1>0, <2>1, <2>3, ConcatContains DEF QueueGrows
  <2>. QED
    BY <1>11, <2>2, <2>3
<1>. QED
  BY <1>1, <1>11, <1>12

\* While a dropped socket stays, the timers are only stopped by a socket that reports
\* itself open, and that starts a heartbeat.
LEMMA DroppedStep ==
  ASSUME DropOK, Broken, [Next]_vars, ~Reached', ws # NoSock, ws' = ws
  PROVE  /\ \/ RunPing \/ UNCHANGED delayed
            \/ \E s \in Sock : DidOpenSend(s) /\ delayed' = Append(delayed, "ping")
         /\ pingTimer => pingTimer'
         /\ reconTimer => reconTimer' \/ \E s \in Sock : DidOpenSend(s)
         /\ PingTick => reconTimer'
         /\ ~ReconTick /\ (RunPing => pingTimer')
<1>0. TypeOK /\ ~isClosed /\ ~isClosed' /\ ~IsOpen
  BY DEF DropOK, SocketOK, Broken, Reached
<1>. DEFINE Steady ==
       /\ \/ RunPing \/ UNCHANGED delayed
          \/ \E s \in Sock : DidOpenSend(s) /\ delayed' = Append(delayed, "ping")
       /\ pingTimer => pingTimer'
       /\ reconTimer => reconTimer' \/ \E s \in Sock : DidOpenSend(s)
<1>1. ~RunOpen /\ ~EnterDiag /\ ~LeaveDiag /\ ~Reconnect
  BY <1>0, BrokenStep, ReconnectAsks DEF LeaveDiag
<1>2. ~ReconTick /\ (PingTick => reconTimer') /\ (RunPing => pingTimer')
  BY <1>0, <1>1 DEF ReconTick, PingTick, RunPing
<1>3. ASSUME UNCHANGED <<delayed, pingTimer>>, reconTimer => reconTimer' PROVE Steady
  BY <1>3
<1>4. ASSUME NEW s \in Sock, Connected(s) \/ Fail(s) \/ CloseDone(s) \/ Reply(s) PROVE Steady
  BY <1>3, <1>4 DEF Connected, Fail, CloseDone, Reply, timerVars, queueVars
<1>5. ASSUME NEW s \in Sock, Delegate(s) PROVE Steady
  <2>1. CASE DidOpenSend(s)
    <3>1. delayed' = Append(delayed, "ping") \/ UNCHANGED delayed
      BY <1>0, <1>5, DelegateAdds
    <3>. QED
      BY <2>1, <3>1 DEF DidOpenSend
  <2>2. CASE DidOpenForget(s) \/ DidFail(s) \/ DidReceive(s)
    BY <1>3, <2>2 DEF DidOpenForget, DidFail, DidReceive, timerVars, queueVars
  <2>. QED
    BY <1>5, <2>1, <2>2 DEF Delegate
<1>6. ASSUME NEW r \in Rpc, RpcSend(r) \/ RpcTimeoutFire(r) \/ RpcTimeoutReport(r) PROVE Steady
  BY <1>3, <1>6 DEF RpcSend, RpcTimeoutFire, RpcTimeoutReport, timerVars, queueVars
<1>7. ASSUME DiagStep PROVE Steady
  <2>1. CASE SubscribeReconnect
    BY <1>1, <2>1 DEF SubscribeReconnect
  <2>2. CASE SubscribeCheck \/ SubscribeKeep \/ SubscribeSend \/ SubscribeRecord \/ RpcReturn
    BY <1>3, <2>2 DEF SubscribeCheck, SubscribeKeep, SubscribeSend, SubscribeRecord, RpcReturn,
       timerVars, queueVars
  <2>. QED
    BY <1>7, <2>1, <2>2 DEF DiagStep
<1>8. ASSUME RunPing \/ Deliver \/ PingTick \/ UNCHANGED vars PROVE Steady
  <2>1. CASE RunPing
    BY <2>1 DEF RunPing
  <2>2. CASE Deliver \/ UNCHANGED vars
    BY <1>3, <2>2 DEF Deliver, vars, timerVars, queueVars
  <2>3. CASE PingTick
    BY <1>3, <2>3 DEF PingTick, queueVars
  <2>. QED
    BY <1>8, <2>1, <2>2, <2>3
<1>. QED
  BY <1>1, <1>2, <1>4, <1>5, <1>6, <1>7, <1>8 DEF Next

\* Who has reported does not again while no socket is opened.
LEMMA ReportingStep ==
  ASSUME DropOK, [Next]_vars, ~RunOpen, ~EnterDiag
  PROVE  /\ Reporting' \subseteq Reporting
         /\ \A s \in Sock : DidOpenSend(s) => s \in Reporting /\ s \notin Reporting'
<1>0. /\ TypeOK
      /\ state \in [Sock -> {"connecting", "open", "closing", "closed"}]
      /\ events \in [Sock -> Seq(Message \cup {"opened", "failed"})]
      /\ "opened" \notin Message
  BY Shapes DEF DropOK, SocketOK
<1>. DEFINE Reports(s) == state[s] = "connecting" \/ Contains(events[s], "opened")
<1>1. ASSUME NEW s \in Sock, events'[s] = events[s], state'[s] = "connecting" => state[s] = "connecting"
      PROVE  Reports(s)' => Reports(s)
  BY <1>1
<1>2. ASSUME NEW s \in Sock, NEW x \in Message \cup {"failed"}, events'[s] = Append(events[s], x)
      PROVE  Contains(events'[s], "opened") => Contains(events[s], "opened")
  <2>1. \A i \in 1 .. Len(events'[s]) :
          events'[s][i] = x \/ (i \in 1 .. Len(events[s]) /\ events'[s][i] = events[s][i])
    BY <1>0, <1>2
  <2>. QED
    BY <1>0, <2>1 DEF Contains
<1>3. ASSUME NEW s \in Sock, NEW t \in Sock, Connected(t) PROVE Reports(s)' => Reports(s)
  BY <1>0, <1>1, <1>3 DEF Connected
<1>4. ASSUME NEW s \in Sock, NEW t \in Sock, Fail(t) PROVE Reports(s)' => Reports(s)
  <2>1. CASE t = s
    <3>1. events'[s] = Append(events[s], "failed") /\ state'[s] = "closed"
      BY <1>0, <1>4, <2>1 DEF Fail
    <3>. QED
      BY <1>2, <3>1
  <2>2. CASE t # s
    BY <1>0, <1>1, <1>4, <2>2 DEF Fail
  <2>. QED
    BY <2>1, <2>2
<1>5. ASSUME NEW s \in Sock, NEW t \in Sock, CloseDone(t) PROVE Reports(s)' => Reports(s)
  BY <1>0, <1>1, <1>5 DEF CloseDone
<1>6. ASSUME NEW s \in Sock, NEW t \in Sock, Reply(t) PROVE Reports(s)' => Reports(s)
  <2>1. PICK q \in atServer[t] : events' = [events EXCEPT ![t] = Append(@, q)] /\ UNCHANGED state
    BY <1>6 DEF Reply
  <2>2. q \in Message
    BY <1>0, <2>1 DEF TypeOK
  <2>3. CASE t = s
    BY <1>0, <1>2, <2>1, <2>2, <2>3
  <2>4. CASE t # s
    BY <1>0, <1>1, <2>1, <2>4
  <2>. QED
    BY <2>3, <2>4
<1>7. ASSUME NEW s \in Sock, NEW t \in Sock, Delegate(t)
      PROVE  /\ Reports(s)' => Reports(s)
             /\ DidOpenSend(s) => Reports(s) /\ ~Reports(s)'
  <2>0. UNCHANGED state
    BY <1>0, <1>7, DelegateTakes
  <2>1. ASSUME events[s] # <<>>, events'[s] = Tail(events[s])
        PROVE  ~Contains(events'[s], "opened")
    <3>1. \A i \in 1 .. Len(events'[s]) :
            i + 1 \in DOMAIN events[s] /\ i + 1 # 1 /\ events'[s][i] = events[s][i + 1]
      BY <1>0, <2>1
    <3>. QED
      BY <3>1 DEF DropOK, OpenedFirst, Contains
  <2>2. \/ UNCHANGED events
        \/ events[t] # <<>> /\ TakeEvent(t)
    BY <1>7, SocketAssumption
       DEF Delegate, DidOpenSend, DidOpenForget, DidFail, DidReceive, NextEvent, Message
  <2>3. ASSUME events[t] # <<>>, TakeEvent(t), t = s PROVE Reports(s)' => Reports(s)
    BY <1>0, <2>0, <2>1, <2>3 DEF TakeEvent
  <2>4. ASSUME TakeEvent(t), t # s PROVE Reports(s)' => Reports(s)
    BY <1>0, <1>1, <2>0, <2>4 DEF TakeEvent
  <2>5. Reports(s)' => Reports(s)
    BY <1>1, <2>0, <2>2, <2>3, <2>4
  <2>6. ASSUME DidOpenSend(s) PROVE Reports(s) /\ ~Reports(s)'
    <3>1. events[s] # <<>> /\ Head(events[s]) = "opened" /\ TakeEvent(s)
      BY <2>6 DEF DidOpenSend, NextEvent
    <3>2. Len(events[s]) \in Nat \ {0} /\ events[s][1] = "opened" /\ events'[s] = Tail(events[s])
      BY <1>0, <3>1 DEF TakeEvent
    <3>3. Contains(events[s], "opened") /\ ~Contains(events'[s], "opened")
      BY <2>1, <3>1, <3>2 DEF Contains
    <3>4. state[s] # "connecting"
      BY <1>0, <3>2 DEF DropOK, SocketOK, EventsLimited, EventLimit
    <3>. QED
      BY <2>0, <3>3, <3>4
  <2>. QED
    BY <2>5, <2>6
<1>8. ASSUME NEW s \in Sock, CloseSocket, UNCHANGED events PROVE Reports(s)' => Reports(s)
  BY <1>0, <1>1, <1>8 DEF CloseSocket
<1>9. ASSUME NEW s \in Sock, UNCHANGED <<state, events>> PROVE Reports(s)' => Reports(s)
  BY <1>9
<1>10. ASSUME NEW s \in Sock PROVE Reports(s)' => Reports(s)
  <2>1. CASE \E r \in Rpc : RpcSend(r) \/ RpcTimeoutFire(r) \/ RpcTimeoutReport(r)
    BY <1>9, <2>1 DEF RpcSend, RpcTimeoutFire, RpcTimeoutReport, sockVars
  <2>2. CASE DiagStep
    BY <1>8, <1>9, <2>2 DEF DiagStep, SubscribeCheck, SubscribeReconnect, SubscribeKeep,
       SubscribeSend, SubscribeRecord, RpcReturn, Reconnect, sockVars
  <2>3. CASE LeaveDiag \/ RunPing \/ Deliver \/ PingTick \/ ReconTick \/ UNCHANGED vars
    BY <1>8, <1>9, <2>3 DEF LeaveDiag, RunPing, Deliver, PingTick, ReconTick, Reconnect, vars, sockVars
  <2>. QED
    BY <1>3, <1>4, <1>5, <1>6, <1>7, <2>1, <2>2, <2>3 DEF Next
<1>11. ASSUME NEW s \in Sock, DidOpenSend(s) PROVE Reports(s) /\ ~Reports(s)'
  BY <1>7, <1>11 DEF Delegate
<1>. QED
  BY <1>10, <1>11 DEF Reporting
-----------------------------------------------------------------------------
(* The block that opens the next socket is run.                            *)

\* The heartbeat and the reconnection timer can tick beside a socket that dropped, and
\* the network can let a connection through, besides what SocketGuardsEnable says.
DropGuardsEnable ==
  /\ SocketGuardsEnable
  /\ Dropped /\ pingTimer /\ ~reconTimer => ENABLED <<PingTick>>_vars
  /\ Dropped /\ reconTimer /\ delayed = <<>> => ENABLED <<ReconTick>>_vars
  /\ Connecting => ENABLED <<Passes>>_vars

Mends(s) ==
  /\ [][Next]_vars /\ []DropOK /\ []DropGuardsEnable
  /\ DelegateRuns(s) /\ NetworkEnds(s) /\ WF_vars(RunOpen) /\ WF_vars(RunPing)
  /\ WF_vars(PingTick) /\ SF_vars(ReconTick)

LEMMA DropCanEnd == ASSUME NEW s \in Sock PROVE DropGuardsEnable => SocketCanEnd(s)
BY DEF DropGuardsEnable, SocketGuardsEnable

\* The main queue's first block opens a socket; s has so much to do before it is one
\* that may be had, and is there then.
Called == Broken /\ delayed # <<>> /\ Head(delayed) = "open"
Fading(s, k) == Called /\ state[s] = "closed" /\ Work(s) <= k

\* What is added behind the queue's head, or taken from it, when it is not for opening.
LEMMA HeadStays ==
  ASSUME DropOK, delayed # <<>>, QueueGrows
  PROVE  delayed' # <<>> /\ Head(delayed') = Head(delayed)
<1>1. PICK q \in Seq({"open", "ping"}) : delayed' = delayed \o q
  BY DEF QueueGrows
<1>2. delayed \in Seq({"open", "ping"})
  BY Shapes DEF DropOK, SocketOK
<1>. QED
  BY <1>1, <1>2

LEMMA CalledStep ==
  ASSUME DropOK, Called, [Next]_vars
  PROVE  Called' \/ Reached'
<1>. SUFFICES ASSUME ~Reached' PROVE Called'
  OBVIOUS
<1>1. ~RunPing
  BY DEF RunPing, Called
<1>. QED
  BY <1>1, BrokenStep, HeadStays DEF Called

\* A socket that is not the current one can end.
LEMMA NotCurrent ==
  ASSUME DropOK, Broken, NEW s \in Sock, state[s] # "closed"
  PROVE  s # ws
<1>1. state[s] \in {"connecting", "open", "closing", "closed"} /\ s # NoSock
  BY Shapes DEF DropOK, SocketOK
<1>. QED
  BY <1>1 DEF DropOK, KeptUp, Broken, Reached, Connecting, IsOpen

LEMMA WorkLimited ==
  ASSUME DropOK, NEW s \in Sock, state[s] = "closed"
  PROVE  Work(s) \in Nat /\ Work(s) <= 2 * MaxQueue + 3
<1>1. Len(events[s]) \in Nat /\ Len(events[s]) <= MaxQueue + 1 /\ MaxQueue \in Nat
  BY SocketAssumption DEF DropOK, SocketOK, TypeOK, EventsLimited, EventLimit
<1>2. Rest(s) \in {0, 1}
  BY DEF Rest
<1>. QED
  BY <1>1, <1>2 DEF Work

LEMMA WorkShrinks ==
  ASSUME DropOK, NEW s \in Sock, NEW k \in Nat, state[s] = "closed", Work(s) <= k + 1, SocketRests(s)
  PROVE  /\ state'[s] = "closed" /\ Work(s)' <= k + 1
         /\ Delegate(s) => Work(s)' <= k
<1>0. Work(s) \in Nat /\ TypeOK /\ Len(events[s]) \in Nat
  BY WorkLimited DEF DropOK, SocketOK, TypeOK
<1>1. CASE Delegate(s)
  <2>1. Rest(s) \in {0, 1} /\ Rest(s)' \in {0, 1}
    BY DEF Rest
  <2>2. \/ Rest(s) = 1 /\ Rest(s)' = 0 /\ Len(events'[s]) = Len(events[s])
        \/ Rest(s) = 0 /\ Len(events[s]) \in Nat \ {0} /\ Len(events'[s]) = Len(events[s]) - 1
    BY <1>0, <1>1, DelegateTakes DEF Rest
  <2>3. Work(s) = 2 * Len(events[s]) + Rest(s) /\ Work(s)' = 2 * Len(events'[s]) + Rest(s)'
    BY DEF Work
  <2>4. Work(s)' <= Work(s) - 1 /\ Work(s)' \in Nat
    <3>1. CASE Rest(s) = 1 /\ Rest(s)' = 0 /\ Len(events'[s]) = Len(events[s])
      BY <1>0, <2>3, <3>1
    <3>2. CASE Rest(s) = 0 /\ Len(events[s]) \in Nat \ {0} /\ Len(events'[s]) = Len(events[s]) - 1
      BY <1>0, <2>1, <2>3, <3>2
    <3>. QED
      BY <2>2, <3>1, <3>2
  <2>. QED
    BY <1>0, <2>4 DEF SocketRests
<1>2. CASE ~Delegate(s)
  BY <1>0, <1>2 DEF SocketRests, Work, Rest
<1>. QED
  BY <1>1, <1>2

\* Its connection ends ...
LEMMA CalledEnds ==
  ASSUME NEW s \in Sock
  PROVE  Mends(s) => (Called ~> Fading(s, 2 * MaxQueue + 3) \/ Reached)
<1>1. DropOK /\ Called /\ [Next]_vars => Called' \/ Reached'
  BY CalledStep
<1>2. ASSUME DropOK, s # ws /\ (Fail(s) \/ CloseDone(s)) PROVE (state[s] = "closed")'
  BY <1>2, Shapes DEF Fail, CloseDone, DropOK, SocketOK
<1>3. DropOK /\ Called /\ state[s] = "closed" => Fading(s, 2 * MaxQueue + 3)
  BY WorkLimited DEF Fading
<1>4. DropOK /\ DropGuardsEnable /\ Called =>
        state[s] = "closed" \/ ENABLED <<s # ws /\ (Fail(s) \/ CloseDone(s))>>_vars
  BY DropCanEnd, NotCurrent DEF SocketCanEnd, Called
<1>. QED
  BY <1>1, <1>2, <1>3, <1>4, PTL DEF Mends, NetworkEnds

\* ... its queue does what is left to do ...
LEMMA FadingStep ==
  ASSUME NEW k \in Nat, NEW s \in Sock, DropOK, Fading(s, k + 1), [Next]_vars
  PROVE  /\ Fading(s, k + 1)' \/ Reached'
         /\ Delegate(s) => Fading(s, k)' \/ Reached'
<1>. SUFFICES ASSUME ~Reached'
              PROVE  Fading(s, k + 1)' /\ (Delegate(s) => Fading(s, k)')
  OBVIOUS
<1>1. Called' /\ SocketRests(s)
  BY CalledStep, BrokenStep DEF Fading, Called
<1>. QED
  BY <1>1, WorkShrinks DEF Fading

Fades(s, k) == Mends(s) => (Fading(s, k) ~> Fading(s, 0) \/ Reached)

\* A socket with nothing left is one that may be had.
LEMMA NothingLeft ==
  ASSUME DropOK, NEW s \in Sock, state[s] = "closed"
  PROVE  /\ Work(s) <= 0 => Unused(s)
         /\ Unused(s) => ~Delegate(s)
         /\ DropGuardsEnable => Unused(s) \/ ENABLED <<Delegate(s)>>_vars
<1>1. Work(s) <= 0 => Unused(s)
  <2>. SUFFICES ASSUME Work(s) <= 0 PROVE Unused(s)
    OBVIOUS
  <2>1. /\ events[s] \in Seq(Message \cup {"opened", "failed"}) /\ Len(events[s]) \in Nat
        /\ 2 * Len(events[s]) + Rest(s) <= 0 /\ Rest(s) \in {0, 1}
    BY Shapes DEF DropOK, SocketOK, Work, Rest
  <2>2. Len(events[s]) = 0 /\ Rest(s) = 0
    BY <2>1
  <2>3. events[s] = <<>>
    BY <2>1, <2>2
  <2>. QED
    BY <2>2, <2>3 DEF Unused, Rest
<1>2. Unused(s) => ~Delegate(s)
  BY SocketAssumption
     DEF Unused, Delegate, DidOpenSend, DidOpenForget, DidFail, DidReceive, NextEvent, Message
<1>3. DropGuardsEnable => Unused(s) \/ ENABLED <<Delegate(s)>>_vars
  BY DropCanEnd DEF SocketCanEnd, Unused
<1>. QED
  BY <1>1, <1>2, <1>3

LEMMA FadeStep ==
  ASSUME NEW k \in Nat, NEW s \in Sock
  PROVE  Fades(s, k) => Fades(s, k + 1)
<1>1. DropOK /\ [Next]_vars => (Fading(s, k + 1) => Fading(s, k + 1)' \/ Reached')
  BY FadingStep
<1>2. DropOK /\ Fading(s, k + 1) /\ Delegate(s) => Fading(s, k)' \/ Reached'
  BY FadingStep DEF Next
<1>3. DropOK /\ DropGuardsEnable /\ Fading(s, k + 1) =>
        Fading(s, 0) \/ ENABLED <<Delegate(s)>>_vars
  <2>1. Unused(s) /\ DropOK => Work(s) = 0
    BY DEF Unused, Work, Rest
  <2>. QED
    BY <2>1, NothingLeft DEF Fading
<1>. QED
  BY <1>1, <1>2, <1>3, PTL DEF Fades, Mends, DelegateRuns

LEMMA AllFade == ASSUME NEW s \in Sock PROVE \A k \in Nat : Fades(s, k)
<1>. DEFINE Fade == [k \in Nat |-> Fades(s, k)]
<1>1. Fades(s, 0)
  BY PTL DEF Fades
<1>2. ASSUME NEW k \in Nat PROVE Fades(s, k) => Fades(s, k + 1)
  BY FadeStep
<1>3. \E U : Available(U) /\ \A k \in Nat : U[k] <=> Fades(s, k)
  <2>1. Available(Fade)
    BY DEF Available
  <2>. QED
    BY <2>1
<1>. QED
  BY <1>1, <1>2, <1>3, FunctionInduction

\* ... and it is there for the block to open.
LEMMA FadedOpens ==
  ASSUME NEW s \in Sock
  PROVE  Mends(s) => (Fading(s, 0) ~> Reached)
<1>. DEFINE Had == Called /\ state[s] = "closed" /\ Unused(s)
<1>1. DropOK /\ Fading(s, 0) => Had
  BY NothingLeft DEF Fading
<1>2. ASSUME DropOK, Had, [Next]_vars, ~Reached' PROVE Had'
  <2>1. SocketRests(s) /\ Called'
    BY <1>2, CalledStep, BrokenStep DEF Called
  <2>. QED
    BY <1>2, <2>1, NothingLeft DEF SocketRests, Unused
<1>3. ASSUME DropOK, RunOpen PROVE Reached'
  BY <1>3, OpenConnects DEF RunOpen, Reached, DropOK, SocketOK
<1>4. DropGuardsEnable => (Had => ENABLED <<RunOpen>>_vars)
  BY DEF DropGuardsEnable, SocketGuardsEnable, QueueCanRun, Called
<1>. HIDE DEF Had
<1>. QED
  BY <1>1, <1>2, <1>3, <1>4, PTL DEF Mends

LEMMA CalledOpens ==
  ASSUME NEW s \in Sock
  PROVE  Mends(s) => (Called ~> Reached)
<1>1. 2 * MaxQueue + 3 \in Nat
  BY SocketAssumption
<1>2. Fades(s, 2 * MaxQueue + 3)
  BY <1>1, AllFade
<1>. QED
  BY <1>2, CalledEnds, FadedOpens, PTL DEF Fades

\* A block that opens a socket comes to be the first.
Coming(n) == Broken /\ \E i \in DOMAIN delayed : i <= n /\ delayed[i] = "open"
Comes(s, n) == Mends(s) => (Coming(n) ~> Reached)

LEMMA ComingStep ==
  ASSUME NEW n \in Nat, DropOK, Coming(n + 1), [Next]_vars, ~Reached'
  PROVE  Coming(n + 1)' /\ (RunPing => Coming(n)')
<1>0. delayed \in Seq({"open", "ping"}) /\ Broken'
  BY Shapes, BrokenStep DEF DropOK, SocketOK, Coming
<1>1. PICK i \in DOMAIN delayed : i <= n + 1 /\ delayed[i] = "open"
  BY DEF Coming
<1>2. CASE RunPing
  <2>1. delayed # <<>> /\ delayed' = Tail(delayed) /\ i # 1 /\ i \in Nat \ {0}
    BY <1>0, <1>1, <1>2 DEF RunPing
  <2>2. i - 1 \in DOMAIN delayed' /\ delayed'[i - 1] = "open" /\ i - 1 <= n /\ i - 1 <= n + 1
    BY <1>0, <1>1, <2>1
  <2>. QED
    BY <1>0, <2>2 DEF Coming
<1>3. CASE QueueGrows /\ ~RunPing
  <2>1. PICK q \in Seq({"open", "ping"}) : delayed' = delayed \o q
    BY <1>3 DEF QueueGrows
  <2>2. i \in DOMAIN delayed' /\ delayed'[i] = "open"
    BY <1>0, <1>1, <2>1
  <2>. QED
    BY <1>0, <1>1, <1>3, <2>2 DEF Coming
<1>. QED
  BY <1>2, <1>3, BrokenStep DEF Coming

LEMMA ComeStep ==
  ASSUME NEW s \in Sock, NEW n \in Nat
  PROVE  Comes(s, n) => Comes(s, n + 1)
<1>. DEFINE Ping == Coming(n + 1) /\ delayed # <<>> /\ Head(delayed) = "ping"
<1>1. ASSUME DropOK, Coming(n + 1) PROVE Ping \/ Called
  <2>1. delayed \in Seq({"open", "ping"}) /\ delayed # <<>> /\ Broken
    BY <1>1, Shapes DEF DropOK, SocketOK, Coming
  <2>2. Head(delayed) \in {"open", "ping"}
    BY <2>1
  <2>. QED
    BY <1>1, <2>1, <2>2 DEF Called
<1>2. ASSUME DropOK, Ping, [Next]_vars, ~Reached' PROVE Ping' \/ Coming(n)'
  <2>1. Coming(n + 1)' /\ (RunPing => Coming(n)')
    BY <1>2, ComingStep
  <2>2. CASE ~RunPing
    BY <1>2, <2>1, <2>2, BrokenStep, HeadStays DEF Coming
  <2>. QED
    BY <2>1, <2>2
<1>3. ASSUME DropOK, Ping, RunPing, ~Reached' PROVE Coming(n)'
  BY <1>3, ComingStep DEF Next
<1>4. DropGuardsEnable => (Ping => ENABLED <<RunPing>>_vars)
  BY DEF DropGuardsEnable, SocketGuardsEnable, QueueCanRun
<1>. HIDE DEF Ping
<1>. QED
  BY <1>1, <1>2, <1>3, <1>4, CalledOpens, PTL DEF Comes, Mends

LEMMA AllCome == ASSUME NEW s \in Sock PROVE \A n \in Nat : Comes(s, n)
<1>. DEFINE Come == [n \in Nat |-> Comes(s, n)]
<1>1. Comes(s, 0)
  <2>1. DropOK => ~Coming(0)
    BY Shapes DEF DropOK, SocketOK, Coming
  <2>. QED
    BY <2>1, PTL DEF Comes, Mends
<1>2. ASSUME NEW n \in Nat PROVE Comes(s, n) => Comes(s, n + 1)
  BY ComeStep
<1>3. \E U : Available(U) /\ \A n \in Nat : U[n] <=> Comes(s, n)
  <2>1. Available(Come)
    BY DEF Available
  <2>. QED
    BY <2>1
<1>. QED
  BY <1>1, <1>2, <1>3, FunctionInduction

\* However many blocks are before it.
Sure == <>Reached
Ordered == Broken /\ Contains(delayed, "open")

LEMMA OrderedOpens ==
  ASSUME NEW s \in Sock
  PROVE  Mends(s) => (Ordered ~> Reached)
<1>1. Mends(s) => (Ordered => Sure)
  <2>1. ASSUME NEW n \in Nat PROVE Mends(s) => (Coming(n) => Sure)
    <3>1. Comes(s, n)
      BY AllCome
    <3>. QED
      BY <3>1, PTL DEF Comes, Sure
  <2>2. Mends(s) => DropOK
    BY PTL DEF Mends
  <2>3. DropOK /\ Ordered => \E n \in Nat : Coming(n)
    <3>. SUFFICES ASSUME DropOK, Ordered PROVE Coming(Len(delayed)) /\ Len(delayed) \in Nat
      OBVIOUS
    <3>1. delayed \in Seq({"open", "ping"})
      BY Shapes DEF DropOK, SocketOK
    <3>. QED
      BY <3>1 DEF Ordered, Coming, Contains
  <2>. QED
    BY <2>1, <2>2, <2>3
<1>. QED
  BY <1>1, PTL DEF Mends, DelegateRuns, NetworkEnds, Sure
-----------------------------------------------------------------------------
(* Where no such block waits, a timer is to ask for one.                   *)

\* The socket s is the one that dropped, and nobody has asked for the next; then
\* what s has to report has been; then so many blocks and reports are left, each of
\* which may start a heartbeat and stop the reconnection timer.
Asked == Reached \/ Ordered
Waiting(s) == Broken /\ ws = s /\ ~Contains(delayed, "open")
Telling(s, k) == Waiting(s) /\ Work(s) <= k
Told(s) == Waiting(s) /\ Unused(s)
Blocks == 2 * Cardinality(Reporting) + Len(delayed)
Left(s, n) == Told(s) /\ Blocks <= n
Lower(s, n) == Told(s) /\ Blocks < n

LEMMA WaitingStep ==
  ASSUME DropOK, NEW s \in Sock, Waiting(s), [Next]_vars
  PROVE  \/ Asked'
         \/ Waiting(s)' /\ SocketRests(s) /\ ~Reached' /\ ws' = ws
<1>. SUFFICES ASSUME ~Asked' PROVE Waiting(s)' /\ SocketRests(s) /\ ws' = ws
  BY DEF Asked
<1>1. ~Reached' /\ ~Ordered' /\ Broken
  BY DEF Asked, Waiting
<1>2. Broken' /\ SocketRests(s) /\ (ws' = ws \/ (ws' = NoSock /\ Contains(delayed', "open")))
  BY <1>1, BrokenStep
<1>. QED
  BY <1>1, <1>2 DEF Waiting, Ordered

LEMMA WaitingDropped ==
  ASSUME DropOK, NEW s \in Sock, Waiting(s)
  PROVE  Dropped /\ state[s] = "closed" /\ ws # NoSock
<1>1. ws # NoSock /\ ~isClosed
  BY Shapes DEF DropOK, SocketOK, Waiting, Broken, Reached
<1>2. state[s] = "closed"
  BY NotCurrent DEF Waiting
<1>. QED
  BY <1>1, <1>2 DEF Dropped, Waiting

\* A socket that dropped reports it.
LEMMA TellingStep ==
  ASSUME NEW k \in Nat, NEW s \in Sock, DropOK, Telling(s, k + 1), [Next]_vars
  PROVE  /\ Telling(s, k + 1)' \/ Asked'
         /\ Delegate(s) => Telling(s, k)' \/ Asked'
<1>. SUFFICES ASSUME ~Asked'
              PROVE  Telling(s, k + 1)' /\ (Delegate(s) => Telling(s, k)')
  OBVIOUS
<1>1. Waiting(s)' /\ SocketRests(s) /\ state[s] = "closed"
  BY WaitingStep, WaitingDropped DEF Telling
<1>. QED
  BY <1>1, WorkShrinks DEF Telling

Tells(s, k) == Mends(s) => (Telling(s, k) ~> Telling(s, 0) \/ Asked)

LEMMA TellStep ==
  ASSUME NEW k \in Nat, NEW s \in Sock
  PROVE  Tells(s, k) => Tells(s, k + 1)
<1>1. DropOK /\ [Next]_vars => (Telling(s, k + 1) => Telling(s, k + 1)' \/ Asked')
  BY TellingStep
<1>2. DropOK /\ Telling(s, k + 1) /\ Delegate(s) => Telling(s, k)' \/ Asked'
  BY TellingStep DEF Next
<1>3. DropOK /\ DropGuardsEnable /\ Telling(s, k + 1) =>
        Telling(s, 0) \/ ENABLED <<Delegate(s)>>_vars
  <2>1. Unused(s) /\ DropOK => Work(s) = 0
    BY DEF Unused, Work, Rest
  <2>. QED
    BY <2>1, NothingLeft, WaitingDropped DEF Telling
<1>. QED
  BY <1>1, <1>2, <1>3, PTL DEF Tells, Mends, DelegateRuns

LEMMA AllTell == ASSUME NEW s \in Sock PROVE \A k \in Nat : Tells(s, k)
<1>. DEFINE Tell == [k \in Nat |-> Tells(s, k)]
<1>1. Tells(s, 0)
  BY PTL DEF Tells
<1>2. ASSUME NEW k \in Nat PROVE Tells(s, k) => Tells(s, k + 1)
  BY TellStep
<1>3. \E U : Available(U) /\ \A k \in Nat : U[k] <=> Tells(s, k)
  <2>1. Available(Tell)
    BY DEF Available
  <2>. QED
    BY <2>1
<1>. QED
  BY <1>1, <1>2, <1>3, FunctionInduction

LEMMA WaitingTells ==
  ASSUME NEW s \in Sock
  PROVE  Mends(s) => (Waiting(s) ~> Told(s) \/ Asked)
<1>1. 2 * MaxQueue + 3 \in Nat
  BY SocketAssumption
<1>2. Tells(s, 2 * MaxQueue + 3)
  BY <1>1, AllTell
<1>3. DropOK /\ Waiting(s) => Telling(s, 2 * MaxQueue + 3)
  BY WaitingDropped, WorkLimited DEF Telling
<1>4. DropOK /\ Telling(s, 0) => Told(s)
  BY WaitingDropped, NothingLeft DEF Telling, Told
<1>. QED
  BY <1>2, <1>3, <1>4, PTL DEF Tells, Mends

\* Blocks counts what there is.
BlocksCounted ==
  /\ IsFiniteSet(Reporting) /\ Cardinality(Reporting) \in Nat
  /\ delayed \in Seq({"open", "ping"}) /\ Len(delayed) \in Nat /\ Blocks \in Nat

LEMMA BlocksCount == ASSUME DropOK, IsFiniteSet(Sock) PROVE BlocksCounted
<1>1. IsFiniteSet(Reporting)
  BY FS_Subset DEF Reporting
<1>2. Cardinality(Reporting) \in Nat
  BY <1>1, FS_CardinalityType
<1>3. delayed \in Seq({"open", "ping"})
  BY Shapes DEF DropOK, SocketOK
<1>. QED
  BY <1>1, <1>2, <1>3 DEF Blocks, BlocksCounted

LEMMA BlocksCountNext == ASSUME IsFiniteSet(Sock) PROVE DropOK' => BlocksCounted'
<1>1. DropOK => BlocksCounted
  BY BlocksCount
<1>. QED
  BY <1>1, PTL

LEMMA BlocksShrink ==
  ASSUME DropOK, DropOK', IsFiniteSet(Sock), NEW s \in Sock, Told(s), [Next]_vars, ~Asked'
  PROVE  /\ Told(s)' /\ Blocks' <= Blocks
         /\ RunPing \/ (\E t \in Sock : DidOpenSend(t)) => Blocks' < Blocks
         /\ UNCHANGED delayed \/ Blocks' < Blocks
<1>0. /\ Cardinality(Reporting) \in Nat /\ Len(delayed) \in Nat /\ IsFiniteSet(Reporting)
      /\ Cardinality(Reporting)' \in Nat /\ Len(delayed') \in Nat /\ Blocks \in Nat
      /\ delayed \in Seq({"open", "ping"})
  BY BlocksCount, BlocksCountNext DEF BlocksCounted
<1>1. Waiting(s)' /\ SocketRests(s) /\ ~Reached' /\ ws' = ws /\ ws # NoSock /\ state[s] = "closed"
  BY WaitingStep, WaitingDropped DEF Told
<1>2. Told(s)'
  BY <1>1, NothingLeft DEF Told, SocketRests, Unused
<1>3. ~RunOpen /\ ~EnterDiag
  BY <1>1, BrokenStep DEF Told, Waiting
<1>4. Reporting' \subseteq Reporting /\ Cardinality(Reporting)' <= Cardinality(Reporting)
  <2>1. Reporting' \subseteq Reporting
    BY <1>3, ReportingStep
  <2>. QED
    BY <1>0, <2>1, FS_Subset
<1>5. ASSUME NEW t \in Sock, DidOpenSend(t) PROVE Cardinality(Reporting)' <= Cardinality(Reporting) - 1
  <2>1. t \in Reporting /\ Reporting' \subseteq Reporting \ {t}
    BY <1>3, <1>5, ReportingStep
  <2>2. IsFiniteSet(Reporting \ {t}) /\ Cardinality(Reporting \ {t}) = Cardinality(Reporting) - 1
    BY <1>0, <2>1, FS_RemoveElement
  <2>. QED
    BY <2>1, <2>2, FS_Subset
<1>6. Blocks = 2 * Cardinality(Reporting) + Len(delayed) /\ Blocks' = 2 * Cardinality(Reporting)' + Len(delayed')
  BY DEF Blocks
<1>7. ASSUME RunPing PROVE Blocks' < Blocks
  <2>1. Len(delayed') = Len(delayed) - 1
    BY <1>0, <1>7 DEF RunPing
  <2>. QED
    BY <1>0, <1>4, <1>6, <2>1
<1>8. ASSUME NEW t \in Sock, DidOpenSend(t) PROVE Blocks' < Blocks
  <2>1. delayed' = Append(delayed, "ping")
    BY <1>0, <1>1, <1>8, DelegateAdds DEF DropOK, SocketOK, Delegate, DidOpenSend
  <2>2. Len(delayed') = Len(delayed) + 1
    BY <1>0, <2>1
  <2>. QED
    BY <1>0, <1>5, <1>6, <1>8, <2>2
<1>9. RunPing \/ UNCHANGED delayed \/ \E t \in Sock : DidOpenSend(t)
  BY <1>1, DroppedStep DEF Told, Waiting
<1>10. UNCHANGED delayed => Blocks' <= Blocks
  BY <1>0, <1>4, <1>6
<1>11. Blocks' < Blocks => Blocks' <= Blocks
  BY <1>0, <1>6
<1>. QED
  BY <1>2, <1>7, <1>8, <1>9, <1>10, <1>11

\* With the main queue empty the heartbeat, then the reconnection timer ticks.
LEMMA CalmAsks ==
  ASSUME IsFiniteSet(Sock), NEW s \in Sock, NEW n \in Nat
  PROVE  Mends(s) => (Left(s, n) /\ delayed = <<>> ~> Asked \/ Lower(s, n))
<1>. DEFINE Calm == Left(s, n) /\ delayed = <<>>
            Done == Asked \/ Lower(s, n)
<1>0. ASSUME DropOK, DropOK', Calm, [Next]_vars, ~Done'
      PROVE  /\ Calm' /\ (pingTimer => pingTimer') /\ (reconTimer => reconTimer')
             /\ (PingTick => reconTimer') /\ ~ReconTick
  <2>1. Told(s)' /\ Blocks' <= Blocks /\ ~Asked' /\ ~(Blocks' < Blocks) /\ UNCHANGED delayed
        /\ ~\E t \in Sock : DidOpenSend(t)
    <3>1. ~Asked' /\ ~Lower(s, n)' /\ Told(s) /\ Blocks <= n
      BY <1>0 DEF Left
    <3>2. Told(s)' /\ Blocks' <= Blocks
      BY <1>0, <3>1, BlocksShrink
    <3>3. Blocks \in Nat /\ Blocks' \in Nat
      BY <1>0, BlocksCount, BlocksCountNext DEF BlocksCounted
    <3>4. ~(Blocks' < Blocks)
      BY <3>1, <3>2, <3>3 DEF Lower
    <3>. QED
      BY <1>0, <3>1, <3>2, <3>4, BlocksShrink
  <2>2. Calm'
    <3>1. Blocks \in Nat /\ Blocks' \in Nat /\ Blocks <= n
      BY <1>0, BlocksCount, BlocksCountNext DEF BlocksCounted, Left
    <3>. QED
      BY <1>0, <2>1, <3>1 DEF Left
  <2>3. Broken /\ ~Reached' /\ ws # NoSock /\ ws' = ws
    BY <1>0, <2>1, WaitingStep, WaitingDropped DEF Left, Told, Waiting
  <2>. QED
    BY <1>0, <2>1, <2>2, <2>3, DroppedStep
<1>1. ASSUME DropOK, Calm PROVE Dropped /\ (pingTimer \/ reconTimer)
  <2>1. Dropped /\ ws = s /\ events[s] = <<>> /\ delayed = <<>>
    BY <1>1, WaitingDropped DEF Left, Told, Waiting, Unused
  <2>2. ~Contains(<<>>, "ping") /\ ~Contains(<<>>, "opened") /\ ~Contains(<<>>, "failed")
    BY DEF Contains
  <2>. QED
    <3>1. events[ws] = <<>>
      BY <2>1
    <3>. QED
      BY <1>1, <2>1, <2>2, <3>1 DEF DropOK, Watched
<1>2. DropGuardsEnable => /\ Dropped /\ pingTimer /\ ~reconTimer => ENABLED <<PingTick>>_vars
                          /\ Dropped /\ reconTimer /\ delayed = <<>> => ENABLED <<ReconTick>>_vars
  BY DEF DropGuardsEnable
<1>3. Calm => delayed = <<>>
  OBVIOUS
<1>. HIDE DEF Calm, Done
<1>4. DropOK /\ DropOK' /\ Calm /\ [Next]_vars =>
        Done' \/ (Calm' /\ (pingTimer => pingTimer') /\ (reconTimer => reconTimer'))
  BY <1>0
<1>5. DropOK /\ DropOK' /\ Calm /\ PingTick => Done' \/ reconTimer'
  BY <1>0 DEF Next
<1>6. DropOK /\ DropOK' /\ Calm /\ ReconTick => Done'
  BY <1>0 DEF Next
<1>7. Mends(s) => (Calm ~> Done)
  BY <1>1, <1>2, <1>3, <1>4, <1>5, <1>6, PTL DEF Mends
<1>. QED
  BY <1>7 DEF Calm, Done

Shrinks(s, n) == Mends(s) => (Left(s, n) ~> Asked \/ Lower(s, n))

LEMMA LeftShrinks ==
  ASSUME IsFiniteSet(Sock), NEW s \in Sock, NEW n \in Nat
  PROVE  Shrinks(s, n)
<1>. DEFINE Full == Left(s, n) /\ delayed # <<>>
            Done == Asked \/ Lower(s, n)
<1>1. ASSUME DropOK, DropOK', Full, [Next]_vars, ~Done' PROVE Full' /\ ~RunPing
  <2>1. ~Asked' /\ ~Lower(s, n)' /\ Told(s) /\ Blocks <= n
    BY <1>1 DEF Left
  <2>2. Told(s)' /\ Blocks' <= Blocks
    BY <1>1, <2>1, BlocksShrink
  <2>3. Blocks \in Nat /\ Blocks' \in Nat
    BY <1>1, BlocksCount, BlocksCountNext DEF BlocksCounted
  <2>4. ~(Blocks' < Blocks)
    BY <2>1, <2>2, <2>3 DEF Lower
  <2>5. UNCHANGED delayed /\ ~RunPing
    BY <1>1, <2>1, <2>4, BlocksShrink
  <2>. QED
    BY <1>1, <2>1, <2>2, <2>3, <2>5 DEF Left
<1>2. DropOK /\ DropOK' /\ Full /\ [Next]_vars => Full' \/ Done'
  BY <1>1
<1>3. DropOK /\ DropOK' /\ Full /\ RunPing => Done'
  BY <1>1 DEF Next
<1>4. ASSUME DropOK, DropGuardsEnable, Full PROVE ENABLED <<RunPing>>_vars
  <2>1. delayed \in Seq({"open", "ping"}) /\ delayed # <<>> /\ ~Contains(delayed, "open")
    BY <1>4, Shapes DEF DropOK, SocketOK, Left, Told, Waiting
  <2>2. Head(delayed) = "ping"
    BY <2>1 DEF Contains
  <2>. QED
    BY <1>4, <2>1, <2>2 DEF DropGuardsEnable, SocketGuardsEnable, QueueCanRun
<1>5. Left(s, n) => Full \/ (Left(s, n) /\ delayed = <<>>)
  OBVIOUS
<1>. HIDE DEF Full, Done
<1>6. Mends(s) => (Full ~> Done)
  BY <1>2, <1>3, <1>4, PTL DEF Mends
<1>7. Done <=> Asked \/ Lower(s, n)
  BY DEF Done
<1>. QED
  BY <1>5, <1>6, <1>7, CalmAsks, PTL DEF Shrinks

Asks(s, n) == Mends(s) => (Left(s, n) ~> Asked)

LEMMA AllAsk ==
  ASSUME IsFiniteSet(Sock), NEW s \in Sock
  PROVE  \A n \in Nat : Asks(s, n)
<1>. DEFINE Ask == [n \in Nat |-> Asks(s, n)]
<1>1. Asks(s, 0)
  <2>1. DropOK => ~Lower(s, 0)
    BY BlocksCount DEF BlocksCounted, Lower
  <2>2. Shrinks(s, 0)
    BY LeftShrinks
  <2>. QED
    BY <2>1, <2>2, PTL DEF Asks, Shrinks, Mends
<1>2. ASSUME NEW n \in Nat PROVE Asks(s, n) => Asks(s, n + 1)
  <2>1. DropOK => (Lower(s, n + 1) => Left(s, n))
    BY BlocksCount DEF BlocksCounted, Lower, Left
  <2>2. Shrinks(s, n + 1)
    BY LeftShrinks
  <2>. QED
    BY <2>1, <2>2, PTL DEF Asks, Shrinks, Mends
<1>3. \E U : Available(U) /\ \A n \in Nat : U[n] <=> Asks(s, n)
  <2>1. Available(Ask)
    BY DEF Available
  <2>. QED
    BY <2>1
<1>. QED
  BY <1>1, <1>2, <1>3, FunctionInduction

Likely == <>Asked

LEMMA WaitingOpens ==
  ASSUME IsFiniteSet(Sock), NEW s \in Sock
  PROVE  Mends(s) => (Waiting(s) ~> Reached)
<1>1. Mends(s) => (Told(s) => Likely)
  <2>1. ASSUME NEW n \in Nat PROVE Mends(s) => (Left(s, n) => Likely)
    <3>1. Asks(s, n)
      BY AllAsk
    <3>. QED
      BY <3>1, PTL DEF Asks, Likely
  <2>2. Mends(s) => DropOK
    BY PTL DEF Mends
  <2>3. DropOK /\ Told(s) => \E n \in Nat : Left(s, n)
    <3>. SUFFICES ASSUME DropOK, Told(s) PROVE Left(s, Blocks) /\ Blocks \in Nat
      OBVIOUS
    <3>. QED
      BY BlocksCount DEF BlocksCounted, Left
  <2>. QED
    BY <2>1, <2>2, <2>3
<1>2. Mends(s) => (Told(s) ~> Asked)
  BY <1>1, PTL DEF Mends, DelegateRuns, NetworkEnds, Likely
<1>. QED
  BY <1>2, WaitingTells, OrderedOpens, PTL DEF Asked
-----------------------------------------------------------------------------
(* The network lets one of the connections through.                        *)

\* What the network and the threads do, with finitely many sockets, of which any may be
\* the one that dropped.
Works == Spec /\ Fairness /\ SocketsEnd /\ []DropGuardsEnable

LEMMA WorksMends == ASSUME NEW s \in Sock PROVE Works => Mends(s)
<1>1. Fairness /\ SocketsEnd => DelegateRuns(s) /\ NetworkEnds(s)
  BY EachRuns
<1>2. Fairness => WF_vars(RunOpen) /\ WF_vars(RunPing) /\ WF_vars(PingTick) /\ SF_vars(ReconTick)
  BY PTL DEF Fairness
<1>. QED
  BY <1>1, <1>2, DropOKAlways, PTL DEF Works, Spec, Mends

OneWaits(T) == \E s \in T : Waiting(s)
Opening(T) == Works => (OneWaits(T) ~> Reached)

LEMMA AllOpen ==
  ASSUME IsFiniteSet(Sock)
  PROVE  Opening(Sock)
<1>. DEFINE Open == [T \in SUBSET Sock |-> Opening(T)]
<1>1. Opening({})
  <2>1. ~OneWaits({})
    BY DEF OneWaits
  <2>. QED
    BY <2>1, PTL DEF Opening
<1>2. ASSUME NEW T \in SUBSET Sock, NEW s \in Sock
      PROVE  Opening(T) => Opening(T \cup {s})
  <2>1. OneWaits(T \cup {s}) <=> OneWaits(T) \/ Waiting(s)
    BY DEF OneWaits
  <2>2. Mends(s) => (Waiting(s) ~> Reached)
    BY WaitingOpens
  <2>3. Works => Mends(s)
    BY WorksMends
  <2>. QED
    BY <2>1, <2>2, <2>3, PTL DEF Opening
<1>3. \E U : Available(U) /\ \A T \in SUBSET Sock : U[T] <=> Opening(T)
  <2>1. Available(Open)
    BY DEF Available
  <2>. QED
    BY <2>1
<1>. QED
  BY <1>1, <1>2, <1>3, FiniteInduction

LEMMA BrokenOpens ==
  ASSUME IsFiniteSet(Sock), NEW s \in Sock
  PROVE  Works => (Broken ~> Reached)
<1>1. DropOK /\ Broken => Ordered \/ OneWaits(Sock)
  BY Shapes DEF DropOK, SocketOK, Broken, Ordered, OneWaits, Waiting
<1>2. Works => (OneWaits(Sock) ~> Reached)
  BY AllOpen DEF Opening
<1>3. Works => (Ordered ~> Reached)
  BY WorksMends, OrderedOpens, PTL
<1>. QED
  BY <1>1, <1>2, <1>3, DropOKAlways, PTL DEF Works

\* A connection that does not come about is broken.
LEMMA ConnectingStep ==
  ASSUME DropOK, Connecting, ~isClosed, [Next]_vars
  PROVE  Connecting' \/ IsOpen' \/ isClosed' \/ Broken'
<1>. SUFFICES ASSUME ~Reached' PROVE ws' = NoSock => Contains(delayed', "open")
  BY DEF Reached, Broken
<1>0. TypeOK /\ ~isClosed' /\ ws # NoSock
  BY DEF DropOK, SocketOK, Connecting, Reached
<1>1. ~RunOpen /\ ~EnterDiag /\ ~LeaveDiag
  BY <1>0, OpenConnects DEF RunOpen, EnterDiag, LeaveDiag, Reached
<1>2. ASSUME Reconnect PROVE Contains(delayed', "open")
  BY <1>0, <1>2, ReconnectAsks
<1>3. CASE UNCHANGED ws
  BY <1>0, <1>3
<1>4. ASSUME NEW t \in Sock, Connected(t) \/ Fail(t) \/ CloseDone(t) \/ Reply(t) \/ Delegate(t)
      PROVE  UNCHANGED ws
  BY <1>0, <1>4, DelegateAdds DEF Connected, Fail, CloseDone, Reply
<1>5. ASSUME NEW r \in Rpc, RpcSend(r) \/ RpcTimeoutFire(r) \/ RpcTimeoutReport(r)
      PROVE  UNCHANGED ws
  BY <1>5 DEF RpcSend, RpcTimeoutFire, RpcTimeoutReport, sockVars
<1>6. CASE DiagStep
  BY <1>2, <1>3, <1>6 DEF DiagStep, SubscribeCheck, SubscribeReconnect, SubscribeKeep,
     SubscribeSend, SubscribeRecord, RpcReturn, sockVars
<1>7. CASE RunPing \/ Deliver \/ PingTick \/ ReconTick \/ UNCHANGED vars
  BY <1>2, <1>3, <1>7 DEF RunPing, Deliver, PingTick, ReconTick, vars, sockVars
<1>. QED
  BY <1>1, <1>3, <1>4, <1>5, <1>6, <1>7 DEF Next

\* A socket that dropped in the middle of a diagnosis is replaced until one is open,
\* whatever calls are made meanwhile and whatever is left of earlier sockets, for any
\* finite number of them: with or without a word from SRWebSocket somebody asks for the
\* next one, it is opened, and now and then the network lets one through.
THEOREM DroppedReconnects ==
  ASSUME IsFiniteSet(Sock)
  PROVE  ConnectingSpec /\ []DropGuardsEnable => ReconnectsAfterDrop
<1>1. CASE Sock = {}
  <2>1. DropOK => ~Dropped
    BY <1>1, Shapes DEF DropOK, SocketOK, Dropped
  <2>. QED
    BY <2>1, DropOKAlways, PTL DEF ConnectingSpec, FairSpec, ReconnectsAfterDrop
<1>2. ASSUME NEW s \in Sock
      PROVE  ConnectingSpec /\ []DropGuardsEnable => ReconnectsAfterDrop
  <2>. DEFINE Up == IsOpen \/ isClosed
  <2>1. DropOK => (Dropped => Broken \/ Up)
    BY DEF Dropped, Broken, Reached, Connecting, IsOpen
  <2>2. DropOK /\ [Next]_vars => (Broken => Broken' \/ Connecting' \/ Up')
    BY BrokenStep DEF Reached
  <2>3. DropOK /\ [Next]_vars => (Connecting => Broken' \/ Connecting' \/ Up \/ Up')
    BY ConnectingStep
  <2>4. Reached => Connecting \/ Up
    BY DEF Reached
  <2>5. ASSUME DropOK, Passes PROVE Up'
    BY <2>5, Shapes DEF DropOK, SocketOK, Passes, Connected, IsOpen
  <2>6. DropGuardsEnable => (Connecting => ENABLED <<Passes>>_vars)
    BY DEF DropGuardsEnable
  <2>7. ConnectingSpec => SF_vars(Passes)
    BY PTL DEF ConnectingSpec
  <2>8. ConnectingSpec /\ []DropGuardsEnable =>
          [][Next]_vars /\ []DropOK /\ []DropGuardsEnable /\ Works
    BY DropOKAlways, PTL DEF ConnectingSpec, FairSpec, Spec, Works
  <2>9. Works => (Broken ~> Reached)
    BY BrokenOpens
  <2>10. Up <=> IsOpen \/ isClosed
    OBVIOUS
  <2>. HIDE DEF Up
  <2>. QED
    BY <2>1, <2>2, <2>3, <2>4, <2>5, <2>6, <2>7, <2>8, <2>9, <2>10, PTL DEF ReconnectsAfterDrop
<1>. QED
  BY <1>1, <1>2
=============================================================================
