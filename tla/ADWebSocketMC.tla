---------------------------- MODULE ADWebSocketMC ----------------------------
(* Instances of ADWebSocket for TLC, and what is asked of them.            *)
EXTENDS ADWebSocket, TLC

CONSTANTS r1, r2, s1, s2

NoCalls == {}
Symmetry == Permutations(Sock) \cup Permutations(Rpc)

\* No step depends on the results of calls that have returned, nor on history.
View == <<diag, isClosed, pc, rpc, failed, IF pc = "run" THEN "none" ELSE got[rpc],
          rpcTimer, returned, sockVars, dictVars, timerVars, queueVars>>
-----------------------------------------------------------------------------
(* What documentation and comments say.                                    *)

\* SetRpcRecv is the return of RpcSend: a call ends with the answer to its own
\* request or with its time-out, not with a heartbeat's or another call's.
OwnAnswer == \A r \in Rpc : got[r] \in {"none", "timeout", r}

\* close disconnects: there is no socket until the next diagnosis.
ClosedStaysClosed == isClosed => ws = NoSock

\* Without an answer to its heartbeats the connection is made anew.
HeartbeatLossReconnects ==
  (IsOpen /\ pong = PongLimit) ~> (~IsOpen \/ pong < PongLimit)

\* What webSocketDidOpen takes from waitDatas has been sent.
WaitingIsSent == [][waitDatas \ waitDatas' \subseteq sent']_vars
=============================================================================
