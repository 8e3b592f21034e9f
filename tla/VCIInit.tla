------------------------------- MODULE VCIInit -------------------------------
(***************************************************************************)
(* Initialisation of a vehicle communication interface (VCI).              *)
(*                                                                         *)
(* Each time a VCI connects, a thread of a global queue resets             *)
(* TDD_VCIInitializeModel and asks the VCI, call after blocking call, for  *)
(* its serial number, type and versions, then, if the VCI has one, for its *)
(* Wi-Fi module's.  What fails is asked again by one-shot timers, and two  *)
(* timers limit the time; their handlers run on threads of the global      *)
(* queue, beside one another and beside the runs they belong to.           *)
(*                                                                         *)
(* Every assignment a thread makes between two blocking calls is one step. *)
(* A timer counts the ticks it has left; a call takes any number of ticks, *)
(* or never returns.                                                       *)
(***************************************************************************)
EXTENDS Naturals, Sequences

CONSTANTS
  Run,                                        \* initialisations, one per connection
  RetryDelay, PollDelay, VciLimit, WifiLimit  \* 1, 10, 60 and 120 seconds, in ticks

ASSUME InitAssumption ==
  /\ 0 < RetryDelay /\ RetryDelay < PollDelay
  /\ PollDelay < VciLimit /\ VciLimit < WifiLimit
  /\ {RetryDelay, PollDelay, VciLimit, WifiLimit} \subseteq Nat

VARIABLES
  value,          \* whether the VCI has answered each question, and well
  failIndex, wifiFailIndex,  \* eVCIValueErrorType and eWIFIValueErrorType bits
  initStatus, wifiInitStatus,
  isSupportMT7628, mt7628IsReady,
  reGetCount, wifiReGetCount,
  isVCITimeout, isWIFITimeout,
  timer,          \* ticks each timer has left, or Off
  at              \* the call each thread is in

statusVars == <<initStatus, wifiInitStatus>>
vciVars == <<failIndex, isSupportMT7628, reGetCount, isVCITimeout>>
wifiVars == <<wifiFailIndex, mt7628IsReady, wifiReGetCount, isWIFITimeout>>
vars == <<value, statusVars, vciVars, wifiVars, timer, at>>

VciField == <<"sn", "deviceType", "fw", "bt">>
WifiField == <<"os", "app", "wifiType">>
Bit == [sn |-> 1, deviceType |-> 2, fw |-> 4, bt |-> 8, os |-> 2, app |-> 4, wifiType |-> 8]
Field == DOMAIN Bit

\* eVCIInitTimerType; each handler is a thread.
Kind == {"REGET_MESSAGE", "REGET_WIFI", "MESSAGE_TIMEOUT", "WIFI_REGET_ALREADY", "WIFI_TIMEOUT"}
Thread == Run \cup Kind

\* No connection is a timer.
ASSUME RunAssumption == Run \cap Kind = {}

Off == WifiLimit + 1

TypeOK ==
  /\ value \in [Field -> BOOLEAN]
  /\ failIndex \subseteq {1, 2, 4, 8} /\ wifiFailIndex \subseteq {1, 2, 4, 8}
  /\ initStatus \in {"DEFAULT", "ING", "SUCCESS", "FAIL"}
  /\ wifiInitStatus \in {"DEFAULT", "ING", "SUCCESS", "FAIL"}
  /\ isSupportMT7628 \in BOOLEAN /\ mt7628IsReady \in BOOLEAN
  /\ reGetCount \in Nat /\ wifiReGetCount \in Nat
  /\ isVCITimeout \in BOOLEAN /\ isWIFITimeout \in BOOLEAN
  /\ timer \in [Kind -> 0 .. Off]
  /\ at \in [Thread -> Field \cup {"new", "support", "boot", "pins", "wifiBoot", "ready",
                                   "after", "idle"}]
  /\ \A k \in Kind : at[k] # "new"
  /\ \A t \in Thread : at[t] = "after" => t \in {"REGET_MESSAGE", "MESSAGE_TIMEOUT"}
  /\ at["WIFI_TIMEOUT"] = "idle"

Init ==
  /\ value = [f \in Field |-> FALSE]
  /\ failIndex = {} /\ wifiFailIndex = {}
  /\ initStatus = "DEFAULT" /\ wifiInitStatus = "DEFAULT"
  /\ isSupportMT7628 = FALSE /\ mt7628IsReady = FALSE
  /\ reGetCount = 0 /\ wifiReGetCount = 0
  /\ isVCITimeout = FALSE /\ isWIFITimeout = FALSE
  /\ timer = [k \in Kind |-> Off]
  /\ at = [t \in Thread |-> IF t \in Run THEN "new" ELSE "idle"]
-----------------------------------------------------------------------------
(* What a thread does between two calls.                                   *)

Goto(t, call) == at' = [at EXCEPT ![t] = call]

\* Mutant: every thread.
RestAlways(t) == "after"

\* Where a thread goes on once setInitStatus and the Wi-Fi phase it has run
\* return: two handlers have something left to do.
Rest(t) == IF t \in {"REGET_MESSAGE", "MESSAGE_TIMEOUT"} THEN "after" ELSE "idle"

\* scheduleTaskAfterDelay: the timer it replaces is cancelled.
Arm(k, delay) == timer' = [timer EXCEPT ![k] = delay]
Cancel(K) == timer' = [k \in Kind |-> IF k \in K THEN Off ELSE timer[k]]

\* The questions of a list from its i-th on; a retry asks those that failed.
Wanted(fields, i, failed, t) ==
  {j \in i .. Len(fields) :
     t \in {"REGET_MESSAGE", "REGET_WIFI"} => Bit[fields[j]] \in failed}
First(S) == CHOOSE j \in S : \A k \in S : j <= k

\* Mutant: without a Wi-Fi module its status is left alone.
SetInitStatusNoWifi(t, status) ==
  /\ initStatus' = status
  /\ Goto(t, IF status # initStatus /\ isSupportMT7628 THEN "wifiBoot" ELSE Rest(t))
  /\ UNCHANGED wifiInitStatus

\* setInitStatus to SUCCESS or FAIL goes on to the Wi-Fi module, on this thread.
SetInitStatus(t, status) ==
  /\ initStatus' = status
  /\ IF status = initStatus
     THEN Goto(t, Rest(t)) /\ UNCHANGED wifiInitStatus
     ELSE IF isSupportMT7628
     THEN Goto(t, "wifiBoot") /\ UNCHANGED wifiInitStatus
     ELSE Goto(t, Rest(t)) /\ wifiInitStatus' = "FAIL"

\* The end of getMessage.
MessageEnd(t) ==
  IF failIndex' # {}
  THEN /\ Arm("REGET_MESSAGE", RetryDelay)
       /\ Goto(t, "idle")
       /\ UNCHANGED statusVars
  ELSE SetInitStatus(t, "SUCCESS") /\ UNCHANGED timer

\* The end of reGetMessage.
ReGetEnd(t) ==
  IF failIndex' # {} /\ reGetCount' < 3
  THEN /\ Arm("REGET_MESSAGE", RetryDelay)
       /\ Goto(t, "idle")
       /\ UNCHANGED statusVars
  ELSE /\ SetInitStatus(t, IF failIndex' # {} THEN "FAIL" ELSE "SUCCESS")
       /\ UNCHANGED timer

\* Mutant: a retry asks its questions whether or not time is up.
AskVciAlways(t, i) ==
  LET W == Wanted(VciField, i, failIndex', t) IN
  IF W # {}
  THEN Goto(t, VciField[First(W)]) /\ UNCHANGED <<statusVars, timer>>
  ELSE IF t \in Run THEN Goto(t, "support") /\ UNCHANGED <<statusVars, timer>>
  ELSE ReGetEnd(t)

\* The next question to the VCI, unless time is up; a retry's last answer is
\* acted on all the same.
AskVci(t, i) ==
  LET W == Wanted(VciField, i, failIndex', t) IN
  IF isVCITimeout /\ (t \in Run \/ i <= Len(VciField))
  THEN Goto(t, "idle") /\ UNCHANGED <<statusVars, timer>>
  ELSE IF W # {}
  THEN Goto(t, VciField[First(W)]) /\ UNCHANGED <<statusVars, timer>>
  ELSE IF t \in Run THEN Goto(t, "support") /\ UNCHANGED <<statusVars, timer>>
  ELSE ReGetEnd(t)

\* getMT7628IsReady starts its time limit anew each time.
GetMT7628IsReady(t) ==
  IF isWIFITimeout
  THEN Goto(t, Rest(t)) /\ UNCHANGED timer
  ELSE Goto(t, "ready") /\ Arm("WIFI_TIMEOUT", WifiLimit)

\* The next question to the Wi-Fi module, or the end of getWifiMessage and
\* reGetWifiMessage.
AskWifi(t, i) ==
  LET W == Wanted(WifiField, i, wifiFailIndex', t) IN
  /\ UNCHANGED initStatus
  /\ IF W # {}
     THEN Goto(t, WifiField[First(W)]) /\ UNCHANGED <<wifiInitStatus, timer>>
     ELSE /\ Goto(t, Rest(t))
          /\ IF wifiFailIndex' # {} /\ (t = "REGET_WIFI" => wifiReGetCount' < 3)
             THEN Arm("REGET_WIFI", RetryDelay) /\ UNCHANGED wifiInitStatus
             ELSE /\ wifiInitStatus' = IF wifiFailIndex' # {} THEN "FAIL" ELSE "SUCCESS"
                  /\ UNCHANGED timer
-----------------------------------------------------------------------------
(* The runs.                                                               *)

\* vciInit: reset, and getMessage up to its first call; the Wi-Fi module's type
\* is not reset.
GetMessage(r) ==
  /\ at[r] = "new"
  /\ value' = [f \in Field |-> f = "wifiType" /\ value[f]]
  /\ failIndex' = {} /\ wifiFailIndex' = {}
  /\ initStatus' = "ING" /\ wifiInitStatus' = "DEFAULT"
  /\ isSupportMT7628' = FALSE /\ mt7628IsReady' = FALSE
  /\ reGetCount' = 0 /\ wifiReGetCount' = 0
  /\ isVCITimeout' = FALSE /\ isWIFITimeout' = FALSE
  /\ timer' = [k \in Kind |-> IF k = "MESSAGE_TIMEOUT" THEN VciLimit ELSE Off]
  /\ Goto(r, "sn")

\* Mutant: a question that fails on a retry is no longer counted as failing.
AnswerVciOnce(t, i, ok) ==
  /\ at[t] = VciField[i]
  /\ value' = [value EXCEPT ![VciField[i]] = ok]
  /\ failIndex' = IF ok \/ t = "REGET_MESSAGE"
                  THEN failIndex \ {Bit[VciField[i]]} ELSE failIndex \cup {Bit[VciField[i]]}
  /\ UNCHANGED <<isSupportMT7628, reGetCount, isVCITimeout, wifiVars>>
  /\ AskVci(t, i + 1)

\* setVciSN, setDeviceType, setFwVersion, setBtVersion.
AnswerVci(t, i, ok) ==
  /\ at[t] = VciField[i]
  /\ value' = [value EXCEPT ![VciField[i]] = ok]
  /\ failIndex' = IF ok THEN failIndex \ {Bit[VciField[i]]} ELSE failIndex \cup {Bit[VciField[i]]}
  /\ UNCHANGED <<isSupportMT7628, reGetCount, isVCITimeout, wifiVars>>
  /\ AskVci(t, i + 1)

AnswerSupport(t, yes) ==
  /\ at[t] = "support"
  /\ isSupportMT7628' = yes
  /\ Goto(t, "boot")
  /\ UNCHANGED <<value, statusVars, failIndex, reGetCount, isVCITimeout, wifiVars, timer>>

\* FwIsBoot; only out of boot mode are the pins read, and time is looked at.
AnswerBoot(t, boot) ==
  /\ at[t] = "boot"
  /\ UNCHANGED <<value, vciVars, wifiVars>>
  /\ IF boot THEN MessageEnd(t)
     ELSE /\ Goto(t, IF isVCITimeout THEN "idle" ELSE "pins")
          /\ UNCHANGED <<statusVars, timer>>

AnswerPins(t) ==
  /\ at[t] = "pins"
  /\ UNCHANGED <<value, vciVars, wifiVars>>
  /\ MessageEnd(t)
-----------------------------------------------------------------------------
(* The Wi-Fi phase.                                                        *)

AnswerWifiBoot(t, boot) ==
  /\ at[t] = "wifiBoot"
  /\ wifiInitStatus' = IF boot THEN "FAIL" ELSE "ING"
  /\ IF boot THEN Goto(t, Rest(t)) /\ UNCHANGED timer ELSE GetMT7628IsReady(t)
  /\ UNCHANGED <<value, initStatus, vciVars, wifiVars>>

AnswerReady(t, ready) ==
  /\ at[t] = "ready"
  /\ mt7628IsReady' = ready
  /\ IF ready
     THEN /\ Goto(t, "os")
          /\ wifiReGetCount' = 0
          /\ Cancel({"REGET_WIFI"})
     ELSE /\ Goto(t, Rest(t))
          /\ UNCHANGED wifiReGetCount
          /\ IF isWIFITimeout THEN UNCHANGED timer ELSE Arm("WIFI_REGET_ALREADY", PollDelay)
  /\ UNCHANGED <<value, statusVars, vciVars, wifiFailIndex, isWIFITimeout>>

\* setMt7628OsVersion, setMt7628AppVersion; setMt7628DeviceType notes its
\* failures in failIndex.
AnswerWifi(t, i, ok) ==
  /\ at[t] = WifiField[i]
  /\ value' = [value EXCEPT ![WifiField[i]] = ok]
  /\ LET b == {Bit[WifiField[i]]}
         Noted(index) == IF ok THEN index \ b ELSE index \cup b
     IN IF WifiField[i] = "wifiType"
        THEN failIndex' = Noted(failIndex) /\ UNCHANGED wifiFailIndex
        ELSE wifiFailIndex' = Noted(wifiFailIndex) /\ UNCHANGED failIndex
  /\ UNCHANGED <<isSupportMT7628, reGetCount, isVCITimeout, mt7628IsReady, wifiReGetCount,
                 isWIFITimeout>>
  /\ AskWifi(t, i + 1)
-----------------------------------------------------------------------------
(* The timers' handlers.                                                   *)

Due(k) == timer[k] = 0 /\ at[k] = "idle"

ReGetMessage ==
  /\ Due("REGET_MESSAGE")
  /\ reGetCount' = reGetCount + 1
  /\ UNCHANGED <<value, failIndex, isSupportMT7628, isVCITimeout, wifiVars>>
  /\ LET W == Wanted(VciField, 1, failIndex, "REGET_MESSAGE")
         ended == [timer EXCEPT !["REGET_MESSAGE"] = Off] IN
     IF isVCITimeout \/ W # {}
     THEN /\ Goto("REGET_MESSAGE", IF isVCITimeout THEN "idle" ELSE VciField[First(W)])
          /\ timer' = ended
          /\ UNCHANGED statusVars
     ELSE SetInitStatus("REGET_MESSAGE", "SUCCESS") /\ timer' = ended

ReGetMessageReturns ==
  /\ at["REGET_MESSAGE"] = "after"
  /\ reGetCount' = 0
  /\ Goto("REGET_MESSAGE", "idle")
  /\ UNCHANGED <<value, statusVars, failIndex, isSupportMT7628, isVCITimeout, wifiVars, timer>>

\* Mutant: running out of time is noticed but not said.
VciInitTimeOutSilent ==
  /\ Due("MESSAGE_TIMEOUT")
  /\ timer' = [timer EXCEPT !["MESSAGE_TIMEOUT"] = Off]
  /\ isVCITimeout' = TRUE
  /\ UNCHANGED <<value, statusVars, failIndex, isSupportMT7628, reGetCount, wifiVars, at>>

VciInitTimeOut ==
  /\ Due("MESSAGE_TIMEOUT")
  /\ timer' = [timer EXCEPT !["MESSAGE_TIMEOUT"] = Off]
  /\ IF initStatus = "ING"
     THEN isVCITimeout' = TRUE /\ SetInitStatus("MESSAGE_TIMEOUT", "FAIL")
     ELSE UNCHANGED <<isVCITimeout, statusVars, at>>
  /\ UNCHANGED <<value, failIndex, isSupportMT7628, reGetCount, wifiVars>>

\* The timers cancelled are those there are now.
VciInitTimeOutReturns ==
  /\ at["MESSAGE_TIMEOUT"] = "after"
  /\ reGetCount' = 0
  /\ Cancel({"MESSAGE_TIMEOUT", "REGET_MESSAGE"})
  /\ Goto("MESSAGE_TIMEOUT", "idle")
  /\ UNCHANGED <<value, statusVars, failIndex, isSupportMT7628, isVCITimeout, wifiVars>>

Poll ==
  /\ Due("WIFI_REGET_ALREADY")
  /\ IF isWIFITimeout
     THEN timer' = [timer EXCEPT !["WIFI_REGET_ALREADY"] = Off] /\ UNCHANGED at
     ELSE /\ timer' = [timer EXCEPT !["WIFI_REGET_ALREADY"] = Off, !["WIFI_TIMEOUT"] = WifiLimit]
          /\ Goto("WIFI_REGET_ALREADY", "ready")
  /\ UNCHANGED <<value, statusVars, vciVars, wifiVars>>

WifiIsReadyTimeOut ==
  /\ Due("WIFI_TIMEOUT")
  /\ IF wifiInitStatus = "ING" /\ ~mt7628IsReady
     THEN /\ isWIFITimeout' = TRUE
          /\ wifiInitStatus' = "FAIL"
          /\ Cancel({"WIFI_REGET_ALREADY", "WIFI_TIMEOUT"})
     ELSE Cancel({"WIFI_TIMEOUT"}) /\ UNCHANGED <<isWIFITimeout, wifiInitStatus>>
  /\ UNCHANGED <<value, initStatus, vciVars, wifiFailIndex, mt7628IsReady, wifiReGetCount, at>>

ReGetWifiMessage ==
  /\ Due("REGET_WIFI")
  /\ wifiReGetCount' = wifiReGetCount + 1
  /\ UNCHANGED <<value, initStatus, vciVars, wifiFailIndex, mt7628IsReady, isWIFITimeout>>
  /\ LET W == Wanted(WifiField, 1, wifiFailIndex, "REGET_WIFI") IN
     /\ timer' = [timer EXCEPT !["REGET_WIFI"] = Off]
     /\ IF W # {}
        THEN Goto("REGET_WIFI", WifiField[First(W)]) /\ UNCHANGED wifiInitStatus
        ELSE wifiInitStatus' = "SUCCESS" /\ UNCHANGED at

\* Time passes unless a handler is due.
Tick ==
  /\ \A k \in Kind : ~Due(k)
  /\ \E k \in Kind : timer[k] \in 1 .. WifiLimit
  /\ timer' = [k \in Kind |-> IF timer[k] \in 1 .. WifiLimit THEN timer[k] - 1 ELSE timer[k]]
  /\ UNCHANGED <<value, statusVars, vciVars, wifiVars, at>>
-----------------------------------------------------------------------------
\* A blocking call of a thread returns.
Return(t) ==
  \/ \E i \in DOMAIN VciField, ok \in BOOLEAN : AnswerVci(t, i, ok)
  \/ \E b \in BOOLEAN : AnswerSupport(t, b) \/ AnswerBoot(t, b)
  \/ AnswerPins(t)
  \/ \E b \in BOOLEAN : AnswerWifiBoot(t, b) \/ AnswerReady(t, b)
  \/ \E i \in DOMAIN WifiField, ok \in BOOLEAN : AnswerWifi(t, i, ok)

Handler ==
  \/ ReGetMessage \/ ReGetMessageReturns \/ VciInitTimeOut \/ VciInitTimeOutReturns
  \/ Poll \/ WifiIsReadyTimeOut \/ ReGetWifiMessage

Next ==
  \/ \E r \in Run : GetMessage(r)
  \/ \E t \in Thread : Return(t)
  \/ Handler
  \/ Tick

Spec == Init /\ [][Next]_vars

\* Time passes and due handlers run; calls may never return.
TimedSpec == Spec /\ WF_vars(Tick) /\ WF_vars(Handler)

\* ... or they all do.
Returning(t) == WF_vars(Return(t))
AllReturn == \A t \in Thread : Returning(t)
AnsweredSpec == TimedSpec /\ AllReturn
-----------------------------------------------------------------------------
(* Promises, of one run.                                                   *)

VciValues == {VciField[i] : i \in DOMAIN VciField}

\* Without a Wi-Fi module: an initialisation that is called a success has been
\* given every value, whatever was asked again.
SuccessComplete == initStatus = "SUCCESS" /\ ~isSupportMT7628 => \A f \in VciValues : value[f]

\* Once the initialisation has ended no further question is put to the VCI: the
\* calls under way return, and that is all.
StopsAsking ==
  [][\A t \in Thread : at'[t] \in VciValues /\ at'[t] # at[t] => initStatus' = "ING"]_vars

\* The initialisation ends although calls to the VCI may never return.
VciInitEnds == initStatus = "ING" ~> initStatus # "ING"

\* Success or failure, the Wi-Fi module's turn comes, if the calls return.
WifiFollows ==
  AllReturn => (initStatus \in {"SUCCESS", "FAIL"} ~> wifiInitStatus # "DEFAULT")
=============================================================================
