---------------------------- MODULE VCIInitProofs ----------------------------
(***************************************************************************)
(* Proofs about VCIInit.  Types hold for any number of runs.  What an       *)
(* initialisation promises is proved of a single run, because a second     *)
(* one does break it: its reset does not wait for the first one's calls.   *)
(***************************************************************************)
EXTENDS VCIInit, TemporalInduction, TLAPS

OneRun == \A r, s \in Run : r = s

\* The calls of getMessage and reGetMessage, and those of the Wi-Fi phase.
VciCalls == VciValues \cup {"support", "boot", "pins"}
WifiCalls == {"wifiBoot", "ready", "os", "app", "wifiType"}

\* A retry is waiting for its time.
Retrying == timer["REGET_MESSAGE"] # Off

\* Somebody is going to say how the initialisation ended.
Busy == Retrying \/ \E t \in Thread : at[t] \in VciCalls

\* Until the run has begun nothing else has.
Fresh ==
  (\E r \in Run : at[r] = "new") =>
    /\ initStatus = "DEFAULT"
    /\ ~isSupportMT7628
    /\ \A k \in Kind : at[k] = "idle" /\ timer[k] = Off

\* Of the handlers only the retry asks the VCI, and only for its values.
Askers ==
  \A k \in Kind : at[k] \in VciCalls => k = "REGET_MESSAGE" /\ at[k] \in VciValues

\* The run, the retry's timer and the retry take turns.
Turns ==
  /\ (\E r \in Run : at[r] \in VciCalls) => ~Retrying /\ at["REGET_MESSAGE"] \notin VciValues
  /\ at["REGET_MESSAGE"] \in VciValues => ~Retrying

\* While one of them is at it, only the time-out may have ended the initialisation.
Undecided == Busy => initStatus # "SUCCESS" /\ (isVCITimeout \/ initStatus = "ING")

\* Whether there is a Wi-Fi module is found out after the values.
NotYet == \A r \in Run : at[r] \in VciValues \cup {"support"} => ~isSupportMT7628

\* The Wi-Fi phase is for VCIs with a Wi-Fi module.
WifiSupported ==
  ~isSupportMT7628 =>
    /\ \A t \in Thread : at[t] \notin WifiCalls
    /\ \A k \in {"REGET_WIFI", "WIFI_REGET_ALREADY"} : timer[k] = Off

\* Each value is known, or noted as failed, or still to be asked for by the run.
Known ==
  Busy /\ ~isSupportMT7628 =>
    \A i \in DOMAIN VciField :
      \/ value[VciField[i]]
      \/ Bit[VciField[i]] \in failIndex
      \/ \E r \in Run, j \in 1 .. i : at[r] = VciField[j]

VciInv ==
  Fresh /\ Askers /\ Turns /\ Undecided /\ NotYet /\ WifiSupported /\ Known /\ SuccessComplete

IInv == TypeOK /\ VciInv
-----------------------------------------------------------------------------
(* The questions, the places and the constants.                            *)

Places == Field \cup {"new", "support", "boot", "pins", "wifiBoot", "ready", "after", "idle"}

AtType ==
  /\ at \in [Thread -> Places]
  /\ \A k \in Kind : at[k] # "new"
  /\ \A t \in Thread : at[t] = "after" => t \in {"REGET_MESSAGE", "MESSAGE_TIMEOUT"}
  /\ at["WIFI_TIMEOUT"] = "idle"

TimerType == timer \in [Kind -> 0 .. Off]

StatusType ==
  /\ initStatus \in {"DEFAULT", "ING", "SUCCESS", "FAIL"}
  /\ wifiInitStatus \in {"DEFAULT", "ING", "SUCCESS", "FAIL"}

LEMMA Questions ==
  /\ Field = {"sn", "deviceType", "fw", "bt", "os", "app", "wifiType"}
  /\ VciField \in [1 .. 4 -> VciValues] /\ Len(VciField) = 4 /\ DOMAIN VciField = 1 .. 4
  /\ VciField[1] = "sn" /\ VciField[2] = "deviceType" /\ VciField[3] = "fw" /\ VciField[4] = "bt"
  /\ VciValues = {"sn", "deviceType", "fw", "bt"}
  /\ Len(WifiField) = 3 /\ DOMAIN WifiField = 1 .. 3
  /\ WifiField[1] = "os" /\ WifiField[2] = "app" /\ WifiField[3] = "wifiType"
<1>1. Field = {"sn", "deviceType", "fw", "bt", "os", "app", "wifiType"} BY DEF Field, Bit
<1>2. /\ Len(VciField) = 4 /\ DOMAIN VciField = 1 .. 4
      /\ VciField[1] = "sn" /\ VciField[2] = "deviceType" /\ VciField[3] = "fw" /\ VciField[4] = "bt"
  BY DEF VciField
<1>3. VciValues = {"sn", "deviceType", "fw", "bt"} BY <1>2 DEF VciValues
<1>4. VciField \in [1 .. 4 -> VciValues] BY <1>2, <1>3 DEF VciField
<1>5. /\ Len(WifiField) = 3 /\ DOMAIN WifiField = 1 .. 3
      /\ WifiField[1] = "os" /\ WifiField[2] = "app" /\ WifiField[3] = "wifiType"
  BY DEF WifiField
<1> QED BY <1>1, <1>2, <1>3, <1>4, <1>5

LEMMA Bits ==
  /\ Bit["sn"] = 1 /\ Bit["deviceType"] = 2 /\ Bit["fw"] = 4 /\ Bit["bt"] = 8
  /\ Bit["os"] = 2 /\ Bit["app"] = 4 /\ Bit["wifiType"] = 8
BY DEF Bit

LEMMA Delays ==
  /\ RetryDelay \in 0 .. WifiLimit /\ PollDelay \in 0 .. WifiLimit /\ VciLimit \in 0 .. WifiLimit
  /\ WifiLimit \in Nat /\ Off \in Nat /\ Off = WifiLimit + 1
BY InitAssumption DEF Off

LEMMA Threads ==
  /\ Kind \subseteq Thread /\ Run \subseteq Thread
  /\ \A r \in Run : r \notin Kind
  /\ \A t \in Thread : t \in Run \/ t \in Kind
BY RunAssumption DEF Thread

LEMMA TypeParts ==
  LET Types ==
      /\ value \in [Field -> BOOLEAN]
      /\ failIndex \subseteq {1, 2, 4, 8} /\ wifiFailIndex \subseteq {1, 2, 4, 8}
      /\ StatusType
      /\ isSupportMT7628 \in BOOLEAN /\ mt7628IsReady \in BOOLEAN
      /\ reGetCount \in Nat /\ wifiReGetCount \in Nat
      /\ isVCITimeout \in BOOLEAN /\ isWIFITimeout \in BOOLEAN
      /\ TimerType
      /\ AtType
  IN (TypeOK <=> Types) /\ (TypeOK' <=> Types')
BY DEF TypeOK, StatusType, TimerType, AtType, Places

(* The first of some questions is one of them, and none is before it. *)
LEMMA FirstIs ==
  ASSUME NEW n \in {3, 4}, NEW S \in SUBSET (1 .. n), S # {}
  PROVE  First(S) \in S /\ \A k \in S : First(S) <= k
<1>1. \E j \in S : \A k \in S : j <= k
  <2>1. CASE 1 \in S BY <2>1
  <2>2. CASE 1 \notin S /\ 2 \in S BY <2>2
  <2>3. CASE 1 \notin S /\ 2 \notin S /\ 3 \in S BY <2>3
  <2>4. CASE 1 \notin S /\ 2 \notin S /\ 3 \notin S
    <3>1. \A j \in S : j = 4 BY <2>4
    <3>2. PICK j \in S : TRUE OBVIOUS
    <3>3. \A k \in S : j <= k BY <3>1
    <3> QED BY <3>3
  <2> QED BY <2>1, <2>2, <2>3, <2>4
<1> QED BY <1>1 DEF First

LEMMA GotoType ==
  ASSUME AtType, NEW t \in Thread, NEW c \in Places, Goto(t, c),
         c # "new", t # "WIFI_TIMEOUT",
         c = "after" => t \in {"REGET_MESSAGE", "MESSAGE_TIMEOUT"}
  PROVE  AtType'
BY Threads DEF AtType, Goto, Kind

LEMMA RestPlace ==
  ASSUME NEW t
  PROVE  /\ Rest(t) \in Places /\ Rest(t) # "new"
         /\ Rest(t) = "after" => t \in {"REGET_MESSAGE", "MESSAGE_TIMEOUT"}
         /\ Rest(t) \in {"after", "idle"}
BY DEF Rest, Places

LEMMA ArmType ==
  ASSUME TimerType, NEW k \in Kind, NEW d \in 0 .. WifiLimit, Arm(k, d)
  PROVE  TimerType'
BY Delays DEF Arm, TimerType

LEMMA StopType ==
  ASSUME TimerType, NEW k \in Kind, timer' = [timer EXCEPT ![k] = Off]
  PROVE  TimerType'
BY Delays DEF TimerType

LEMMA CancelType ==
  ASSUME TimerType, NEW K, Cancel(K)
  PROVE  TimerType'
BY Delays DEF Cancel, TimerType
-----------------------------------------------------------------------------
(* Types.                                                                  *)

LEMMA SetInitStatusType ==
  ASSUME AtType, StatusType, NEW t \in Thread, t # "WIFI_TIMEOUT",
         NEW status \in {"SUCCESS", "FAIL"}, SetInitStatus(t, status)
  PROVE  AtType' /\ StatusType'
<1>1. StatusType' BY DEF SetInitStatus, StatusType
<1>2. Goto(t, Rest(t)) \/ Goto(t, "wifiBoot") BY DEF SetInitStatus
<1>3. "wifiBoot" \in Places BY DEF Places
<1> QED BY <1>1, <1>2, <1>3, GotoType, RestPlace

LEMMA MessageEndType ==
  ASSUME AtType, StatusType, TimerType, NEW t \in Thread, t # "WIFI_TIMEOUT", MessageEnd(t)
  PROVE  AtType' /\ StatusType' /\ TimerType'
<1>1. CASE failIndex' # {}
  <2>1. Arm("REGET_MESSAGE", RetryDelay) /\ Goto(t, "idle") /\ UNCHANGED statusVars
    BY <1>1 DEF MessageEnd
  <2>2. "idle" \in Places /\ "REGET_MESSAGE" \in Kind BY DEF Places, Kind
  <2>3. StatusType' BY <2>1 DEF StatusType, statusVars
  <2> QED BY <2>1, <2>2, <2>3, GotoType, ArmType, Delays
<1>2. CASE ~(failIndex' # {})
  <2>1. SetInitStatus(t, "SUCCESS") /\ UNCHANGED timer BY <1>2 DEF MessageEnd
  <2> QED BY <2>1, SetInitStatusType DEF TimerType
<1> QED BY <1>1, <1>2

LEMMA ReGetEndType ==
  ASSUME AtType, StatusType, TimerType, NEW t \in Thread, t # "WIFI_TIMEOUT", ReGetEnd(t)
  PROVE  AtType' /\ StatusType' /\ TimerType'
<1>1. CASE failIndex' # {} /\ reGetCount' < 3
  <2>1. Arm("REGET_MESSAGE", RetryDelay) /\ Goto(t, "idle") /\ UNCHANGED statusVars
    BY <1>1 DEF ReGetEnd
  <2>2. "idle" \in Places /\ "REGET_MESSAGE" \in Kind BY DEF Places, Kind
  <2>3. StatusType' BY <2>1 DEF StatusType, statusVars
  <2> QED BY <2>1, <2>2, <2>3, GotoType, ArmType, Delays
<1>2. CASE ~(failIndex' # {} /\ reGetCount' < 3)
  <2>1. PICK status \in {"SUCCESS", "FAIL"} : SetInitStatus(t, status) /\ UNCHANGED timer
    BY <1>2 DEF ReGetEnd
  <2> QED BY <2>1, SetInitStatusType DEF TimerType
<1> QED BY <1>1, <1>2

(* What AskVci comes to. *)
LEMMA AskVciDoes ==
  ASSUME NEW t \in Thread, NEW i \in 1 .. 5, AskVci(t, i)
  PROVE  \/ /\ isVCITimeout
            /\ Goto(t, "idle") /\ UNCHANGED <<statusVars, timer>>
         \/ /\ ~isVCITimeout
            /\ \E j \in i .. 4 : Goto(t, VciField[j]) /\ (t \in Run => j = i)
            /\ UNCHANGED <<statusVars, timer>>
         \/ t \in Run /\ i = 5 /\ Goto(t, "support") /\ UNCHANGED <<statusVars, timer>>
         \/ t \notin Run /\ ReGetEnd(t)
<1> DEFINE W == Wanted(VciField, i, failIndex', t)
<1> HIDE DEF W
<1>1. W \in SUBSET (1 .. 4) /\ W \subseteq i .. 4 /\ (t \in Run => W = i .. 4)
  BY Questions, Threads DEF W, Wanted, Kind
<1>2. CASE isVCITimeout /\ (t \in Run \/ i <= Len(VciField))
  BY <1>2 DEF AskVci
<1>3. CASE ~(isVCITimeout /\ (t \in Run \/ i <= Len(VciField))) /\ W # {}
  <2>1. Goto(t, VciField[First(W)]) /\ UNCHANGED <<statusVars, timer>>
    BY <1>3 DEF AskVci, W
  <2>2. First(W) \in W /\ \A k \in W : First(W) <= k BY <1>1, <1>3, FirstIs
  <2>3. i <= 4
    <3>1. First(W) \in i .. 4 BY <1>1, <2>2
    <3> QED BY <3>1
  <2>4. ~isVCITimeout BY <1>3, <2>3, Questions
  <2>5. t \in Run => First(W) = i
    <3>1. ASSUME t \in Run PROVE i \in W /\ First(W) \in i .. 4 /\ First(W) <= i
      BY <1>1, <2>2, <2>3, <3>1
    <3> QED BY <3>1
  <2> QED BY <1>1, <2>1, <2>2, <2>4, <2>5
<1>4. CASE ~(isVCITimeout /\ (t \in Run \/ i <= Len(VciField))) /\ W = {}
  <2>1. t \in Run => i = 5 BY <1>1, <1>4
  <2> QED BY <1>4, <2>1 DEF AskVci, W
<1> QED BY <1>2, <1>3, <1>4

LEMMA AskVciType ==
  ASSUME AtType, StatusType, TimerType, NEW t \in Thread, t # "WIFI_TIMEOUT",
         NEW i \in 1 .. 5, AskVci(t, i)
  PROVE  AtType' /\ StatusType' /\ TimerType'
<1>1. {"idle", "support"} \cup VciValues \subseteq Places BY Questions DEF Places
<1>2. CASE /\ \E c \in {"idle", "support"} \cup VciValues : Goto(t, c)
           /\ UNCHANGED <<statusVars, timer>>
  <2>1. StatusType' /\ TimerType' BY <1>2 DEF StatusType, TimerType, statusVars
  <2> QED BY <1>1, <1>2, <2>1, GotoType, Questions
<1>3. CASE ReGetEnd(t) BY <1>3, ReGetEndType
<1>4. \A j \in i .. 4 : VciField[j] \in VciValues BY Questions
<1> QED BY <1>2, <1>3, <1>4, AskVciDoes

LEMMA GetMT7628IsReadyType ==
  ASSUME AtType, TimerType, NEW t \in Thread, t # "WIFI_TIMEOUT", GetMT7628IsReady(t)
  PROVE  AtType' /\ TimerType'
<1>1. "ready" \in Places /\ "WIFI_TIMEOUT" \in Kind /\ WifiLimit \in 0 .. WifiLimit
  BY Delays DEF Places, Kind
<1>2. CASE isWIFITimeout
  BY <1>2, GotoType, RestPlace DEF GetMT7628IsReady, TimerType
<1>3. CASE ~isWIFITimeout
  BY <1>1, <1>3, GotoType, ArmType DEF GetMT7628IsReady
<1> QED BY <1>2, <1>3

(* What AskWifi comes to. *)
LEMMA AskWifiDoes ==
  ASSUME NEW t \in Thread, NEW i \in 1 .. 4, AskWifi(t, i)
  PROVE  /\ UNCHANGED initStatus
         /\ \/ \E j \in 1 .. 3 : Goto(t, WifiField[j]) /\ UNCHANGED <<wifiInitStatus, timer>>
            \/ /\ Goto(t, Rest(t))
               /\ Arm("REGET_WIFI", RetryDelay) /\ UNCHANGED wifiInitStatus
            \/ /\ Goto(t, Rest(t))
               /\ wifiInitStatus' \in {"FAIL", "SUCCESS"} /\ UNCHANGED timer
<1> DEFINE W == Wanted(WifiField, i, wifiFailIndex', t)
<1> HIDE DEF W
<1>1. W \in SUBSET (1 .. 3) BY Questions DEF W, Wanted
<1>2. CASE W # {}
  <2>1. First(W) \in 1 .. 3 BY <1>1, <1>2, FirstIs
  <2> QED BY <1>2, <2>1 DEF AskWifi, W
<1>3. CASE W = {} BY <1>3 DEF AskWifi, W
<1> QED BY <1>2, <1>3

LEMMA AskWifiType ==
  ASSUME AtType, StatusType, TimerType, NEW t \in Thread, t # "WIFI_TIMEOUT",
         NEW i \in 1 .. 4, AskWifi(t, i)
  PROVE  AtType' /\ StatusType' /\ TimerType'
<1>1. \A j \in 1 .. 3 : WifiField[j] \in Places /\ WifiField[j] \notin {"new", "after"}
  BY Questions DEF Places
<1>2. "REGET_WIFI" \in Kind BY DEF Kind
<1>3. StatusType' BY AskWifiDoes DEF StatusType
<1>4. TimerType' BY <1>2, AskWifiDoes, ArmType, Delays DEF TimerType
<1>5. AtType' BY <1>1, AskWifiDoes, GotoType, RestPlace
<1> QED BY <1>3, <1>4, <1>5

LEMMA GetMessageType == ASSUME TypeOK, NEW r \in Run, GetMessage(r) PROVE TypeOK'
<1>1. r \in Thread /\ r # "WIFI_TIMEOUT" /\ "sn" \in Places BY Threads, Questions DEF Kind, Places
<1>2. AtType' BY <1>1, TypeParts, GotoType DEF GetMessage
<1>3. TimerType' BY Delays DEF GetMessage, TimerType
<1>4. StatusType' BY DEF GetMessage, StatusType
<1>5. value' \in [Field -> BOOLEAN] BY Questions, TypeParts DEF GetMessage
<1> QED BY <1>2, <1>3, <1>4, <1>5, TypeParts DEF GetMessage, TypeOK

LEMMA AnswerVciType ==
  ASSUME TypeOK, NEW t \in Thread, t # "WIFI_TIMEOUT",
         NEW i \in DOMAIN VciField, NEW ok \in BOOLEAN, AnswerVci(t, i, ok)
  PROVE  TypeOK'
<1>1. i + 1 \in 1 .. 5 /\ VciField[i] \in VciValues BY Questions
<1>2. AtType' /\ StatusType' /\ TimerType' BY <1>1, TypeParts, AskVciType DEF AnswerVci
<1>3. Bit[VciField[i]] \in {1, 2, 4, 8} BY <1>1, Questions, Bits
<1>4. value' \in [Field -> BOOLEAN] /\ failIndex' \subseteq {1, 2, 4, 8}
  BY <1>3, TypeParts DEF AnswerVci
<1> QED BY <1>2, <1>4, TypeParts DEF AnswerVci, wifiVars

LEMMA AnswerWifiType ==
  ASSUME TypeOK, NEW t \in Thread, t # "WIFI_TIMEOUT",
         NEW i \in DOMAIN WifiField, NEW ok \in BOOLEAN, AnswerWifi(t, i, ok)
  PROVE  TypeOK'
<1>1. i + 1 \in 1 .. 4 BY Questions
<1>2. AtType' /\ StatusType' /\ TimerType' BY <1>1, TypeParts, AskWifiType DEF AnswerWifi
<1>3. Bit[WifiField[i]] \in {1, 2, 4, 8} BY Questions, Bits
<1>4. /\ value' \in [Field -> BOOLEAN]
      /\ failIndex' \subseteq {1, 2, 4, 8} /\ wifiFailIndex' \subseteq {1, 2, 4, 8}
  BY <1>3, TypeParts DEF AnswerWifi
<1> QED BY <1>2, <1>4, TypeParts DEF AnswerWifi

LEMMA ReturnType ==
  ASSUME TypeOK, NEW t \in Thread, Return(t)
  PROVE  TypeOK'
<1>0. at[t] # "idle" BY Questions DEF Return, AnswerVci, AnswerSupport, AnswerBoot, AnswerPins,
                          AnswerWifiBoot, AnswerReady, AnswerWifi
<1>1. t # "WIFI_TIMEOUT" BY <1>0, TypeParts DEF AtType
<1>2. ASSUME NEW i \in DOMAIN VciField, NEW ok \in BOOLEAN, AnswerVci(t, i, ok) PROVE TypeOK'
  BY <1>1, <1>2, AnswerVciType
<1>3. ASSUME NEW yes \in BOOLEAN, AnswerSupport(t, yes) PROVE TypeOK'
  <2>1. AtType' BY <1>1, <1>3, TypeParts, GotoType DEF AnswerSupport, Places
  <2> QED BY <1>3, <2>1, TypeParts
        DEF AnswerSupport, statusVars, wifiVars, StatusType, TimerType
<1>4. ASSUME NEW boot \in BOOLEAN, AnswerBoot(t, boot) PROVE TypeOK'
  <2>1. CASE boot
    <3>1. AtType' /\ StatusType' /\ TimerType' BY <1>1, <1>4, <2>1, TypeParts, MessageEndType DEF AnswerBoot
    <3> QED BY <1>4, <3>1, TypeParts DEF AnswerBoot, vciVars, wifiVars
  <2>2. CASE ~boot
    <3>1. AtType' BY <1>1, <1>4, <2>2, TypeParts, GotoType DEF AnswerBoot, Places
    <3> QED BY <1>4, <2>2, <3>1, TypeParts
          DEF AnswerBoot, vciVars, wifiVars, statusVars, StatusType, TimerType
  <2> QED BY <2>1, <2>2
<1>5. CASE AnswerPins(t)
  <2>1. AtType' /\ StatusType' /\ TimerType' BY <1>1, <1>5, TypeParts, MessageEndType DEF AnswerPins
  <2> QED BY <1>5, <2>1, TypeParts DEF AnswerPins, vciVars, wifiVars
<1>6. ASSUME NEW boot \in BOOLEAN, AnswerWifiBoot(t, boot) PROVE TypeOK'
  <2>1. AtType' /\ TimerType'
    BY <1>1, <1>6, TypeParts, GotoType, RestPlace, GetMT7628IsReadyType DEF AnswerWifiBoot, TimerType
  <2>2. StatusType' BY <1>6, TypeParts DEF AnswerWifiBoot, StatusType
  <2> QED BY <1>6, <2>1, <2>2, TypeParts DEF AnswerWifiBoot, vciVars, wifiVars
<1>7. ASSUME NEW ready \in BOOLEAN, AnswerReady(t, ready) PROVE TypeOK'
  <2>1. "WIFI_REGET_ALREADY" \in Kind /\ "os" \in Places BY Questions DEF Kind, Places
  <2>2. AtType' BY <1>1, <1>7, <2>1, TypeParts, GotoType, RestPlace DEF AnswerReady
  <2>3. TimerType'
    BY <1>7, <2>1, TypeParts, CancelType, ArmType, Delays DEF AnswerReady, TimerType
  <2>4. StatusType' /\ wifiReGetCount' \in Nat
    BY <1>7, TypeParts DEF AnswerReady, statusVars, StatusType
  <2> QED BY <1>7, <2>2, <2>3, <2>4, TypeParts DEF AnswerReady, vciVars
<1>8. ASSUME NEW i \in DOMAIN WifiField, NEW ok \in BOOLEAN, AnswerWifi(t, i, ok) PROVE TypeOK'
  BY <1>1, <1>8, AnswerWifiType
<1> QED BY <1>2, <1>3, <1>4, <1>5, <1>6, <1>7, <1>8 DEF Return

LEMMA HandlerType == ASSUME TypeOK, Handler PROVE TypeOK'
<1> USE TypeParts
<1>0. /\ {"REGET_MESSAGE", "MESSAGE_TIMEOUT", "WIFI_REGET_ALREADY", "REGET_WIFI"} \subseteq Thread
      /\ {"idle", "ready"} \cup VciValues \cup {"os", "app", "wifiType"} \subseteq Places
      /\ Kind \subseteq Thread
  BY Threads, Questions DEF Kind, Places
<1>1. CASE ReGetMessage
  <2> DEFINE W == Wanted(VciField, 1, failIndex, "REGET_MESSAGE")
  <2> HIDE DEF W
  <2>1. W \in SUBSET (1 .. 4) BY Questions DEF W, Wanted
  <2>2. TimerType' BY <1>1, StopType DEF ReGetMessage, Kind
  <2>3. AtType' /\ StatusType'
    <3>1. CASE W # {} \/ isVCITimeout
      <4>1. W # {} => First(W) \in 1 .. 4 BY <2>1, FirstIs
      <4>2. PICK c \in {"idle"} \cup VciValues : Goto("REGET_MESSAGE", c) /\ UNCHANGED statusVars
        BY <1>1, <3>1, <4>1, Questions DEF ReGetMessage, W
      <4>3. c \notin {"new", "after"} BY Questions
      <4> QED BY <1>0, <4>2, <4>3, GotoType DEF StatusType, statusVars
    <3>2. CASE ~(W # {} \/ isVCITimeout)
      BY <1>0, <1>1, <3>2, SetInitStatusType DEF ReGetMessage, W
    <3> QED BY <3>1, <3>2
  <2> QED BY <1>1, <2>2, <2>3 DEF ReGetMessage, wifiVars
<1>2. CASE ReGetMessageReturns
  <2>1. AtType' BY <1>0, <1>2, GotoType DEF ReGetMessageReturns
  <2> QED BY <1>2, <2>1 DEF ReGetMessageReturns, statusVars, wifiVars, StatusType, TimerType
<1>3. CASE VciInitTimeOut
  <2>1. TimerType' BY <1>3, StopType DEF VciInitTimeOut, Kind
  <2>2. AtType' /\ StatusType' /\ isVCITimeout' \in BOOLEAN
    <3>1. CASE initStatus = "ING" BY <1>0, <1>3, <3>1, SetInitStatusType DEF VciInitTimeOut
    <3>2. CASE initStatus # "ING" BY <1>3, <3>2 DEF VciInitTimeOut, AtType, StatusType, statusVars
    <3> QED BY <3>1, <3>2
  <2> QED BY <1>3, <2>1, <2>2 DEF VciInitTimeOut, wifiVars
<1>4. CASE VciInitTimeOutReturns
  <2>1. AtType' /\ TimerType' BY <1>0, <1>4, GotoType, CancelType DEF VciInitTimeOutReturns
  <2> QED BY <1>4, <2>1 DEF VciInitTimeOutReturns, statusVars, wifiVars, StatusType
<1>5. CASE Poll
  <2>1. TimerType' BY <1>5, Delays DEF Poll, TimerType
  <2>2. AtType' BY <1>0, <1>5, GotoType DEF Poll, AtType
  <2> QED BY <1>5, <2>1, <2>2 DEF Poll, statusVars, vciVars, wifiVars, StatusType
<1>6. CASE WifiIsReadyTimeOut
  <2>1. TimerType' BY <1>6, CancelType DEF WifiIsReadyTimeOut
  <2> QED BY <1>6, <2>1 DEF WifiIsReadyTimeOut, vciVars, StatusType, AtType
<1>7. CASE ReGetWifiMessage
  <2> DEFINE W == Wanted(WifiField, 1, wifiFailIndex, "REGET_WIFI")
  <2> HIDE DEF W
  <2>1. W \in SUBSET (1 .. 3) BY Questions DEF W, Wanted
  <2>2. TimerType' BY <1>7, StopType DEF ReGetWifiMessage, Kind
  <2>3. AtType' /\ StatusType'
    <3>1. CASE W # {}
      <4>1. First(W) \in 1 .. 3 BY <2>1, <3>1, FirstIs
      <4>2. PICK c \in {"os", "app", "wifiType"} : Goto("REGET_WIFI", c) /\ UNCHANGED wifiInitStatus
        BY <1>7, <3>1, <4>1, Questions DEF ReGetWifiMessage, W
      <4> QED BY <1>0, <1>7, <4>2, GotoType DEF ReGetWifiMessage, StatusType
    <3>2. CASE W = {}
      BY <1>7, <3>2 DEF ReGetWifiMessage, W, AtType, StatusType
    <3> QED BY <3>1, <3>2
  <2> QED BY <1>7, <2>2, <2>3 DEF ReGetWifiMessage, vciVars
<1> QED BY <1>1, <1>2, <1>3, <1>4, <1>5, <1>6, <1>7 DEF Handler

LEMMA TypeNext == ASSUME TypeOK, [Next]_vars PROVE TypeOK'
<1>1. ASSUME NEW r \in Run, GetMessage(r) PROVE TypeOK' BY <1>1, GetMessageType
<1>2. ASSUME NEW t \in Thread, Return(t) PROVE TypeOK' BY <1>2, ReturnType
<1>3. CASE Handler BY <1>3, HandlerType
<1>4. CASE Tick
  <2>1. TimerType'
    <3>1. ASSUME NEW k \in Kind PROVE timer'[k] \in 0 .. Off
      BY <1>4, Delays, TypeParts DEF Tick, TimerType
    <3> QED BY <1>4, <3>1 DEF Tick, TimerType
  <2> QED BY <1>4, <2>1, TypeParts
        DEF Tick, statusVars, vciVars, wifiVars, StatusType, AtType
<1>5. CASE UNCHANGED vars
  BY <1>5 DEF vars, statusVars, vciVars, wifiVars, TypeOK
<1> QED BY <1>1, <1>2, <1>3, <1>4, <1>5 DEF Next

LEMMA TypeInit == Init => TypeOK
<1> SUFFICES ASSUME Init PROVE TypeOK OBVIOUS
<1>1. AtType
  <2>1. "WIFI_TIMEOUT" \in Kind BY DEF Kind
  <2> QED BY <2>1, Threads DEF Init, AtType, Places
<1>2. TimerType BY Delays DEF Init, TimerType
<1>3. StatusType BY DEF Init, StatusType
<1> QED BY <1>1, <1>2, <1>3, TypeParts DEF Init

\* The variables of TDD_VCIInitializeModel, its timers and its threads keep their
\* types, for any number of connections and any time limits in their order.
THEOREM TypeCorrect == Spec => []TypeOK
<1> QED BY TypeInit, TypeNext, PTL DEF Spec
-----------------------------------------------------------------------------
(* A single run: who asks, and what is known.                              *)

LEMMA Begun ==
  ASSUME OneRun, VciInv,
         \/ \E t \in Thread : at[t] \notin {"new", "idle"}
         \/ \E k \in Kind : timer[k] # Off
  PROVE  \A r \in Run : at[r] # "new"
BY Threads DEF OneRun, VciInv, Fresh

LEMMA OnlyAsker ==
  ASSUME OneRun, VciInv, NEW t \in Thread, at[t] \in VciCalls
  PROVE  /\ ~Retrying
         /\ \A u \in Thread : u # t => at[u] \notin VciCalls
         /\ t \in Run \/ (t = "REGET_MESSAGE" /\ at[t] \in VciValues)
<1>1. t \in Run \/ (t = "REGET_MESSAGE" /\ at[t] \in VciValues)
  BY Threads DEF VciInv, Askers
<1>2. ~Retrying BY <1>1 DEF VciInv, Turns
<1>3. ASSUME NEW u \in Thread, u # t, at[u] \in VciCalls PROVE FALSE
  <2>1. u \in Run \/ (u = "REGET_MESSAGE" /\ at[u] \in VciValues)
    BY <1>3, Threads DEF VciInv, Askers
  <2> QED BY <1>1, <1>3, <2>1 DEF OneRun, VciInv, Turns
<1> QED BY <1>1, <1>2, <1>3

(* No two values share a place or a bit. *)
LEMMA Distinct ==
  ASSUME NEW i \in 1 .. 4, NEW j \in 1 .. 4, i # j
  PROVE  VciField[i] # VciField[j] /\ Bit[VciField[i]] # Bit[VciField[j]]
BY Questions, Bits

(* Steps that leave the questions to the VCI alone. *)
LEMMA LeavesVci ==
  ASSUME IInv,
         \A r \in Run : at[r] # "new",
         UNCHANGED <<initStatus, isSupportMT7628, isVCITimeout>>,
         isSupportMT7628 \/ UNCHANGED <<value, failIndex>>,
         timer'["REGET_MESSAGE"] \in {timer["REGET_MESSAGE"], Off},
         \/ isSupportMT7628
         \/ \A k \in {"REGET_WIFI", "WIFI_REGET_ALREADY"} : timer'[k] \in {timer[k], Off},
         \A u \in Thread :
           \/ at'[u] = at[u]
           \/ /\ at[u] \notin VciCalls
              /\ at'[u] \notin VciCalls \cup {"new"}
              /\ at'[u] \in WifiCalls => isSupportMT7628
  PROVE  VciInv'
<1> USE DEF IInv, VciInv
<1>0. Run \subseteq Thread /\ Kind \subseteq Thread /\ "REGET_MESSAGE" \in Thread
  BY Threads DEF Kind
<1>1. \A u \in Thread : at'[u] \in VciCalls <=> at[u] \in VciCalls /\ at'[u] = at[u]
  OBVIOUS
<1>2. Retrying' => Retrying BY DEF Retrying
<1>3. Busy' => Busy BY <1>1, <1>2 DEF Busy
<1>4. VciValues \subseteq VciCalls /\ "support" \in VciCalls BY DEF VciCalls
<1>5. Fresh' BY <1>0, <1>1 DEF Fresh
<1>6. Askers' BY <1>0, <1>1 DEF Askers
<1>7. Turns' BY <1>0, <1>1, <1>2, <1>4 DEF Turns
<1>8. Undecided' BY <1>3 DEF Undecided
<1>9. NotYet' BY <1>0, <1>1, <1>4 DEF NotYet
<1>10. WifiSupported' BY DEF WifiSupported
<1>11. Known'
  <2>1. SUFFICES ASSUME Busy', ~isSupportMT7628', NEW i \in DOMAIN VciField
                 PROVE  \/ value'[VciField[i]]
                        \/ Bit[VciField[i]] \in failIndex'
                        \/ \E r \in Run, j \in 1 .. i : at'[r] = VciField[j]
    BY DEF Known
  <2>2. \/ value[VciField[i]]
        \/ Bit[VciField[i]] \in failIndex
        \/ \E r \in Run, j \in 1 .. i : at[r] = VciField[j]
    BY <1>3, <2>1 DEF Known
  <2>3. ASSUME NEW r \in Run, NEW j \in 1 .. i, at[r] = VciField[j] PROVE at'[r] = VciField[j]
    <3>1. VciField[j] \in VciCalls BY <1>4, Questions
    <3> QED BY <1>0, <2>3, <3>1
  <2> QED BY <2>1, <2>2, <2>3
<1>12. SuccessComplete' BY DEF SuccessComplete
<1> QED BY <1>5, <1>6, <1>7, <1>8, <1>9, <1>10, <1>11, <1>12

(* Steps by which whoever asks the VCI stops; nobody is busy afterwards. *)
LEMMA StopsBeingBusy ==
  ASSUME IInv, OneRun,
         NEW t \in Thread, at[t] \in VciCalls,
         NEW c, Goto(t, c), c \notin VciCalls \cup {"new"}, c \in WifiCalls => isSupportMT7628,
         UNCHANGED <<isSupportMT7628, timer>>,
         SuccessComplete'
  PROVE  VciInv'
<1> USE DEF IInv, VciInv
<1>0. Run \subseteq Thread /\ Kind \subseteq Thread /\ "REGET_MESSAGE" \in Thread
  BY Threads DEF Kind
<1>1. /\ \A u \in Thread : at'[u] = IF u = t THEN c ELSE at[u]
  BY TypeParts DEF Goto, AtType
<1>2. \A u \in Thread : at'[u] \notin VciCalls BY <1>1, OnlyAsker
<1>3. VciValues \subseteq VciCalls /\ "support" \in VciCalls BY DEF VciCalls
<1>4. at[t] \notin {"new", "idle"} BY Questions DEF VciCalls
<1>5. \A r \in Run : at[r] # "new" BY <1>4, Begun
<1>6. ~Busy'
  <2>1. ~Retrying' BY OnlyAsker DEF Retrying
  <2> QED BY <1>2, <2>1 DEF Busy
<1>7. Fresh' BY <1>0, <1>1, <1>5 DEF Fresh
<1>8. Askers' /\ Turns' /\ NotYet' BY <1>0, <1>2, <1>3 DEF Askers, Turns, NotYet
<1>9. Undecided' /\ Known' BY <1>6 DEF Undecided, Known
<1>10. WifiSupported' BY <1>1 DEF WifiSupported
<1> QED BY <1>7, <1>8, <1>9, <1>10

(* The ends of getMessage and reGetMessage. *)
LEMMA Outcome ==
  ASSUME IInv, OneRun,
         NEW t \in Thread, at[t] \in VciCalls,
         NEW status \in {"SUCCESS", "FAIL"}, SetInitStatus(t, status),
         UNCHANGED <<isSupportMT7628, timer>>,
         status = "SUCCESS" /\ ~isSupportMT7628 => \A f \in VciValues : value'[f]
  PROVE  VciInv'
<1>1. SuccessComplete' BY DEF SetInitStatus, SuccessComplete
<1>2. Goto(t, Rest(t)) \/ (Goto(t, "wifiBoot") /\ isSupportMT7628) BY DEF SetInitStatus
<1>3. /\ Rest(t) \notin VciCalls \cup {"new"} \cup WifiCalls
      /\ "wifiBoot" \notin VciCalls \cup {"new"}
  BY Questions DEF VciCalls, WifiCalls, Rest
<1> QED BY <1>1, <1>2, <1>3, StopsBeingBusy

LEMMA Rearmed ==
  ASSUME IInv, OneRun,
         NEW t \in Thread, at[t] \in VciCalls,
         Arm("REGET_MESSAGE", RetryDelay), Goto(t, "idle"),
         UNCHANGED <<statusVars, isSupportMT7628, isVCITimeout>>,
         ~isSupportMT7628 =>
           \A k \in 1 .. 4 : value'[VciField[k]] \/ Bit[VciField[k]] \in failIndex'
  PROVE  VciInv'
<1> USE DEF IInv, VciInv
<1>0. Run \subseteq Thread /\ Kind \subseteq Thread /\ "REGET_MESSAGE" \in Thread
  BY Threads DEF Kind
<1>1. \A u \in Thread : at'[u] = IF u = t THEN "idle" ELSE at[u]
  BY TypeParts DEF Goto, AtType
<1>2. "idle" \notin VciCalls \cup WifiCalls \cup {"new"} BY Questions DEF VciCalls, WifiCalls
<1>3. \A u \in Thread : at'[u] \notin VciCalls BY <1>1, <1>2, OnlyAsker
<1>4. VciValues \subseteq VciCalls /\ "support" \in VciCalls BY DEF VciCalls
<1>5. at[t] \notin {"new", "idle"} BY Questions DEF VciCalls
<1>6. \A r \in Run : at[r] # "new" BY <1>5, Begun
<1>7. Busy BY DEF Busy
<1>8. initStatus' = initStatus BY DEF statusVars
<1>9. Fresh' BY <1>0, <1>1, <1>2, <1>6 DEF Fresh
<1>10. Askers' /\ Turns' /\ NotYet' BY <1>0, <1>3, <1>4 DEF Askers, Turns, NotYet
<1>11. Undecided' BY <1>7, <1>8 DEF Undecided
<1>12. WifiSupported'
  <2>1. timer'["REGET_WIFI"] = timer["REGET_WIFI"]
        /\ timer'["WIFI_REGET_ALREADY"] = timer["WIFI_REGET_ALREADY"]
    BY TypeParts DEF Arm, TimerType, Kind
  <2> QED BY <1>1, <1>2, <2>1 DEF WifiSupported
<1>13. Known' BY Questions DEF Known
<1>14. SuccessComplete' BY <1>7, <1>8 DEF Undecided, SuccessComplete
<1> QED BY <1>9, <1>10, <1>11, <1>12, <1>13, <1>14

(* An answer leaves nothing unknown that is not still to be asked for. *)
LEMMA AnswerNoted ==
  ASSUME IInv, OneRun, NEW t \in Thread, NEW i \in 1 .. 4, NEW ok \in BOOLEAN,
         AnswerVci(t, i, ok), ~isSupportMT7628, NEW k \in 1 .. 4
  PROVE  \/ value'[VciField[k]]
         \/ Bit[VciField[k]] \in failIndex'
         \/ t \in Run /\ i < k
<1>1. VciField[i] \in VciCalls /\ VciField[i] \in Field /\ VciField[k] \in Field
  BY Questions DEF VciCalls
<1>2. at[t] = VciField[i] BY DEF AnswerVci
<1>3. CASE k = i BY <1>1, <1>3, TypeParts DEF AnswerVci, IInv
<1>4. CASE k # i
  <2>1. /\ value'[VciField[k]] = value[VciField[k]]
        /\ Bit[VciField[k]] \in failIndex => Bit[VciField[k]] \in failIndex'
    BY <1>1, <1>4, Distinct, TypeParts DEF AnswerVci, IInv
  <2>2. Busy BY <1>1, <1>2 DEF Busy
  <2>3. \/ value[VciField[k]]
        \/ Bit[VciField[k]] \in failIndex
        \/ \E r \in Run, j \in 1 .. k : at[r] = VciField[j]
    BY <2>2, Questions DEF IInv, VciInv, Known
  <2>4. ASSUME NEW r \in Run, NEW j \in 1 .. k, at[r] = VciField[j] PROVE t \in Run /\ i < k
    <3>1. VciField[j] \in VciCalls /\ r \in Thread BY Questions, Threads DEF VciCalls
    <3>2. r = t BY <1>1, <1>2, <2>4, <3>1, OnlyAsker DEF IInv
    <3>3. j = i BY <1>2, <2>4, <3>2, Distinct
    <3> QED BY <1>4, <3>2, <3>3
  <2> QED BY <2>1, <2>3, <2>4
<1> QED BY <1>3, <1>4

LEMMA AnswerVciKeeps ==
  ASSUME IInv, OneRun, NEW t \in Thread, NEW i \in 1 .. 4, NEW ok \in BOOLEAN,
         AnswerVci(t, i, ok)
  PROVE  VciInv'
<1> USE DEF IInv, VciInv
<1>0. Run \subseteq Thread /\ Kind \subseteq Thread /\ "REGET_MESSAGE" \in Thread
  BY Threads DEF Kind
<1>1. at[t] \in VciCalls /\ at[t] = VciField[i] /\ at[t] \in VciValues
  BY Questions DEF AnswerVci, VciCalls
<1>2. VciValues \subseteq VciCalls /\ "support" \in VciCalls BY DEF VciCalls
<1>3. Busy BY <1>1 DEF Busy
<1>4. at[t] \notin {"new", "idle"} BY <1>1, Questions
<1>5. \A r \in Run : at[r] # "new" BY <1>4, Begun
<1>6. UNCHANGED <<isSupportMT7628, isVCITimeout>> BY DEF AnswerVci
<1>7. i + 1 \in 1 .. 5 /\ AskVci(t, i + 1) BY DEF AnswerVci
<1>8. CASE Goto(t, "idle") /\ UNCHANGED <<statusVars, timer>>
  <2>1. SuccessComplete' BY <1>3, <1>8 DEF Undecided, SuccessComplete, statusVars
  <2>2. "idle" \notin VciCalls \cup WifiCalls \cup {"new"} BY Questions DEF VciCalls, WifiCalls
  <2> QED BY <1>1, <1>6, <1>8, <2>1, <2>2, StopsBeingBusy
<1>9. ASSUME NEW c \in VciValues \cup {"support"}, Goto(t, c), UNCHANGED <<statusVars, timer>>,
             c \in VciValues \/ t \in Run,
             t \in Run /\ i < 4 => c = VciField[i + 1]
      PROVE  VciInv'
  <2>1. \A u \in Thread : at'[u] = IF u = t THEN c ELSE at[u]
    BY <1>9, TypeParts DEF Goto, AtType
  <2>2. \A u \in Thread : u # t => at'[u] \notin VciCalls BY <2>1, <1>1, OnlyAsker
  <2>3. t \in Run \/ t = "REGET_MESSAGE" BY <1>1, OnlyAsker
  <2>4. c \notin WifiCalls \cup {"new", "idle"} BY Questions DEF WifiCalls
  <2>5. initStatus' = initStatus /\ timer' = timer BY <1>9 DEF statusVars
  <2>6. ~Retrying' BY <1>1, <2>5, OnlyAsker DEF Retrying
  <2>7. Fresh' BY <1>0, <1>5, <2>1, <2>4 DEF Fresh
  <2>8. Askers' BY <1>0, <1>9, <2>2, <2>1, <2>3, Threads DEF Askers
  <2>9. Turns' BY <1>0, <1>2, <2>2, <2>3, <2>6, Threads DEF Turns, Kind
  <2>10. Undecided' BY <1>3, <1>6, <2>5 DEF Undecided
  <2>11. NotYet'
    <3>1. ASSUME NEW r \in Run, at'[r] \in VciValues \cup {"support"} PROVE ~isSupportMT7628'
      <4>1. r = t BY <1>0, <1>2, <2>2, <3>1
      <4> QED BY <1>1, <1>6, <4>1 DEF NotYet
    <3> QED BY <3>1 DEF NotYet
  <2>12. WifiSupported' BY <1>6, <2>1, <2>4, <2>5 DEF WifiSupported
  <2>13. Known'
    <3>1. SUFFICES ASSUME ~isSupportMT7628', NEW k \in 1 .. 4
                   PROVE  \/ value'[VciField[k]]
                          \/ Bit[VciField[k]] \in failIndex'
                          \/ \E r \in Run, j \in 1 .. k : at'[r] = VciField[j]
      BY Questions DEF Known
    <3>2. ASSUME t \in Run, i < k PROVE \E r \in Run, j \in 1 .. k : at'[r] = VciField[j]
      <4>1. at'[t] = VciField[i + 1] /\ i + 1 \in 1 .. k BY <1>9, <2>1, <3>2
      <4> QED BY <3>2, <4>1
    <3> QED BY <1>6, <3>1, <3>2, AnswerNoted
  <2>14. SuccessComplete' BY <1>3, <2>5 DEF Undecided, SuccessComplete
  <2> QED BY <2>7, <2>8, <2>9, <2>10, <2>11, <2>12, <2>13, <2>14
<1>10. CASE t \notin Run /\ ReGetEnd(t)
  <2>1. ~isSupportMT7628 =>
          \A k \in 1 .. 4 : value'[VciField[k]] \/ Bit[VciField[k]] \in failIndex'
    BY <1>10, AnswerNoted
  <2>2. CASE failIndex' # {} /\ reGetCount' < 3
    BY <1>1, <1>6, <1>10, <2>1, <2>2, Rearmed DEF ReGetEnd
  <2>3. CASE ~(failIndex' # {} /\ reGetCount' < 3)
    <3> DEFINE status == IF failIndex' # {} THEN "FAIL" ELSE "SUCCESS"
    <3>1. SetInitStatus(t, status) /\ UNCHANGED timer BY <1>10, <2>3 DEF ReGetEnd
    <3>2. status = "SUCCESS" /\ ~isSupportMT7628 => \A f \in VciValues : value'[f]
      BY <2>1, Questions
    <3>3. status \in {"SUCCESS", "FAIL"} OBVIOUS
    <3> HIDE DEF status
    <3> QED BY <1>1, <1>6, <3>1, <3>2, <3>3, Outcome
  <2> QED BY <2>2, <2>3
<1>11. ASSUME NEW j \in i + 1 .. 4, Goto(t, VciField[j]), t \in Run => j = i + 1,
              UNCHANGED <<statusVars, timer>>
       PROVE  VciInv'
  BY <1>9, <1>11, Questions
<1>12. CASE t \in Run /\ i + 1 = 5 /\ Goto(t, "support") /\ UNCHANGED <<statusVars, timer>>
  BY <1>9, <1>12
<1> QED BY <1>7, <1>8, <1>10, <1>11, <1>12, AskVciDoes

LEMMA GetMessageKeeps == ASSUME IInv, OneRun, NEW r \in Run, GetMessage(r) PROVE VciInv'
<1> USE DEF IInv, VciInv
<1>0. Run \subseteq Thread /\ Kind \subseteq Thread /\ "REGET_MESSAGE" \in Kind
      /\ r \notin Kind /\ "REGET_WIFI" \in Kind /\ "WIFI_REGET_ALREADY" \in Kind
  BY Threads DEF Kind
<1>1. /\ at[r] = "new" /\ at'[r] = "sn"
      /\ \A u \in Thread : u # r => at'[u] = at[u]
  BY <1>0, TypeParts DEF GetMessage, Goto, AtType
<1>2. \A k \in Kind : at'[k] = "idle" BY <1>0, <1>1 DEF Fresh
<1>3. \A u \in Thread : u # r => at'[u] = "idle" BY <1>0, <1>2, Threads DEF OneRun
<1>4. "sn" \in VciValues /\ "sn" \in VciCalls BY Questions DEF VciCalls
<1>5. "idle" \notin VciCalls \cup WifiCalls /\ "sn" \notin WifiCalls \cup {"new"}
  BY Questions DEF VciCalls, WifiCalls
<1>6. VciValues \subseteq VciCalls BY DEF VciCalls
<1>7. ~Retrying' BY <1>0, Delays DEF Retrying, GetMessage
<1>8. Fresh'
  <2>1. \A u \in Run : at'[u] # "new" BY <1>0, <1>1, <1>3, <1>5
  <2> QED BY <2>1 DEF Fresh
<1>9. Askers' BY <1>2, <1>5 DEF Askers
<1>10. Turns' BY <1>0, <1>2, <1>5, <1>6, <1>7 DEF Turns
<1>11. Undecided' BY DEF Undecided, GetMessage
<1>12. NotYet' BY DEF NotYet, GetMessage
<1>13. WifiSupported' BY <1>0, <1>1, <1>3, <1>5 DEF WifiSupported, GetMessage
<1>14. Known'
  <2>1. \A k \in 1 .. 4 : 1 \in 1 .. k /\ at'[r] = VciField[1] BY <1>1, Questions
  <2> QED BY <2>1, Questions DEF Known
<1>15. SuccessComplete' BY DEF SuccessComplete, GetMessage
<1> QED BY <1>8, <1>9, <1>10, <1>11, <1>12, <1>13, <1>14, <1>15

(* With no value being asked for, what is not known is noted as failed. *)
LEMMA NotedOrKnown ==
  ASSUME IInv, Busy, ~isSupportMT7628, \A r \in Run : at[r] \notin VciValues
  PROVE  \A k \in 1 .. 4 : value[VciField[k]] \/ Bit[VciField[k]] \in failIndex
<1> TAKE k \in 1 .. 4
<1>1. \/ value[VciField[k]]
      \/ Bit[VciField[k]] \in failIndex
      \/ \E r \in Run, j \in 1 .. k : at[r] = VciField[j]
  BY Questions DEF IInv, VciInv, Known
<1>2. \A j \in 1 .. k : VciField[j] \in VciValues BY Questions
<1> QED BY <1>1, <1>2

LEMMA MessageEndKeeps ==
  ASSUME IInv, OneRun, NEW t \in Thread, at[t] \in {"boot", "pins"}, MessageEnd(t),
         UNCHANGED <<value, vciVars>>
  PROVE  VciInv'
<1>1. at[t] \in VciCalls /\ at[t] \notin VciValues BY Questions DEF VciCalls
<1>2. Busy BY <1>1 DEF Busy
<1>3. \A r \in Run : at[r] \notin VciValues
  <2>1. VciValues \subseteq VciCalls BY DEF VciCalls
  <2> QED BY <1>1, <2>1, OnlyAsker, Threads DEF IInv
<1>4. UNCHANGED <<value, failIndex, isSupportMT7628, isVCITimeout>> BY DEF vciVars
<1>5. ~isSupportMT7628 => \A k \in 1 .. 4 : value[VciField[k]] \/ Bit[VciField[k]] \in failIndex
  BY <1>2, <1>3, NotedOrKnown
<1>6. CASE failIndex' # {}
  BY <1>1, <1>4, <1>5, <1>6, Rearmed DEF MessageEnd
<1>7. CASE failIndex' = {}
  <2>1. SetInitStatus(t, "SUCCESS") /\ UNCHANGED timer BY <1>7 DEF MessageEnd
  <2>2. ~isSupportMT7628 => \A f \in VciValues : value'[f] BY <1>4, <1>5, <1>7, Questions
  <2> QED BY <1>1, <1>4, <2>1, <2>2, Outcome
<1> QED BY <1>6, <1>7

LEMMA AnswerSupportKeeps ==
  ASSUME IInv, OneRun, NEW t \in Thread, NEW yes \in BOOLEAN, AnswerSupport(t, yes)
  PROVE  VciInv'
<1> USE DEF IInv, VciInv
<1>0. Run \subseteq Thread /\ Kind \subseteq Thread /\ "REGET_MESSAGE" \in Thread
  BY Threads DEF Kind
<1>1. at[t] = "support" /\ at[t] \in VciCalls /\ "boot" \in VciCalls
      /\ "support" \notin VciValues /\ "boot" \notin VciValues \cup WifiCalls \cup {"new", "support"}
  BY Questions DEF AnswerSupport, VciCalls, WifiCalls
<1>2. t \in Run /\ ~isSupportMT7628 BY <1>1, OnlyAsker DEF NotYet
<1>3. \A u \in Thread : at'[u] = IF u = t THEN "boot" ELSE at[u]
  BY TypeParts DEF AnswerSupport, Goto, AtType
<1>4. /\ UNCHANGED <<value, failIndex, isVCITimeout, initStatus, timer>>
      /\ isSupportMT7628' = yes
  BY DEF AnswerSupport, statusVars
<1>5. Busy BY <1>1 DEF Busy
<1>6. VciValues \subseteq VciCalls /\ "support" \in VciCalls BY DEF VciCalls
<1>7. \A u \in Thread : u # t => at'[u] \notin VciCalls BY <1>1, <1>3, OnlyAsker
<1>8. ~Retrying' BY <1>1, <1>4, OnlyAsker DEF Retrying
<1>9. t \notin Kind BY <1>2, Threads
<1>10. Fresh'
  <2>1. \A r \in Run : at[r] # "new" BY <1>1, Begun
  <2> QED BY <1>0, <1>1, <1>3, <2>1 DEF Fresh
<1>11. Askers' /\ Turns'
  BY <1>0, <1>6, <1>7, <1>8, <1>9 DEF Askers, Turns, Kind
<1>12. Undecided' BY <1>4, <1>5 DEF Undecided
<1>13. NotYet' BY <1>0, <1>1, <1>3, <1>6, <1>7 DEF NotYet
<1>14. WifiSupported' BY <1>1, <1>2, <1>3, <1>4 DEF WifiSupported
<1>15. Known'
  <2>1. \A r \in Run : at[r] \notin VciValues BY <1>0, <1>1, <1>6, OnlyAsker
  <2> QED BY <1>2, <1>4, <1>5, <2>1, NotedOrKnown, Questions DEF Known
<1>16. SuccessComplete' BY <1>4, <1>5 DEF Undecided, SuccessComplete
<1> QED BY <1>10, <1>11, <1>12, <1>13, <1>14, <1>15, <1>16

(* One thread goes from one place outside the questions to another. *)
LEMMA GoesElsewhere ==
  ASSUME IInv, NEW t \in Thread, NEW c, Goto(t, c), at[t] \notin VciCalls,
         c \notin VciCalls \cup {"new"}, c \in WifiCalls => isSupportMT7628
  PROVE  \A u \in Thread :
           \/ at'[u] = at[u]
           \/ /\ at[u] \notin VciCalls
              /\ at'[u] \notin VciCalls \cup {"new"}
              /\ at'[u] \in WifiCalls => isSupportMT7628
<1>1. \A u \in Thread : at'[u] = IF u = t THEN c ELSE at[u]
  BY TypeParts DEF Goto, AtType, IInv
<1> QED BY <1>1

LEMMA Elsewhere ==
  /\ VciCalls \cap (WifiCalls \cup {"new", "idle", "after"}) = {}
  /\ "new" \notin WifiCalls /\ "idle" \notin WifiCalls /\ "after" \notin WifiCalls
  /\ \A j \in 1 .. 3 : WifiField[j] \in WifiCalls
  /\ {"wifiBoot", "ready", "os"} \subseteq WifiCalls
BY Questions DEF VciCalls, WifiCalls

LEMMA WifiReturnKeeps ==
  ASSUME IInv, OneRun, NEW t \in Thread,
         \/ \E b \in BOOLEAN : AnswerWifiBoot(t, b) \/ AnswerReady(t, b)
         \/ \E i \in DOMAIN WifiField, ok \in BOOLEAN : AnswerWifi(t, i, ok)
  PROVE  VciInv'
<1>1. at[t] \in WifiCalls
  BY Questions, Elsewhere DEF AnswerWifiBoot, AnswerReady, AnswerWifi
<1>2. isSupportMT7628 BY <1>1 DEF IInv, VciInv, WifiSupported
<1>3. \A r \in Run : at[r] # "new"
  <2>1. at[t] \notin {"new", "idle"} BY <1>1, Elsewhere
  <2> QED BY <2>1, Begun DEF IInv
<1>4. at[t] \notin VciCalls BY <1>1, Elsewhere
<1>5. Rest(t) \notin VciCalls \cup {"new"} BY Elsewhere, RestPlace
<1>6. ASSUME NEW c \in WifiCalls \cup {Rest(t)}, Goto(t, c)
      PROVE  \A u \in Thread :
               \/ at'[u] = at[u]
               \/ /\ at[u] \notin VciCalls
                  /\ at'[u] \notin VciCalls \cup {"new"}
                  /\ at'[u] \in WifiCalls => isSupportMT7628
  BY <1>2, <1>4, <1>5, <1>6, Elsewhere, GoesElsewhere
<1>7. ASSUME NEW k \in Kind, NEW d, Arm(k, d), k # "REGET_MESSAGE"
      PROVE  timer'["REGET_MESSAGE"] = timer["REGET_MESSAGE"]
  BY <1>7, TypeParts DEF Arm, IInv, TimerType, Kind
<1>8. ASSUME NEW boot \in BOOLEAN, AnswerWifiBoot(t, boot) PROVE VciInv'
  <2>1. timer'["REGET_MESSAGE"] = timer["REGET_MESSAGE"]
    BY <1>7, <1>8 DEF AnswerWifiBoot, GetMT7628IsReady, Kind
  <2>2. \E c \in WifiCalls \cup {Rest(t)} : Goto(t, c)
    BY <1>8, Elsewhere DEF AnswerWifiBoot, GetMT7628IsReady
  <2>3. UNCHANGED <<initStatus, isSupportMT7628, isVCITimeout>>
    BY <1>8 DEF AnswerWifiBoot, vciVars
  <2> QED BY <1>2, <1>3, <1>6, <2>1, <2>2, <2>3, LeavesVci
<1>9. ASSUME NEW ready \in BOOLEAN, AnswerReady(t, ready) PROVE VciInv'
  <2>1. timer'["REGET_MESSAGE"] = timer["REGET_MESSAGE"]
    <3>1. "WIFI_REGET_ALREADY" \in Kind /\ "REGET_MESSAGE" \in Kind BY DEF Kind
    <3> QED BY <1>7, <1>9, <3>1 DEF AnswerReady, Cancel
  <2>2. \E c \in WifiCalls \cup {Rest(t)} : Goto(t, c)
    BY <1>9, Elsewhere DEF AnswerReady
  <2>3. UNCHANGED <<initStatus, isSupportMT7628, isVCITimeout>>
    BY <1>9 DEF AnswerReady, vciVars, statusVars
  <2> QED BY <1>2, <1>3, <1>6, <2>1, <2>2, <2>3, LeavesVci
<1>10. ASSUME NEW i \in DOMAIN WifiField, NEW ok \in BOOLEAN, AnswerWifi(t, i, ok) PROVE VciInv'
  <2>0. i + 1 \in 1 .. 4 /\ AskWifi(t, i + 1) BY <1>10, Questions DEF AnswerWifi
  <2>1. timer'["REGET_MESSAGE"] = timer["REGET_MESSAGE"]
    <3>1. "REGET_WIFI" \in Kind BY DEF Kind
    <3> QED BY <1>7, <2>0, <3>1, AskWifiDoes
  <2>2. \E c \in WifiCalls \cup {Rest(t)} : Goto(t, c)
    BY <2>0, Elsewhere, AskWifiDoes
  <2>3. UNCHANGED <<initStatus, isSupportMT7628, isVCITimeout>>
    BY <1>10, <2>0, AskWifiDoes DEF AnswerWifi
  <2> QED BY <1>2, <1>3, <1>6, <2>1, <2>2, <2>3, LeavesVci
<1> QED BY <1>8, <1>9, <1>10

LEMMA ReturnKeeps == ASSUME IInv, OneRun, NEW t \in Thread, Return(t) PROVE VciInv'
<1>1. ASSUME NEW i \in DOMAIN VciField, NEW ok \in BOOLEAN, AnswerVci(t, i, ok) PROVE VciInv'
  BY <1>1, AnswerVciKeeps, Questions
<1>2. ASSUME NEW yes \in BOOLEAN, AnswerSupport(t, yes) PROVE VciInv' BY <1>2, AnswerSupportKeeps
<1>3. ASSUME NEW boot \in BOOLEAN, AnswerBoot(t, boot) PROVE VciInv'
  <2>1. at[t] = "boot" /\ at[t] \in VciCalls BY <1>3 DEF AnswerBoot, VciCalls
  <2>2. UNCHANGED <<value, vciVars>> BY <1>3 DEF AnswerBoot
  <2>3. CASE boot BY <1>3, <2>1, <2>2, <2>3, MessageEndKeeps DEF AnswerBoot
  <2>4. CASE ~boot /\ isVCITimeout
    <3>1. Goto(t, "idle") /\ UNCHANGED <<statusVars, timer>> BY <1>3, <2>4 DEF AnswerBoot
    <3>2. Busy BY <2>1 DEF Busy
    <3>3. SuccessComplete' BY <3>1, <3>2 DEF IInv, VciInv, Undecided, SuccessComplete, statusVars
    <3> QED BY <2>1, <2>2, <3>1, <3>3, Elsewhere, StopsBeingBusy DEF vciVars
  <2>5. CASE ~boot /\ ~isVCITimeout
    <3> USE DEF IInv, VciInv
    <3>0. Run \subseteq Thread /\ Kind \subseteq Thread /\ "REGET_MESSAGE" \in Kind
      BY Threads DEF Kind
    <3>1. \A u \in Thread : at'[u] = IF u = t THEN "pins" ELSE at[u]
      BY <1>3, <2>5, TypeParts DEF AnswerBoot, Goto, AtType
    <3>2. UNCHANGED <<value, vciVars, statusVars, timer>> BY <1>3, <2>5 DEF AnswerBoot
    <3>3. "pins" \in VciCalls /\ "pins" \notin VciValues \cup WifiCalls \cup {"new", "support"}
      BY Questions DEF VciCalls, WifiCalls
    <3>4. \A u \in Thread : u # t => at[u] \notin VciCalls BY <2>1, OnlyAsker
    <3>5. t \in Run /\ ~Retrying
      <4>1. at[t] \notin VciValues BY <2>1, Questions
      <4> QED BY <2>1, <4>1, OnlyAsker
    <3>6. t \notin Kind BY <3>5, Threads
    <3>7. VciValues \subseteq VciCalls /\ "support" \in VciCalls BY DEF VciCalls
    <3>8. Busy BY <2>1 DEF Busy
    <3>9. Fresh'
      <4>1. \A r \in Run : at[r] # "new" BY <2>1, Begun
      <4> QED BY <3>0, <3>1, <3>3, <4>1 DEF Fresh
    <3>10. Askers' /\ Turns'
      BY <3>0, <3>1, <3>2, <3>4, <3>5, <3>6, <3>7 DEF Askers, Turns, Retrying
    <3>11. Undecided' /\ SuccessComplete'
      BY <3>2, <3>8 DEF Undecided, SuccessComplete, vciVars, statusVars
    <3>12. NotYet' BY <3>0, <3>1, <3>3, <3>4, <3>7 DEF NotYet
    <3>13. WifiSupported' BY <3>1, <3>2, <3>3 DEF WifiSupported, vciVars
    <3>14. Known'
      <4>1. \A r \in Run : at[r] \notin VciValues
        BY <2>1, <3>0, <3>4, <3>7, Questions
      <4> QED BY <3>2, <3>8, <4>1, NotedOrKnown, Questions DEF Known, vciVars
    <3> QED BY <3>9, <3>10, <3>11, <3>12, <3>13, <3>14
  <2> QED BY <2>3, <2>4, <2>5
<1>4. CASE AnswerPins(t) BY <1>4, MessageEndKeeps DEF AnswerPins
<1>5. ASSUME NEW b \in BOOLEAN, AnswerWifiBoot(t, b) \/ AnswerReady(t, b) PROVE VciInv'
  BY <1>5, WifiReturnKeeps
<1>6. ASSUME NEW i \in DOMAIN WifiField, NEW ok \in BOOLEAN, AnswerWifi(t, i, ok) PROVE VciInv'
  BY <1>6, WifiReturnKeeps
<1> QED BY <1>1, <1>2, <1>3, <1>4, <1>5, <1>6 DEF Return

LEMMA ReGetMessageKeeps == ASSUME IInv, OneRun, ReGetMessage PROVE VciInv'
<1> DEFINE me == "REGET_MESSAGE"
           W == Wanted(VciField, 1, failIndex, me)
<1> HIDE DEF W
<1> USE DEF IInv, VciInv
<1>0. Run \subseteq Thread /\ Kind \subseteq Thread /\ me \in Kind /\ me \notin Run
  BY Threads DEF Kind
<1>1. Retrying /\ at[me] = "idle" BY Delays DEF ReGetMessage, Due, Retrying
<1>2. Busy BY <1>1 DEF Busy
<1>3. \A r \in Run : at[r] # "new" BY <1>0, <1>1, Begun DEF Retrying
<1>4. VciValues \subseteq VciCalls /\ "support" \in VciCalls BY DEF VciCalls
<1>5. \A u \in Thread : at[u] \notin VciCalls
  <2>1. \A r \in Run : at[r] \notin VciCalls BY <1>1 DEF Turns
  <2>2. \A k \in Kind : at[k] \notin VciCalls BY <1>1, <1>4, Elsewhere DEF Askers
  <2> QED BY <2>1, <2>2, Threads
<1>6. UNCHANGED <<value, failIndex, isSupportMT7628, isVCITimeout>> BY DEF ReGetMessage
<1>7. ~Retrying' /\ \A k \in Kind : k # me => timer'[k] = timer[k]
  BY <1>0, TypeParts DEF ReGetMessage, Retrying, TimerType
<1>8. W \in SUBSET (1 .. 4) /\ \A j \in 1 .. 4 : Bit[VciField[j]] \in failIndex => j \in W
  BY Questions DEF W, Wanted
<1>9. PICK c : /\ Goto(me, c)
               /\ \/ isVCITimeout /\ c = "idle" /\ UNCHANGED statusVars
                  \/ c \in VciValues /\ ~isVCITimeout /\ UNCHANGED statusVars
                  \/ W = {} /\ c = Rest(me) /\ initStatus' = "SUCCESS"
                  \/ W = {} /\ c = "wifiBoot" /\ isSupportMT7628 /\ initStatus' = "SUCCESS"
  <2>1. W # {} => VciField[First(W)] \in VciValues BY <1>8, FirstIs, Questions
  <2> QED BY <2>1 DEF ReGetMessage, SetInitStatus, W
<1>10. \A u \in Thread : at'[u] = IF u = me THEN c ELSE at[u]
  BY <1>9, TypeParts DEF Goto, AtType
<1>11. c \notin {"new", "boot", "pins", "support"} /\ (c \in WifiCalls => isSupportMT7628)
       /\ (c \in VciCalls => c \in VciValues /\ ~isVCITimeout /\ UNCHANGED statusVars)
  BY <1>9, Elsewhere, RestPlace, Questions DEF VciCalls, WifiCalls, Rest
<1>12. Fresh' BY <1>0, <1>3, <1>10 DEF Fresh
<1>13. Askers' BY <1>0, <1>5, <1>10, <1>11 DEF Askers
<1>14. Turns' BY <1>0, <1>5, <1>7, <1>10 DEF Turns
<1>15. Busy' => c \in VciCalls BY <1>5, <1>7, <1>10 DEF Busy
<1>16. Undecided' BY <1>2, <1>6, <1>11, <1>15 DEF Undecided, statusVars
<1>17. NotYet' BY <1>0, <1>4, <1>5, <1>10 DEF NotYet
<1>18. WifiSupported' BY <1>6, <1>7, <1>10, <1>11 DEF WifiSupported, Kind
<1>19. ~isSupportMT7628 => \A k \in 1 .. 4 : value[VciField[k]] \/ Bit[VciField[k]] \in failIndex
  BY <1>0, <1>2, <1>4, <1>5, NotedOrKnown
<1>20. Known' BY <1>6, <1>19, Questions DEF Known
<1>21. SuccessComplete'
  <2>1. CASE UNCHANGED statusVars BY <1>2, <2>1 DEF Undecided, SuccessComplete, statusVars
  <2>2. CASE W = {}
    <3>1. ~isSupportMT7628 => \A k \in 1 .. 4 : value[VciField[k]] BY <1>8, <1>19, <2>2
    <3> QED BY <1>6, <3>1, Questions DEF SuccessComplete
  <2> QED BY <1>9, <2>1, <2>2
<1> QED BY <1>12, <1>13, <1>14, <1>16, <1>17, <1>18, <1>20, <1>21

LEMMA VciInitTimeOutKeeps == ASSUME IInv, OneRun, VciInitTimeOut PROVE VciInv'
<1> DEFINE me == "MESSAGE_TIMEOUT"
<1>0. Run \subseteq Thread /\ Kind \subseteq Thread /\ me \in Kind BY Threads DEF Kind
<1>1. timer[me] = 0 /\ at[me] = "idle" BY DEF VciInitTimeOut, Due
<1>2. \A r \in Run : at[r] # "new"
  <2>1. timer[me] # Off BY <1>1, Delays
  <2> QED BY <1>0, <2>1, Begun DEF IInv
<1>3. \A k \in Kind : k # me => timer'[k] = timer[k]
  BY TypeParts DEF VciInitTimeOut, IInv, TimerType
<1>4. UNCHANGED <<value, failIndex, isSupportMT7628>> BY DEF VciInitTimeOut
<1>5. CASE initStatus # "ING"
  <2>1. UNCHANGED <<initStatus, isVCITimeout, at>> BY <1>5 DEF VciInitTimeOut, statusVars
  <2> QED BY <1>2, <1>3, <1>4, <2>1, LeavesVci DEF Kind
<1>6. CASE initStatus = "ING"
  <2> USE DEF IInv, VciInv
  <2>1. isVCITimeout' /\ initStatus' = "FAIL" BY <1>6 DEF VciInitTimeOut, SetInitStatus
  <2>2. PICK c : Goto(me, c) /\ (c = Rest(me) \/ (c = "wifiBoot" /\ isSupportMT7628))
    BY <1>6 DEF VciInitTimeOut, SetInitStatus
  <2>3. c \notin VciCalls \cup {"new"} /\ (c \in WifiCalls => isSupportMT7628)
    BY <2>2, Elsewhere, RestPlace DEF Rest
  <2>4. \A u \in Thread : at'[u] = IF u = me THEN c ELSE at[u]
    BY <2>2, TypeParts DEF Goto, AtType
  <2>5. at[me] \notin VciCalls /\ me \notin Run /\ me # "REGET_MESSAGE"
    BY <1>0, <1>1, Elsewhere, Threads
  <2>6. Retrying' = Retrying BY <1>3 DEF Retrying, Kind
  <2>7. Busy' => Busy BY <2>3, <2>4, <2>6 DEF Busy
  <2>8. VciValues \subseteq VciCalls BY DEF VciCalls
  <2>9. Fresh' BY <1>0, <1>2, <2>3, <2>4 DEF Fresh
  <2>10. Askers' BY <1>0, <2>3, <2>4 DEF Askers
  <2>11. Turns' BY <1>0, <2>4, <2>5, <2>6 DEF Turns, Kind
  <2>12. Undecided' BY <2>1 DEF Undecided
  <2>13. NotYet' BY <1>0, <1>4, <2>4, <2>5 DEF NotYet
  <2>14. WifiSupported' BY <1>3, <1>4, <2>3, <2>4 DEF WifiSupported, Kind
  <2>15. Known'
    <3>1. \A r \in Run : at'[r] = at[r] BY <1>0, <2>4, <2>5
    <3>2. Known BY DEF IInv
    <3> QED BY <1>4, <2>7, <3>1, <3>2, Questions DEF Known
  <2>16. SuccessComplete' BY <2>1 DEF SuccessComplete
  <2> QED BY <2>9, <2>10, <2>11, <2>12, <2>13, <2>14, <2>15, <2>16
<1> QED BY <1>5, <1>6

LEMMA HandlerKeeps == ASSUME IInv, OneRun, Handler PROVE VciInv'
<1>0. /\ {"REGET_MESSAGE", "MESSAGE_TIMEOUT", "WIFI_REGET_ALREADY", "WIFI_TIMEOUT", "REGET_WIFI"} = Kind
      /\ Kind \subseteq Thread
  BY Threads DEF Kind
<1>1. \A k \in Kind : Due(k) => timer[k] # Off /\ at[k] \notin VciCalls /\ \A r \in Run : at[r] # "new"
  BY Delays, Elsewhere, Begun DEF Due, IInv
<1>2. CASE ReGetMessage BY <1>2, ReGetMessageKeeps
<1>3. CASE VciInitTimeOut BY <1>3, VciInitTimeOutKeeps
<1>4. ASSUME NEW k \in Kind, at[k] = "after"
      PROVE  at[k] \notin VciCalls /\ \A r \in Run : at[r] # "new"
  BY <1>0, <1>4, Elsewhere, Begun DEF IInv
<1>5. CASE ReGetMessageReturns
  <2>1. UNCHANGED <<value, failIndex, initStatus, isSupportMT7628, isVCITimeout, timer>>
    BY <1>5 DEF ReGetMessageReturns, statusVars
  <2>2. at["REGET_MESSAGE"] = "after" /\ Goto("REGET_MESSAGE", "idle") BY <1>5 DEF ReGetMessageReturns
  <2> QED BY <1>0, <1>4, <2>1, <2>2, Elsewhere, GoesElsewhere, LeavesVci
<1>6. CASE VciInitTimeOutReturns
  <2>1. UNCHANGED <<value, failIndex, initStatus, isSupportMT7628, isVCITimeout>>
    BY <1>6 DEF VciInitTimeOutReturns, statusVars
  <2>2. at["MESSAGE_TIMEOUT"] = "after" /\ Goto("MESSAGE_TIMEOUT", "idle") BY <1>6 DEF VciInitTimeOutReturns
  <2>3. \A k \in Kind : timer'[k] \in {timer[k], Off} BY <1>6 DEF VciInitTimeOutReturns, Cancel
  <2> QED BY <1>0, <1>4, <2>1, <2>2, <2>3, Elsewhere, GoesElsewhere, LeavesVci
<1>7. CASE Poll
  <2>1. UNCHANGED <<value, failIndex, initStatus, isSupportMT7628, isVCITimeout>>
    BY <1>7 DEF Poll, statusVars, vciVars
  <2>2. Due("WIFI_REGET_ALREADY") BY <1>7 DEF Poll
  <2>3. isSupportMT7628 BY <1>0, <1>1, <2>2 DEF IInv, VciInv, WifiSupported
  <2>4. timer'["REGET_MESSAGE"] = timer["REGET_MESSAGE"]
    BY <1>0, <1>7, TypeParts DEF Poll, IInv, TimerType
  <2>5. UNCHANGED at \/ Goto("WIFI_REGET_ALREADY", "ready") BY <1>7 DEF Poll
  <2> QED BY <1>0, <1>1, <2>1, <2>2, <2>3, <2>4, <2>5, Elsewhere, GoesElsewhere, LeavesVci
<1>8. CASE WifiIsReadyTimeOut
  <2>1. UNCHANGED <<value, failIndex, initStatus, isSupportMT7628, isVCITimeout, at>>
    BY <1>8 DEF WifiIsReadyTimeOut, vciVars
  <2>2. Due("WIFI_TIMEOUT") BY <1>8 DEF WifiIsReadyTimeOut
  <2>3. \A k \in Kind : timer'[k] \in {timer[k], Off} BY <1>8 DEF WifiIsReadyTimeOut, Cancel
  <2> QED BY <1>0, <1>1, <2>1, <2>2, <2>3, LeavesVci
<1>9. CASE ReGetWifiMessage
  <2>1. UNCHANGED <<value, failIndex, initStatus, isSupportMT7628, isVCITimeout>>
    BY <1>9 DEF ReGetWifiMessage, vciVars
  <2>2. Due("REGET_WIFI") BY <1>9 DEF ReGetWifiMessage
  <2>3. isSupportMT7628 BY <1>0, <1>1, <2>2 DEF IInv, VciInv, WifiSupported
  <2>4. timer'["REGET_MESSAGE"] = timer["REGET_MESSAGE"]
    BY <1>0, <1>9, TypeParts DEF ReGetWifiMessage, IInv, TimerType
  <2>5. UNCHANGED at \/ \E c \in WifiCalls : Goto("REGET_WIFI", c)
    <3> DEFINE W == Wanted(WifiField, 1, wifiFailIndex, "REGET_WIFI")
    <3> HIDE DEF W
    <3>1. W \in SUBSET (1 .. 3) BY Questions DEF W, Wanted
    <3>2. W # {} => WifiField[First(W)] \in WifiCalls BY <3>1, FirstIs, Elsewhere
    <3> QED BY <1>9, <3>2 DEF ReGetWifiMessage, W
  <2>6. \A c \in WifiCalls : c \notin VciCalls \cup {"new"} BY Elsewhere
  <2> QED BY <1>0, <1>1, <2>1, <2>2, <2>3, <2>4, <2>5, <2>6, GoesElsewhere, LeavesVci
<1> QED BY <1>2, <1>3, <1>5, <1>6, <1>7, <1>8, <1>9 DEF Handler

LEMMA TickKeeps == ASSUME IInv, OneRun, Tick PROVE VciInv'
<1>1. \E k \in Kind : timer[k] # Off BY Delays DEF Tick
<1>2. \A r \in Run : at[r] # "new" BY <1>1, Begun DEF IInv
<1>3. \A k \in Kind : timer'[k] # Off <=> timer[k] # Off
  BY Delays, TypeParts DEF Tick, IInv, TimerType
<1>4. UNCHANGED <<value, failIndex, initStatus, isSupportMT7628, isVCITimeout, at>>
  BY DEF Tick, statusVars, vciVars
<1>5. Retrying' <=> Retrying BY <1>3 DEF Retrying, Kind
<1>6. Busy' <=> Busy BY <1>4, <1>5 DEF Busy
<1> USE DEF IInv, VciInv
<1>7. Fresh' BY <1>2, <1>4 DEF Fresh
<1>8. Askers' /\ Turns' /\ NotYet' BY <1>4, <1>5 DEF Askers, Turns, NotYet
<1>9. Undecided' /\ Known' /\ SuccessComplete'
  BY <1>4, <1>6 DEF Undecided, Known, SuccessComplete
<1>10. WifiSupported' BY <1>3, <1>4 DEF WifiSupported, Kind
<1> QED BY <1>7, <1>8, <1>9, <1>10

LEMMA IInvNext == ASSUME IInv, OneRun, [Next]_vars PROVE IInv'
<1>1. TypeOK' BY TypeNext DEF IInv
<1>2. VciInv'
  <2>1. ASSUME NEW r \in Run, GetMessage(r) PROVE VciInv' BY <2>1, GetMessageKeeps
  <2>2. ASSUME NEW t \in Thread, Return(t) PROVE VciInv' BY <2>2, ReturnKeeps
  <2>3. CASE Handler BY <2>3, HandlerKeeps
  <2>4. CASE Tick BY <2>4, TickKeeps
  <2>5. CASE UNCHANGED vars
    <3> USE <2>5 DEF vars, statusVars, vciVars, wifiVars
    <3>1. Busy' <=> Busy BY DEF Busy, Retrying
    <3>2. Fresh' /\ Askers' BY DEF IInv, VciInv, Fresh, Askers
    <3>3. Turns' BY DEF IInv, VciInv, Turns, Retrying
    <3>4. Undecided' BY <3>1 DEF IInv, VciInv, Undecided
    <3>5. NotYet' /\ WifiSupported' BY DEF IInv, VciInv, NotYet, WifiSupported
    <3>6. Known' BY <3>1 DEF IInv, VciInv, Known
    <3>7. SuccessComplete' BY DEF IInv, VciInv, SuccessComplete
    <3> QED BY <3>2, <3>3, <3>4, <3>5, <3>6, <3>7 DEF VciInv
  <2> QED BY <2>1, <2>2, <2>3, <2>4, <2>5 DEF Next
<1> QED BY <1>1, <1>2 DEF IInv

LEMMA IInvInit == Init => IInv
<1> SUFFICES ASSUME Init PROVE IInv OBVIOUS
<1>1. \A t \in Thread : at[t] \in {"new", "idle"} BY DEF Init
<1>2. \A k \in Kind : at[k] = "idle" /\ timer[k] = Off BY Threads DEF Init
<1>3. \A t \in Thread : at[t] \notin VciCalls \cup WifiCalls BY <1>1, Elsewhere
<1>4. Run \subseteq Thread /\ Kind \subseteq Thread /\ VciValues \subseteq VciCalls /\ "support" \in VciCalls
  BY Threads DEF VciCalls
<1>5. ~Busy
  <2>1. ~Retrying BY <1>2 DEF Retrying, Kind
  <2> QED BY <1>3, <2>1 DEF Busy
<1>6. Fresh BY <1>2 DEF Fresh, Init
<1>7. Askers /\ Turns /\ NotYet
  <2>1. "REGET_MESSAGE" \in Thread BY <1>4 DEF Kind
  <2> QED BY <1>3, <1>4, <2>1 DEF Askers, Turns, NotYet
<1>8. Undecided /\ Known BY <1>5 DEF Undecided, Known
<1>9. WifiSupported BY <1>2, <1>3 DEF WifiSupported, Kind
<1>10. SuccessComplete BY DEF SuccessComplete, Init
<1> QED BY <1>6, <1>7, <1>8, <1>9, <1>10, TypeInit DEF IInv, VciInv

(* A step that puts another question to the VCI. *)
LEMMA AsksInTime ==
  ASSUME IInv, OneRun, [Next]_vars, NEW t \in Thread, at'[t] \in VciValues, at'[t] # at[t]
  PROVE  initStatus' = "ING"
<1>0. /\ \A u \in Thread : \A c : Goto(u, c) => \A v \in Thread : at'[v] = IF v = u THEN c ELSE at[v]
      /\ VciValues \cap (WifiCalls \cup {"support", "boot", "pins", "idle", "after"}) = {}
      /\ \A u : Rest(u) \in {"idle", "after"}
      /\ {"REGET_MESSAGE", "MESSAGE_TIMEOUT", "WIFI_REGET_ALREADY", "REGET_WIFI"} \subseteq Thread
      /\ Run \subseteq Thread
  BY TypeParts, Questions, Elsewhere, Threads, RestPlace DEF Goto, IInv, AtType, WifiCalls, Kind
<1>1. ASSUME NEW u \in Thread, NEW c, Goto(u, c) PROVE c \in VciValues
  BY <1>0, <1>1
<1>2. ASSUME NEW r \in Run, GetMessage(r) PROVE initStatus' = "ING" BY <1>2 DEF GetMessage
<1>3. ASSUME NEW u \in Thread, Return(u) PROVE initStatus' = "ING"
  <2>1. ASSUME NEW i \in DOMAIN VciField, NEW ok \in BOOLEAN, AnswerVci(u, i, ok)
        PROVE  initStatus' = "ING"
    <3>1. i + 1 \in 1 .. 5 /\ AskVci(u, i + 1) BY <2>1, Questions DEF AnswerVci
    <3>2. Busy
      <4>1. at[u] \in VciCalls BY <2>1, Questions DEF AnswerVci, VciCalls
      <4> QED BY <4>1 DEF Busy
    <3>3. ~isVCITimeout => initStatus = "ING" BY <3>2 DEF IInv, VciInv, Undecided
    <3>4. CASE ~isVCITimeout /\ UNCHANGED statusVars BY <3>3, <3>4 DEF statusVars
    <3>5. CASE Goto(u, "idle") \/ Goto(u, "support") BY <1>0, <1>1, <3>5
    <3>6. CASE ReGetEnd(u)
      <4>1. Goto(u, "idle") \/ Goto(u, Rest(u)) \/ Goto(u, "wifiBoot")
        BY <3>6 DEF ReGetEnd, SetInitStatus
      <4> QED BY <1>0, <1>1, <4>1, Elsewhere
    <3> QED BY <3>1, <3>4, <3>5, <3>6, AskVciDoes
  <2>2. ASSUME NEW yes \in BOOLEAN, AnswerSupport(u, yes) PROVE FALSE
    BY <1>0, <1>1, <2>2 DEF AnswerSupport
  <2>3. MessageEnd(u) => FALSE
    <3>1. MessageEnd(u) => Goto(u, "idle") \/ Goto(u, Rest(u)) \/ Goto(u, "wifiBoot")
      BY DEF MessageEnd, SetInitStatus
    <3> QED BY <1>0, <1>1, <3>1, Elsewhere
  <2>4. ASSUME NEW boot \in BOOLEAN, AnswerBoot(u, boot) PROVE FALSE
    <3>1. MessageEnd(u) \/ Goto(u, "idle") \/ Goto(u, "pins") BY <2>4 DEF AnswerBoot
    <3> QED BY <1>0, <1>1, <2>3, <3>1
  <2>5. CASE AnswerPins(u) BY <2>3, <2>5 DEF AnswerPins
  <2>6. ASSUME NEW b \in BOOLEAN, AnswerWifiBoot(u, b) \/ AnswerReady(u, b) PROVE FALSE
    <3>1. \E c \in WifiCalls \cup {Rest(u)} : Goto(u, c)
      BY <2>6, Elsewhere DEF AnswerWifiBoot, AnswerReady, GetMT7628IsReady
    <3> QED BY <1>0, <1>1, <3>1
  <2>7. ASSUME NEW i \in DOMAIN WifiField, NEW ok \in BOOLEAN, AnswerWifi(u, i, ok) PROVE FALSE
    <3>1. i + 1 \in 1 .. 4 /\ AskWifi(u, i + 1) BY <2>7, Questions DEF AnswerWifi
    <3>2. \E c \in WifiCalls \cup {Rest(u)} : Goto(u, c) BY <3>1, AskWifiDoes, Elsewhere
    <3> QED BY <1>0, <1>1, <3>2
  <2> QED BY <1>3, <2>1, <2>2, <2>4, <2>5, <2>6, <2>7 DEF Return
<1>4. CASE Handler
  <2>1. CASE ReGetMessage
    <3>1. Busy BY <2>1, Delays DEF ReGetMessage, Due, Busy, Retrying
    <3>2. ~isVCITimeout => initStatus = "ING" BY <3>1 DEF IInv, VciInv, Undecided
    <3>3. \/ Goto("REGET_MESSAGE", "idle")
          \/ ~isVCITimeout /\ UNCHANGED statusVars
          \/ Goto("REGET_MESSAGE", Rest("REGET_MESSAGE")) \/ Goto("REGET_MESSAGE", "wifiBoot")
      BY <2>1 DEF ReGetMessage, SetInitStatus
    <3> QED BY <1>0, <1>1, <3>2, <3>3, Elsewhere DEF statusVars
  <2>2. CASE ~ReGetMessage
    <3>1. \/ UNCHANGED at
          \/ \E u \in Thread, c \in {"idle", "after"} \cup WifiCalls : Goto(u, c)
      <4> DEFINE W == Wanted(WifiField, 1, wifiFailIndex, "REGET_WIFI")
      <4> HIDE DEF W
      <4>1. W \in SUBSET (1 .. 3) BY Questions DEF W, Wanted
      <4>2. W # {} => WifiField[First(W)] \in WifiCalls BY <4>1, FirstIs, Elsewhere
      <4>3. ReGetWifiMessage => UNCHANGED at \/ \E c \in WifiCalls : Goto("REGET_WIFI", c)
        BY <4>2 DEF ReGetWifiMessage, W
      <4>4. VciInitTimeOut => UNCHANGED at \/ \E c \in WifiCalls \cup {Rest("MESSAGE_TIMEOUT")} : Goto("MESSAGE_TIMEOUT", c)
        BY Elsewhere DEF VciInitTimeOut, SetInitStatus
      <4>5. Poll => UNCHANGED at \/ \E c \in WifiCalls : Goto("WIFI_REGET_ALREADY", c)
        BY Elsewhere DEF Poll
      <4>6. WifiIsReadyTimeOut => UNCHANGED at BY DEF WifiIsReadyTimeOut
      <4>7. ReGetMessageReturns => Goto("REGET_MESSAGE", "idle") BY DEF ReGetMessageReturns
      <4>8. VciInitTimeOutReturns => Goto("MESSAGE_TIMEOUT", "idle") BY DEF VciInitTimeOutReturns
      <4> QED BY <1>0, <1>4, <2>2, <4>3, <4>4, <4>5, <4>6, <4>7, <4>8 DEF Handler
    <3> QED BY <1>0, <1>1, <3>1
  <2> QED BY <2>1, <2>2
<1>5. CASE Tick BY <1>5 DEF Tick
<1>6. CASE UNCHANGED vars BY <1>6 DEF vars
<1> QED BY <1>2, <1>3, <1>4, <1>5, <1>6 DEF Next

LEMMA Inductive == OneRun /\ Spec => [](OneRun /\ IInv)
<1>1. OneRun /\ Init => OneRun /\ IInv BY IInvInit
<1>2. OneRun /\ IInv /\ [Next]_vars => (OneRun /\ IInv)'
  <2>1. OneRun => OneRun' BY DEF OneRun
  <2> QED BY <2>1, IInvNext
<1> QED BY <1>1, <1>2, PTL DEF Spec

\* setInitStatus: reports success only when getMessage and its retries have been
\* given all four values, for any time limits in their order; of one run, and
\* for interfaces without a Wi-Fi module.
THEOREM SuccessIsComplete == OneRun /\ Spec => []SuccessComplete
<1>1. IInv => SuccessComplete BY DEF IInv, VciInv
<1> QED BY <1>1, Inductive, PTL

\* getMessage and reGetMessage: put no further question to the interface once the
\* initialisation has succeeded or failed, by their own doing or the time-out's.
THEOREM AskingStops == OneRun /\ Spec => StopsAsking
<1>1. OneRun /\ IInv /\ [Next]_vars =>
        [\A t \in Thread : at'[t] \in VciValues /\ at'[t] # at[t] => initStatus' = "ING"]_vars
  BY AsksInTime
<1> QED BY <1>1, Inductive, PTL DEF Spec, StopsAsking
-----------------------------------------------------------------------------
(* The initialisation ends.  While it is under way its time limit runs, and *)
(* time and the retry's timer are all that moves it when the calls do not.  *)
(* What ENABLED says of the actions, which follows from their guards, is a  *)
(* hypothesis.                                                              *)

\* The guards: a handler that is due, time when none is and a timer runs, and a call
\* that is under way.
CallReturns(t) == at[t] = "wifiBoot" => ENABLED <<Return(t)>>_vars
GuardsEnable ==
  /\ (\E k \in Kind : Due(k)) => ENABLED <<Handler>>_vars
  /\ (\A k \in Kind : ~Due(k)) /\ (\E k \in Kind : timer[k] \in 1 .. WifiLimit)
       => ENABLED <<Tick>>_vars
  /\ \A t \in Thread : CallReturns(t)

WifiTimers == {"REGET_WIFI", "WIFI_REGET_ALREADY", "WIFI_TIMEOUT"}

\* The Wi-Fi phase has not begun, and time is not up.
Limited ==
  initStatus = "ING" =>
    /\ timer["MESSAGE_TIMEOUT"] \in 0 .. VciLimit
    /\ ~isVCITimeout
    /\ \A t \in Thread : at[t] \notin WifiCalls \cup {"after"}
    /\ \A k \in WifiTimers : timer[k] = Off

\* Only a new run sets the status back.
LEMMA StatusStep ==
  ASSUME [Next]_vars
  PROVE  \/ \E r \in Run : GetMessage(r)
         \/ UNCHANGED initStatus
         \/ initStatus' \in {"SUCCESS", "FAIL"}
<1>1. ASSUME NEW u \in Thread, Return(u)
      PROVE  UNCHANGED initStatus \/ initStatus' \in {"SUCCESS", "FAIL"}
  BY <1>1 DEF Return, AnswerVci, AskVci, ReGetEnd, AnswerSupport, AnswerBoot, AnswerPins,
       MessageEnd, SetInitStatus, AnswerWifiBoot, AnswerReady, AnswerWifi, AskWifi, statusVars
<1>2. Handler => UNCHANGED initStatus \/ initStatus' \in {"SUCCESS", "FAIL"}
  BY DEF Handler, ReGetMessage, ReGetMessageReturns, VciInitTimeOut, VciInitTimeOutReturns,
       Poll, WifiIsReadyTimeOut, ReGetWifiMessage, SetInitStatus, statusVars
<1>. QED
  BY <1>1, <1>2 DEF Next, Tick, vars, statusVars

\* Who is where while the initialisation is under way.
LEMMA IngPlaces ==
  ASSUME IInv, Limited, initStatus = "ING"
  PROVE  /\ \A k \in Kind : k # "REGET_MESSAGE" => at[k] = "idle"
         /\ at["REGET_MESSAGE"] \in VciValues \cup {"idle"}
         /\ Retrying => at["REGET_MESSAGE"] = "idle"
         /\ \A r \in Run : at[r] # "new"
         /\ \A t \in Thread : at[t] \in VciCalls \cup {"idle"}
<1>1. \A k \in Kind : at[k] # "new"
  BY DEF IInv, TypeOK
<1>2. \A r \in Run : at[r] # "new"
  BY DEF IInv, VciInv, Fresh
<1>3. \A t \in Thread : at[t] \in VciCalls \cup {"idle"}
  <2>1. \A t \in Thread : at[t] \in Places /\ at[t] # "new"
    BY <1>1, <1>2, TypeParts, Threads DEF IInv, AtType
  <2>2. Places \subseteq VciCalls \cup WifiCalls \cup {"new", "idle", "after"}
    BY Questions DEF Places, VciCalls, WifiCalls
  <2>. QED
    BY <2>1, <2>2 DEF Limited
<1>4. Kind \subseteq Thread /\ "REGET_MESSAGE" \in Kind
  BY Threads DEF Kind
<1>5. \A k \in Kind : at[k] \in VciCalls => k = "REGET_MESSAGE" /\ at[k] \in VciValues
  BY DEF IInv, VciInv, Askers
<1>6. Retrying => at["REGET_MESSAGE"] \notin VciValues
  BY DEF IInv, VciInv, Turns
<1>. QED
  BY <1>2, <1>3, <1>4, <1>5, <1>6

\* What moves as long as the initialisation is under way: a call returns, and its thread
\* asks on, or starts the retry's timer; the retry begins; time passes.
CallStep ==
  /\ \E t \in Thread, c \in VciCalls \cup {"idle"} : Goto(t, c)
  /\ UNCHANGED timer \/ Arm("REGET_MESSAGE", RetryDelay)
RetryStep ==
  /\ Due("REGET_MESSAGE")
  /\ \E c \in VciCalls \cup {"idle"} : Goto("REGET_MESSAGE", c)
  /\ timer' = [timer EXCEPT !["REGET_MESSAGE"] = Off]

LEMMA IngStep ==
  ASSUME IInv, Limited, initStatus = "ING", initStatus' = "ING", [Next]_vars
  PROVE  /\ UNCHANGED isVCITimeout
         /\ Handler => RetryStep
         /\ UNCHANGED <<timer, at>> \/ Tick \/ CallStep \/ RetryStep
<1>0. /\ VciValues \subseteq VciCalls /\ {"support", "boot", "pins"} \subseteq VciCalls
      /\ "REGET_MESSAGE" \in Kind /\ Kind \subseteq Thread
      /\ VciCalls \cap (WifiCalls \cup {"new", "idle", "after"}) = {}
      /\ "idle" \notin WifiCalls
      /\ \A i \in 1 .. 3 : WifiField[i] \in WifiCalls
      /\ {"wifiBoot", "ready"} \subseteq WifiCalls
  BY Questions, Threads, Elsewhere DEF VciCalls, Kind, WifiCalls
<1>1. ASSUME NEW r \in Run, GetMessage(r) PROVE FALSE
  BY <1>1, IngPlaces DEF GetMessage
<1>2. \A t, status : SetInitStatus(t, status) => status = "ING"
  BY DEF SetInitStatus
<1>3. ASSUME NEW t \in Thread, Return(t)
      PROVE  UNCHANGED isVCITimeout /\ CallStep
  <2>0. at[t] \in VciCalls \cup {"idle"}
    BY IngPlaces
  <2>1. ASSUME NEW i \in DOMAIN VciField, NEW ok \in BOOLEAN, AnswerVci(t, i, ok)
        PROVE  UNCHANGED isVCITimeout /\ CallStep
    <3>1. i + 1 \in 1 .. 5 /\ AskVci(t, i + 1) /\ UNCHANGED isVCITimeout
      BY <2>1, Questions DEF AnswerVci
    <3>2. CASE ReGetEnd(t)
      <4>1. Arm("REGET_MESSAGE", RetryDelay) /\ Goto(t, "idle")
        BY <1>2, <3>2 DEF ReGetEnd
      <4>. QED
        BY <3>1, <4>1 DEF CallStep
    <3>3. \A j \in (i + 1) .. 4 : VciField[j] \in VciCalls
      BY <1>0, <2>1, Questions
    <3>4. CASE (\E c \in VciCalls \cup {"idle"} : Goto(t, c)) /\ UNCHANGED timer
      BY <3>1, <3>4 DEF CallStep
    <3>. QED
      BY <1>0, <3>1, <3>2, <3>3, <3>4, AskVciDoes
  <2>2. ASSUME NEW yes \in BOOLEAN, AnswerSupport(t, yes)
        PROVE  UNCHANGED isVCITimeout /\ CallStep
    BY <1>0, <2>2 DEF AnswerSupport, CallStep
  <2>3. ASSUME MessageEnd(t) PROVE CallStep
    BY <1>2, <2>3 DEF MessageEnd, CallStep
  <2>4. ASSUME NEW boot \in BOOLEAN, AnswerBoot(t, boot)
        PROVE  UNCHANGED isVCITimeout /\ CallStep
    BY <1>0, <2>3, <2>4 DEF AnswerBoot, CallStep, vciVars
  <2>5. ASSUME AnswerPins(t)
        PROVE  UNCHANGED isVCITimeout /\ CallStep
    BY <2>3, <2>5 DEF AnswerPins, vciVars
  <2>6. ASSUME NEW b \in BOOLEAN, AnswerWifiBoot(t, b) \/ AnswerReady(t, b) PROVE FALSE
    BY <1>0, <2>0, <2>6 DEF AnswerWifiBoot, AnswerReady
  <2>7. ASSUME NEW i \in DOMAIN WifiField, NEW ok \in BOOLEAN, AnswerWifi(t, i, ok) PROVE FALSE
    BY <1>0, <2>0, <2>7, Questions DEF AnswerWifi
  <2>. QED
    BY <1>3, <2>1, <2>2, <2>4, <2>5, <2>6, <2>7 DEF Return
<1>4. ASSUME ReGetMessage PROVE UNCHANGED isVCITimeout /\ RetryStep
  <2>. DEFINE me == "REGET_MESSAGE"
              W == Wanted(VciField, 1, failIndex, me)
  <2>1. UNCHANGED isVCITimeout /\ Due(me)
    BY <1>4 DEF ReGetMessage
  <2>2. W \in SUBSET (1 .. 4)
    BY Questions DEF Wanted
  <2>3. W # {} => VciField[First(W)] \in VciCalls
    BY <1>0, <2>2, FirstIs, Questions
  <2>. HIDE DEF W
  <2>4. isVCITimeout \/ W # {}
    BY <1>2, <1>4 DEF ReGetMessage, W
  <2>5. timer' = [timer EXCEPT ![me] = Off]
        /\ Goto(me, IF isVCITimeout THEN "idle" ELSE VciField[First(W)])
    BY <1>4, <2>4 DEF ReGetMessage, W
  <2>. QED
    BY <2>1, <2>3, <2>4, <2>5 DEF RetryStep
<1>5. ASSUME Handler, ~ReGetMessage PROVE FALSE
  <2>1. {"REGET_MESSAGE", "MESSAGE_TIMEOUT", "WIFI_REGET_ALREADY", "REGET_WIFI", "WIFI_TIMEOUT"} = Kind
    BY DEF Kind
  <2>2. at["REGET_MESSAGE"] # "after" /\ at["MESSAGE_TIMEOUT"] # "after"
    BY <1>0, <2>1, Threads DEF Limited
  <2>3. ~VciInitTimeOut
    BY <1>2 DEF VciInitTimeOut
  <2>4. \A k \in WifiTimers : timer[k] # 0
    BY Delays DEF Limited
  <2>. QED
    BY <1>5, <2>2, <2>3, <2>4 DEF Handler, ReGetMessageReturns, VciInitTimeOutReturns, Poll,
       WifiIsReadyTimeOut, ReGetWifiMessage, Due, WifiTimers
<1>6. ASSUME Tick PROVE UNCHANGED isVCITimeout
  BY <1>6 DEF Tick, vciVars
<1>7. ASSUME UNCHANGED vars PROVE UNCHANGED <<isVCITimeout, timer, at>>
  BY <1>7 DEF vars, vciVars
<1>. QED
  BY <1>1, <1>3, <1>4, <1>5, <1>6, <1>7 DEF Next

LEMMA LimitedKept ==
  ASSUME IInv, IInv', Limited, OneRun, [Next]_vars
  PROVE  Limited'
<1>. SUFFICES ASSUME initStatus' = "ING" PROVE Limited'
  BY DEF Limited
<1>0. /\ "REGET_MESSAGE" \in Kind /\ "MESSAGE_TIMEOUT" \in Kind /\ WifiTimers \subseteq Kind
      /\ "REGET_MESSAGE" \notin WifiTimers \cup {"MESSAGE_TIMEOUT"}
      /\ "MESSAGE_TIMEOUT" \notin WifiTimers
      /\ Kind \subseteq Thread
      /\ VciCalls \cap (WifiCalls \cup {"new", "idle", "after"}) = {}
      /\ "idle" \notin WifiCalls \cup {"after"} /\ "sn" \in VciCalls
      /\ VciLimit \in Nat
  BY Questions, Threads, Elsewhere, InitAssumption DEF VciCalls, Kind, WifiTimers
<1>1. ASSUME NEW r \in Run, GetMessage(r) PROVE Limited'
  <2>1. \A t \in Thread : at[t] = "idle" \/ t = r
    BY <1>1, Threads DEF GetMessage, IInv, VciInv, Fresh, OneRun
  <2>2. \A t \in Thread : at'[t] \in {"idle", "sn"}
    BY <1>1, <2>1, TypeParts DEF GetMessage, Goto, IInv, AtType
  <2>3. timer'["MESSAGE_TIMEOUT"] = VciLimit /\ \A k \in WifiTimers : timer'[k] = Off
    BY <1>0, <1>1 DEF GetMessage
  <2>4. ~isVCITimeout'
    BY <1>1 DEF GetMessage
  <2>. QED
    BY <1>0, <2>2, <2>3, <2>4 DEF Limited
<1>2. CASE initStatus = "ING" /\ ~\E r \in Run : GetMessage(r)
  <2>0. /\ ~isVCITimeout' /\ timer \in [Kind -> 0 .. Off] /\ at \in [Thread -> Places]
        /\ timer["MESSAGE_TIMEOUT"] \in 0 .. VciLimit
        /\ \A t \in Thread : at[t] \notin WifiCalls \cup {"after"}
        /\ \A k \in WifiTimers : timer[k] = Off
    BY <1>2, IngStep, TypeParts DEF Limited, IInv, TimerType, AtType
  <2>1. CASE UNCHANGED <<timer, at>>
    BY <2>0, <2>1 DEF Limited
  <2>2. CASE Tick
    <3>1. timer'["MESSAGE_TIMEOUT"] \in 0 .. VciLimit
      BY <1>0, <2>0, <2>2 DEF Tick
    <3>2. \A k \in WifiTimers : timer'[k] = Off
      BY <1>0, <2>0, <2>2, Delays DEF Tick
    <3>. QED
      BY <2>0, <2>2, <3>1, <3>2 DEF Limited, Tick
  <2>3. CASE CallStep \/ RetryStep
    <3>1. \A t \in Thread : at'[t] \in VciCalls \cup {"idle"} \/ at'[t] = at[t]
      BY <2>0, <2>3 DEF CallStep, RetryStep, Goto
    <3>2. \A k \in Kind : k # "REGET_MESSAGE" => timer'[k] = timer[k]
      BY <2>0, <2>3 DEF CallStep, RetryStep, Arm
    <3>. QED
      BY <1>0, <2>0, <3>1, <3>2 DEF Limited
  <2>. QED
    BY <1>2, <2>1, <2>2, <2>3, IngStep
<1>. QED
  BY <1>1, <1>2, StatusStep

LimitInv == OneRun /\ IInv /\ Limited

LEMMA LimitAlways == OneRun /\ Spec => []LimitInv
<1>1. Init => Limited
  BY DEF Init, Limited
<1>2. OneRun /\ IInv /\ IInv' /\ Limited /\ [Next]_vars => Limited'
  BY LimitedKept
<1>. QED
  BY <1>1, <1>2, Inductive, PTL DEF Spec, LimitInv

\* The ticks left, and whether the retry is due: each tick and each handler is one less.
Left == 2 * timer["MESSAGE_TIMEOUT"] + (IF timer["REGET_MESSAGE"] = 0 THEN 1 ELSE 0)
AtMost(n) == initStatus = "ING" /\ Left <= n
SomeDue == \E k \in Kind : Due(k)

LEMMA Timers ==
  /\ "REGET_MESSAGE" \in Kind /\ "MESSAGE_TIMEOUT" \in Kind /\ "REGET_MESSAGE" # "MESSAGE_TIMEOUT"
  /\ "REGET_MESSAGE" \notin WifiTimers /\ "MESSAGE_TIMEOUT" \notin WifiTimers
  /\ Kind = {"REGET_MESSAGE", "MESSAGE_TIMEOUT"} \cup WifiTimers
  /\ VciLimit \in Nat /\ WifiLimit \in Nat /\ VciLimit < WifiLimit /\ Off = WifiLimit + 1
  /\ RetryDelay \in 1 .. WifiLimit
BY InitAssumption DEF Kind, WifiTimers, Off

LimitBounds ==
  initStatus = "ING" =>
    /\ timer \in [Kind -> 0 .. Off] /\ timer["MESSAGE_TIMEOUT"] \in 0 .. VciLimit
    /\ Left \in 0 .. 2 * VciLimit + 1
    /\ SomeDue <=> timer["MESSAGE_TIMEOUT"] = 0 \/ timer["REGET_MESSAGE"] = 0

LEMMA LimitBounded == LimitInv => LimitBounds
<1>. SUFFICES ASSUME LimitInv, initStatus = "ING"
              PROVE  /\ timer \in [Kind -> 0 .. Off]
                     /\ timer["MESSAGE_TIMEOUT"] \in 0 .. VciLimit
                     /\ Left \in 0 .. 2 * VciLimit + 1
                     /\ SomeDue <=> timer["MESSAGE_TIMEOUT"] = 0 \/ timer["REGET_MESSAGE"] = 0
  BY DEF LimitBounds
<1>1. /\ timer \in [Kind -> 0 .. Off] /\ timer["MESSAGE_TIMEOUT"] \in 0 .. VciLimit
      /\ \A k \in WifiTimers : timer[k] = Off
  BY TypeParts DEF LimitInv, Limited, IInv, TimerType
<1>2. SomeDue <=> timer["MESSAGE_TIMEOUT"] = 0 \/ timer["REGET_MESSAGE"] = 0
  <2>1. at["MESSAGE_TIMEOUT"] = "idle" /\ (Retrying => at["REGET_MESSAGE"] = "idle")
    BY IngPlaces, Timers DEF LimitInv
  <2>2. timer["REGET_MESSAGE"] = 0 => Retrying
    BY Timers DEF Retrying
  <2>3. \A k \in WifiTimers : ~Due(k)
    BY <1>1, Timers DEF Due
  <2>. QED
    BY <2>1, <2>2, <2>3, Timers DEF SomeDue, Due
<1>3. Left \in 0 .. 2 * VciLimit + 1
  BY <1>1, Timers DEF Left
<1>. QED
  BY <1>1, <1>2, <1>3

LEMMA LimitBoundedNext == LimitInv' => LimitBounds'
BY LimitBounded, PTL

\* A step of time or of a handler takes the initialisation to its end or nearer to it;
\* another one leaves it no farther away.
LEMMA TimeStep ==
  ASSUME LimitInv, LimitInv', initStatus = "ING", initStatus' = "ING", [Next]_vars
  PROVE  /\ Tick \/ Handler => Left' <= Left - 1
         /\ Left' <= Left - 1 \/ (Left' = Left /\ (SomeDue <=> SomeDue'))
<1>. DEFINE mt == "MESSAGE_TIMEOUT"
            re == "REGET_MESSAGE"
<1>0. /\ timer \in [Kind -> 0 .. Off] /\ timer[mt] \in 0 .. VciLimit
      /\ timer' \in [Kind -> 0 .. Off] /\ timer'[mt] \in 0 .. VciLimit
      /\ SomeDue <=> timer[mt] = 0 \/ timer[re] = 0
      /\ SomeDue' <=> timer'[mt] = 0 \/ timer'[re] = 0
  BY LimitBounded, LimitBoundedNext DEF LimitBounds
<1>1. ASSUME Tick PROVE Left' <= Left - 1
  <2>1. timer[mt] # 0 /\ timer[re] # 0
    BY <1>0, <1>1 DEF Tick, SomeDue
  <2>2. timer'[mt] = timer[mt] - 1
    BY <1>0, <1>1, <2>1, Timers DEF Tick
  <2>. QED
    BY <1>0, <2>1, <2>2 DEF Left
<1>2. ASSUME RetryStep PROVE Left' <= Left - 1
  BY <1>0, <1>2, Timers DEF RetryStep, Due, Left
<1>3. ASSUME CallStep PROVE Left' <= Left - 1 \/ (Left' = Left /\ (SomeDue <=> SomeDue'))
  <2>1. CASE UNCHANGED timer
    BY <1>0, <2>1 DEF Left
  <2>2. CASE Arm(re, RetryDelay)
    <3>1. timer'[mt] = timer[mt] /\ timer'[re] # 0
      BY <1>0, <2>2, Timers DEF Arm
    <3>. QED
      BY <1>0, <3>1 DEF Left
  <2>. QED
    BY <1>3, <2>1, <2>2 DEF CallStep
<1>4. ASSUME UNCHANGED <<timer, at>> PROVE Left' = Left /\ (SomeDue <=> SomeDue')
  BY <1>0, <1>4 DEF Left
<1>. QED
  BY <1>1, <1>2, <1>3, <1>4, IngStep DEF LimitInv

\* With at most n steps of time and handlers left the initialisation ends.
VciEnds(n) == OneRun /\ TimedSpec /\ []GuardsEnable => (AtMost(n) ~> initStatus # "ING")

LEMMA Less ==
  ASSUME NEW n \in Nat, NEW m \in Int, m = n - 1
  PROVE  /\ LimitInv /\ LimitInv' /\ [Next]_vars /\ AtMost(n) =>
              \/ (initStatus # "ING")' \/ (0 <= m /\ AtMost(m)')
              \/ AtMost(n)' /\ (SomeDue <=> SomeDue')
         /\ LimitInv /\ LimitInv' /\ [Next]_vars /\ (Tick \/ Handler) /\ AtMost(n) =>
              \/ (initStatus # "ING")' \/ (0 <= m /\ AtMost(m)')
<1>. SUFFICES ASSUME LimitInv, LimitInv', [Next]_vars, AtMost(n), initStatus' = "ING"
              PROVE  /\ (0 <= m /\ AtMost(m)') \/ (AtMost(n)' /\ (SomeDue <=> SomeDue'))
                     /\ Tick \/ Handler => 0 <= m /\ AtMost(m)'
  OBVIOUS
<1>1. initStatus = "ING" /\ Left \in Nat /\ Left' \in Nat /\ Left <= n
  BY LimitBounded, LimitBoundedNext, Timers DEF LimitBounds, AtMost
<1>2. /\ Tick \/ Handler => Left' <= Left - 1
      /\ Left' <= Left - 1 \/ (Left' = Left /\ (SomeDue <=> SomeDue'))
  BY <1>1, TimeStep
<1>. QED
  BY <1>1, <1>2 DEF AtMost

\* Time or a handler can go on.
LEMMA TimeGoesOn ==
  /\ LimitInv /\ GuardsEnable => (initStatus = "ING" /\ SomeDue => ENABLED <<Handler>>_vars)
  /\ LimitInv /\ GuardsEnable => (initStatus = "ING" /\ ~SomeDue => ENABLED <<Tick>>_vars)
<1>1. LimitInv /\ initStatus = "ING" /\ ~SomeDue => timer["MESSAGE_TIMEOUT"] \in 1 .. WifiLimit
  BY LimitBounded, Timers DEF LimitBounds
<1>. QED
  BY <1>1, Timers DEF GuardsEnable, SomeDue

LEMMA AllVciEnd == \A n \in Nat : VciEnds(n)
<1>. DEFINE End == [n \in Nat |-> VciEnds(n)]
<1>1. VciEnds(0)
  <2>1. LimitInv /\ LimitInv' /\ [Next]_vars /\ AtMost(0) =>
          (initStatus # "ING")' \/ (AtMost(0)' /\ (SomeDue <=> SomeDue'))
    BY Less
  <2>2. LimitInv /\ LimitInv' /\ [Next]_vars /\ (Tick \/ Handler) /\ AtMost(0) =>
          (initStatus # "ING")'
    BY Less
  <2>3. AtMost(0) => initStatus = "ING"
    BY DEF AtMost
  <2>. QED
    BY <2>1, <2>2, <2>3, TimeGoesOn, LimitAlways, PTL DEF TimedSpec, Spec, VciEnds
<1>2. ASSUME NEW n \in Nat PROVE VciEnds(n) => VciEnds(n + 1)
  <2>0. n + 1 \in Nat /\ n \in Int /\ n = (n + 1) - 1
    OBVIOUS
  <2>1. LimitInv /\ LimitInv' /\ [Next]_vars /\ AtMost(n + 1) =>
          \/ (initStatus # "ING")' \/ AtMost(n)'
          \/ AtMost(n + 1)' /\ (SomeDue <=> SomeDue')
    BY <2>0, Less
  <2>2. LimitInv /\ LimitInv' /\ [Next]_vars /\ (Tick \/ Handler) /\ AtMost(n + 1) =>
          (initStatus # "ING")' \/ AtMost(n)'
    BY <2>0, Less
  <2>3. AtMost(n + 1) => initStatus = "ING"
    BY DEF AtMost
  <2>4. OneRun /\ TimedSpec /\ []GuardsEnable =>
          (AtMost(n + 1) ~> AtMost(n) \/ initStatus # "ING")
    BY <2>1, <2>2, <2>3, TimeGoesOn, LimitAlways, PTL DEF TimedSpec, Spec
  <2>. QED
    BY <2>4, PTL DEF VciEnds
<1>3. \E U : Available(U) /\ \A n \in Nat : U[n] <=> VciEnds(n)
  <2>1. Available(End)
    BY DEF Available
  <2>. QED
    BY <2>1
<1>. QED
  BY <1>1, <1>2, <1>3, FunctionInduction

\* Although calls to the interface may never return, a single run's initialisation ends,
\* for any time limits in their order: the retry's timer and the limit see to that.
THEOREM InitialisationEnds == OneRun /\ TimedSpec /\ []GuardsEnable => VciInitEnds
<1>. DEFINE most == 2 * VciLimit + 1
<1>1. VciEnds(most)
  BY AllVciEnd, Timers
<1>2. LimitInv => (initStatus = "ING" => AtMost(most))
  BY LimitBounded, Timers DEF LimitBounds, AtMost
<1>. HIDE DEF most
<1>. QED
  BY <1>1, <1>2, LimitAlways, PTL DEF VciEnds, VciInitEnds, TimedSpec
-----------------------------------------------------------------------------
(* The Wi-Fi module's turn comes.                                          *)

\* Until the Wi-Fi module's status is set, a thread is about to ask for it.
WifiTurn ==
  initStatus \in {"SUCCESS", "FAIL"} /\ wifiInitStatus = "DEFAULT" =>
    \E t \in Thread : at[t] = "wifiBoot"

\* A thread in that call stays in it until the call returns, and then sets the status.
Asking(t) == at[t] = "wifiBoot"

LEMMA AskingStays ==
  ASSUME TypeOK, [Next]_vars, NEW t \in Thread, Asking(t)
  PROVE  Asking(t)' \/ (Return(t) /\ (wifiInitStatus # "DEFAULT")')
<1>0. at \in [Thread -> Places] /\ Kind \subseteq Thread /\ Run \subseteq Thread
  BY TypeParts, Threads DEF AtType
<1>1. ASSUME NEW u \in Thread, NEW c, u # t, Goto(u, c) PROVE Asking(t)'
  BY <1>0, <1>1 DEF Goto, Asking
<1>2. ASSUME NEW r \in Run, GetMessage(r) PROVE Asking(t)'
  BY <1>0, <1>1, <1>2 DEF GetMessage, Asking
<1>3. ASSUME NEW u \in Thread, Return(u), u # t PROVE Asking(t)'
  BY <1>0, <1>3 DEF Return, AnswerVci, AskVci, ReGetEnd, AnswerSupport, AnswerBoot, AnswerPins,
       MessageEnd, SetInitStatus, AnswerWifiBoot, AnswerReady, GetMT7628IsReady, AnswerWifi,
       AskWifi, Goto, Asking
<1>4. Return(t) => (wifiInitStatus # "DEFAULT")'
  BY Questions DEF Return, AnswerVci, AnswerSupport, AnswerBoot, AnswerPins, AnswerWifiBoot,
       AnswerReady, AnswerWifi, Asking
<1>5. CASE Handler
  BY <1>0, <1>5 DEF Handler, ReGetMessage, ReGetMessageReturns, VciInitTimeOut,
       VciInitTimeOutReturns, Poll, WifiIsReadyTimeOut, ReGetWifiMessage, SetInitStatus, Due,
       Goto, Asking, Kind
<1>6. CASE Tick \/ UNCHANGED vars
  BY <1>6 DEF Tick, vars, Asking
<1>. QED
  BY <1>2, <1>3, <1>4, <1>5, <1>6 DEF Next

LEMMA WifiTurnKept ==
  ASSUME TypeOK, TypeOK', WifiTurn, [Next]_vars
  PROVE  WifiTurn'
<1>. SUFFICES ASSUME initStatus' \in {"SUCCESS", "FAIL"}, wifiInitStatus' = "DEFAULT"
              PROVE  \E t \in Thread : at'[t] = "wifiBoot"
  BY DEF WifiTurn
<1>0. at \in [Thread -> Places] /\ Kind \subseteq Thread
  BY TypeParts, Threads DEF AtType
<1>1. ~\E r \in Run : GetMessage(r)
  BY DEF GetMessage
<1>2. CASE initStatus' = initStatus
  <2>1. wifiInitStatus = "DEFAULT"
    BY <1>1 DEF Next, Return, AnswerVci, AskVci, ReGetEnd, AnswerSupport, AnswerBoot,
       AnswerPins, MessageEnd, SetInitStatus, AnswerWifiBoot, AnswerReady, AnswerWifi, AskWifi,
       Handler, ReGetMessage, ReGetMessageReturns, VciInitTimeOut, VciInitTimeOutReturns,
       Poll, WifiIsReadyTimeOut, ReGetWifiMessage, Tick, statusVars, vars
  <2>2. PICK t \in Thread : Asking(t)
    BY <1>2, <2>1 DEF WifiTurn, Asking
  <2>. QED
    BY <2>2, AskingStays DEF Asking
<1>3. CASE initStatus' # initStatus
  <2>1. \E t \in Thread, status \in {"SUCCESS", "FAIL"} : SetInitStatus(t, status)
    BY <1>0, <1>1, <1>3 DEF Next, Return, AnswerVci, AskVci, ReGetEnd, AnswerSupport,
       AnswerBoot, AnswerPins, MessageEnd, AnswerWifiBoot, AnswerReady, AnswerWifi, AskWifi,
       Handler, ReGetMessage, ReGetMessageReturns, VciInitTimeOut, VciInitTimeOutReturns,
       Poll, WifiIsReadyTimeOut, ReGetWifiMessage, Tick, statusVars, vars, Kind
  <2>. QED
    BY <1>0, <1>3, <2>1 DEF SetInitStatus, Goto
<1>. QED
  BY <1>2, <1>3

LEMMA WifiTurnAlways == Spec => [](TypeOK /\ WifiTurn)
<1>1. Init => WifiTurn
  BY DEF Init, WifiTurn
<1>2. TypeOK /\ TypeOK' /\ WifiTurn /\ [Next]_vars => WifiTurn'
  BY WifiTurnKept
<1>. QED
  BY <1>1, <1>2, TypeCorrect, PTL DEF Spec

LEMMA EachReturns == AllReturn => \A t \in Thread : Returning(t)
BY PTL DEF AllReturn

\* If the calls return, the call of any thread, and of any of finitely many, is followed
\* by the Wi-Fi module's status.
OneAsks(T) == \E t \in T : Asking(t)
Follows(T) ==
  Spec /\ []GuardsEnable /\ AllReturn => (OneAsks(T) ~> wifiInitStatus # "DEFAULT")

LEMMA AskingFollows ==
  ASSUME NEW t \in Thread
  PROVE  Spec /\ []GuardsEnable /\ AllReturn => (Asking(t) ~> wifiInitStatus # "DEFAULT")
<1>1. TypeOK /\ [Next]_vars => (Asking(t) => Asking(t)' \/ (wifiInitStatus # "DEFAULT")')
  BY AskingStays
<1>2. TypeOK /\ TypeOK' /\ <<Return(t)>>_vars => (Asking(t) => (wifiInitStatus # "DEFAULT")')
  BY Questions DEF Return, AnswerVci, AnswerSupport, AnswerBoot, AnswerPins, AnswerWifiBoot,
       AnswerReady, AnswerWifi, Asking
<1>3. GuardsEnable => (Asking(t) => ENABLED <<Return(t)>>_vars)
  BY DEF GuardsEnable, CallReturns, Asking
<1>4. AllReturn => Returning(t)
  BY EachReturns
<1>5. Returning(t) => WF_vars(Return(t))
  BY PTL DEF Returning
<1>. QED
  BY <1>1, <1>2, <1>3, <1>4, <1>5, TypeCorrect, PTL DEF Spec

LEMMA AllFollow ==
  ASSUME IsFiniteSet(Thread)
  PROVE  Follows(Thread)
<1>. DEFINE Follow == [T \in SUBSET Thread |-> Follows(T)]
<1>1. Follows({})
  <2>1. ~OneAsks({})
    BY DEF OneAsks
  <2>. QED
    BY <2>1, PTL DEF Follows
<1>2. ASSUME NEW T \in SUBSET Thread, NEW t \in Thread
      PROVE  Follows(T) => Follows(T \cup {t})
  <2>1. OneAsks(T \cup {t}) <=> OneAsks(T) \/ Asking(t)
    BY DEF OneAsks
  <2>2. Spec /\ []GuardsEnable /\ AllReturn => (Asking(t) ~> wifiInitStatus # "DEFAULT")
    BY AskingFollows
  <2>. QED
    BY <2>1, <2>2, PTL DEF Follows
<1>3. \E U : Available(U) /\ \A T \in SUBSET Thread : U[T] <=> Follows(T)
  <2>1. Available(Follow)
    BY DEF Available
  <2>. QED
    BY <2>1
<1>. QED
  BY <1>1, <1>2, <1>3, FiniteInduction

\* Success or failure, the Wi-Fi module's turn comes, if the calls return: for any finite
\* number of runs, whichever thread the initialisation ended on.
THEOREM WifiPhaseFollows ==
  ASSUME IsFiniteSet(Run)
  PROVE  Spec /\ []GuardsEnable => WifiFollows
<1>1. IsFiniteSet(Thread)
  <2>1. Thread = Run \cup ({"REGET_MESSAGE"} \cup ({"REGET_WIFI"} \cup ({"MESSAGE_TIMEOUT"}
                   \cup ({"WIFI_REGET_ALREADY"} \cup {"WIFI_TIMEOUT"}))))
    BY DEF Thread, Kind
  <2>2. \A x : IsFiniteSet({x})
    BY FS_Singleton
  <2>. QED
    BY <2>1, <2>2, FS_Union
<1>2. Follows(Thread)
  BY <1>1, AllFollow
<1>3. WifiTurn => (initStatus \in {"SUCCESS", "FAIL"} => OneAsks(Thread) \/ wifiInitStatus # "DEFAULT")
  BY DEF WifiTurn, OneAsks, Asking
<1>. QED
  BY <1>2, <1>3, WifiTurnAlways, PTL DEF Follows, WifiFollows
=============================================================================
