--------------------------- MODULE EADSessionProofs ---------------------------
(* Proofs about EADSession, for any accessories and any bounds.            *)
EXTENDS EADSession, TemporalInduction, TLAPS

\* A notification waits among others.
Waits(n, s) == \E i \in DOMAIN s : s[i] = n

\* a is attached, or the main thread is still to be told that it is not.
Told(a) == a \in connected \/ Waits(<<"disconnect", a>>, notices)

\* The main thread is about to forget whatever accessory is on record.
Forgets == pc["main"] \in {"setup", "assign"} /\ arg["main"] = NoAcc

\* The communication thread has still to try the accessory on record, or has
\* tried and is about to forget it.
FindsOut ==
  /\ opener = "comm"
  /\ \/ pc["comm"] \in {"open", "alloc"}
     \/ pc["comm"] \in {"created", "setup", "assign"} /\ arg["comm"] = NoAcc

\* Only the thread that has set _isOpeningSession makes a session, and there is
\* none until it does.  The communication thread matches accessories under that
\* flag alone.
Owned ==
  /\ pc["main"] \in {"alloc", "created", "opened"} => opener = "main"
  /\ pc["comm"] \in InOpen \ {"open"} => opener = "comm"
  /\ opener = "comm" /\ pc["comm"] # "opened" => session = NoAcc

IInv ==
  /\ TypeOK
  /\ bytesWritten + left < Size
  /\ Owned
  /\ pc["main"] \in {"setup", "assign"} /\ arg["main"] # NoAcc => Told(arg["main"])
  /\ accessory # NoAcc => Told(accessory) \/ Forgets \/ FindsOut
-----------------------------------------------------------------------------
(* Notifications wait in order, and none but the first is consumed.        *)

\* What waits goes on waiting behind an addition, which waits too.
LEMMA NoticeAppended ==
  ASSUME NEW S, NEW s \in Seq(S), NEW n \in S
  PROVE  /\ Append(s, n) \in Seq(S)
         /\ Waits(n, Append(s, n))
         /\ \A m : Waits(m, s) => Waits(m, Append(s, n))
<1>1. /\ Append(s, n) \in Seq(S)
      /\ DOMAIN Append(s, n) = 1 .. Len(s) + 1 /\ DOMAIN s = 1 .. Len(s) /\ Len(s) \in Nat
      /\ Append(s, n)[Len(s) + 1] = n
      /\ \A i \in 1 .. Len(s) : Append(s, n)[i] = s[i]
  OBVIOUS
<1> QED BY <1>1 DEF Waits

\* All but the first go on waiting.
LEMMA NoticeTaken ==
  ASSUME NEW S, NEW s \in Seq(S), s # <<>>
  PROVE  /\ Head(s) \in S /\ Tail(s) \in Seq(S)
         /\ \A m : Waits(m, s) => m = Head(s) \/ Waits(m, Tail(s))
<1>1. /\ Head(s) \in S /\ Tail(s) \in Seq(S) /\ Len(s) \in Nat \ {0}
      /\ Head(s) = s[1] /\ DOMAIN s = 1 .. Len(s) /\ DOMAIN Tail(s) = 1 .. Len(s) - 1
      /\ \A i \in 1 .. Len(s) - 1 : Tail(s)[i] = s[i + 1]
  OBVIOUS
<1>2. SUFFICES ASSUME NEW m, NEW i \in DOMAIN s, s[i] = m, m # Head(s)
               PROVE  Waits(m, Tail(s))
  BY <1>1 DEF Waits
<1>3. i - 1 \in 1 .. Len(s) - 1 /\ Tail(s)[i - 1] = m
  BY <1>1, <1>2
<1> QED BY <1>1, <1>3 DEF Waits
-----------------------------------------------------------------------------
(* The invariant holds initially, and every action keeps it.               *)

USE DEF frameVars, sessVars, writeVars, mainVars

\* No accessory, no session, and both threads idle.
LEMMA Initial == Init => IInv
<1> SUFFICES ASSUME Init PROVE IInv
  OBVIOUS
<1>1. TypeOK
  <2>1. notices \in Seq({"connect", "disconnect"} \X Acc) /\ queue \in Seq(Block)
    BY DEF Init
  <2>2. left \in 0 .. Size /\ bytesWritten \in -1 .. Size - 1
    BY EADAssumption DEF Init
  <2>3. /\ pc \in [Thread -> InOpen \cup {"idle", "ready", "failed", "write"}]
        /\ arg \in [Thread -> Accessory] /\ pc["main"] = "idle"
    BY DEF Init, Thread, Accessory
  <2> QED BY <2>1, <2>2, <2>3 DEF Init, TypeOK, Thread, Accessory, Link
<1>2. bytesWritten + left < Size
  BY EADAssumption DEF Init
<1>3. Owned /\ accessory = NoAcc /\ pc["main"] = "idle"
  BY DEF Init, Owned, InOpen, Thread
<1> QED BY <1>1, <1>2, <1>3 DEF IInv

\* Only with no session and nobody opening does openSession go on, and sets the flag.
LEMMA OpenSessionKeeps ==
  ASSUME IInv, NEW t \in Thread, OpenSession(t)
  PROVE  IInv'
<1> USE EADAssumption DEF OpenSession, AfterOpen, Goto
<1>1. TypeOK'
  BY DEF IInv, TypeOK, Thread, Accessory, Link, InOpen, Block
<1>2. (bytesWritten + left < Size)'
  BY DEF IInv, TypeOK
<1>3. Owned'
  BY DEF IInv, TypeOK, Owned, Thread, InOpen
<1>4. (pc["main"] \in {"setup", "assign"} /\ arg["main"] # NoAcc => Told(arg["main"]))'
  BY DEF IInv, TypeOK, Told, Thread, InOpen
<1>5. (accessory # NoAcc => Told(accessory) \/ Forgets \/ FindsOut)'
  BY DEF IInv, TypeOK, Owned, Told, Forgets, FindsOut, Thread, Accessory, InOpen
<1> QED BY <1>1, <1>2, <1>3, <1>4, <1>5 DEF IInv

\* The accessory matched is attached at this moment.
LEMMA MarryBLEKeeps ==
  ASSUME IInv, NEW t \in Thread, MarryBLE(t)
  PROVE  IInv'
<1> USE EADAssumption DEF MarryBLE, Goto
<1>1. TypeOK'
  BY DEF IInv, TypeOK, Thread, Accessory, Link, InOpen, Block
<1>2. (bytesWritten + left < Size)'
  BY DEF IInv, TypeOK
<1>3. Owned'
  BY DEF IInv, TypeOK, Owned, Thread, InOpen
<1>4. (pc["main"] \in {"setup", "assign"} /\ arg["main"] # NoAcc => Told(arg["main"]))'
  BY DEF IInv, TypeOK, Told, Thread, InOpen
<1>5. (accessory # NoAcc => Told(accessory) \/ Forgets \/ FindsOut)'
  BY DEF IInv, TypeOK, Owned, Told, Forgets, FindsOut, Thread, Accessory, InOpen
<1> QED BY <1>1, <1>2, <1>3, <1>4, <1>5 DEF IInv

\* An accessory set up already is on record already; to forget none is to be done.
LEMMA SetupControllerKeeps ==
  ASSUME IInv, NEW t \in Thread, SetupController(t)
  PROVE  IInv'
<1> USE EADAssumption DEF SetupController, AfterSetup, CloseSession, Goto
<1>1. TypeOK'
  BY DEF IInv, TypeOK, Thread, Accessory, Link, InOpen, Block
<1>2. (bytesWritten + left < Size)'
  BY DEF IInv, TypeOK
<1>3. Owned'
  BY DEF IInv, TypeOK, Owned, Thread, InOpen
<1>4. (pc["main"] \in {"setup", "assign"} /\ arg["main"] # NoAcc => Told(arg["main"]))'
  BY DEF IInv, TypeOK, Told, Thread, InOpen
<1>5. (accessory # NoAcc => Told(accessory) \/ Forgets \/ FindsOut)'
  BY DEF IInv, TypeOK, Owned, Told, Forgets, FindsOut, Thread, Accessory, InOpen
<1> QED BY <1>1, <1>2, <1>3, <1>4, <1>5 DEF IInv

\* What the main thread puts on record it will be told of; what the communication
\* thread puts on record it tries next.
LEMMA SetAccessoryKeeps ==
  ASSUME IInv, NEW t \in Thread, SetAccessory(t)
  PROVE  IInv'
<1> USE EADAssumption DEF SetAccessory, AfterSetup, Goto
<1>1. TypeOK'
  BY DEF IInv, TypeOK, Thread, Accessory, Link, InOpen, Block
<1>2. (bytesWritten + left < Size)'
  BY DEF IInv, TypeOK
<1>3. Owned'
  BY DEF IInv, TypeOK, Owned, Thread, InOpen
<1>4. (pc["main"] \in {"setup", "assign"} /\ arg["main"] # NoAcc => Told(arg["main"]))'
  BY DEF IInv, TypeOK, Told, Thread, InOpen
<1>5. (accessory # NoAcc => Told(accessory) \/ Forgets \/ FindsOut)'
  BY DEF IInv, TypeOK, Owned, Told, Forgets, FindsOut, Thread, Accessory, InOpen
<1> QED BY <1>1, <1>2, <1>3, <1>4, <1>5 DEF IInv

\* No session is made with an accessory that is gone, and that thread forgets it next.
LEMMA AllocSessionKeeps ==
  ASSUME IInv, NEW t \in Thread, NEW ok \in BOOLEAN, AllocSession(t, ok)
  PROVE  IInv'
<1> USE EADAssumption DEF AllocSession, Goto
<1>1. TypeOK'
  BY DEF IInv, TypeOK, Thread, Accessory, Link, InOpen, Block
<1>2. (bytesWritten + left < Size)'
  BY DEF IInv, TypeOK
<1>3. Owned'
  BY DEF IInv, TypeOK, Owned, Thread, InOpen
<1>4. (pc["main"] \in {"setup", "assign"} /\ arg["main"] # NoAcc => Told(arg["main"]))'
  BY DEF IInv, TypeOK, Told, Thread, InOpen
<1>5. (accessory # NoAcc => Told(accessory) \/ Forgets \/ FindsOut)'
  BY DEF IInv, TypeOK, Owned, Told, Forgets, FindsOut, Thread, Accessory, InOpen
<1> QED BY <1>1, <1>2, <1>3, <1>4, <1>5 DEF IInv

\* The session is made, or else what is on record is about to be forgotten.
LEMMA SetSessionKeeps ==
  ASSUME IInv, NEW t \in Thread, SetSession(t)
  PROVE  IInv'
<1> USE EADAssumption DEF SetSession, Goto
<1>1. TypeOK'
  BY DEF IInv, TypeOK, Thread, Accessory, Link, InOpen, Block
<1>2. (bytesWritten + left < Size)'
  BY DEF IInv, TypeOK
<1>3. Owned'
  BY DEF IInv, TypeOK, Owned, Thread, InOpen
<1>4. (pc["main"] \in {"setup", "assign"} /\ arg["main"] # NoAcc => Told(arg["main"]))'
  BY DEF IInv, TypeOK, Told, Thread, InOpen
<1>5. (accessory # NoAcc => Told(accessory) \/ Forgets \/ FindsOut)'
  BY DEF IInv, TypeOK, Owned, Told, Forgets, FindsOut, Thread, Accessory, InOpen
<1> QED BY <1>1, <1>2, <1>3, <1>4, <1>5 DEF IInv

\* The flag is lowered when nothing is left to find out.
LEMMA OpenedKeeps ==
  ASSUME IInv, NEW t \in Thread, Opened(t)
  PROVE  IInv'
<1> USE EADAssumption DEF Opened, Goto
<1>1. TypeOK'
  BY DEF IInv, TypeOK, Thread, Accessory, Link, InOpen, Block
<1>2. (bytesWritten + left < Size)'
  BY DEF IInv, TypeOK
<1>3. Owned'
  BY DEF IInv, TypeOK, Owned, Thread, InOpen
<1>4. (pc["main"] \in {"setup", "assign"} /\ arg["main"] # NoAcc => Told(arg["main"]))'
  BY DEF IInv, TypeOK, Told, Thread, InOpen
<1>5. (accessory # NoAcc => Told(accessory) \/ Forgets \/ FindsOut)'
  BY DEF IInv, TypeOK, Owned, Told, Forgets, FindsOut, Thread, Accessory, InOpen
<1> QED BY <1>1, <1>2, <1>3, <1>4, <1>5 DEF IInv

\* A notification more takes none away.
LEMMA AttachKeeps ==
  ASSUME IInv, NEW a \in Acc, Attach(a)
  PROVE  IInv'
<1> USE EADAssumption DEF Attach
<1> DEFINE S == {"connect", "disconnect"} \X Acc
<1>0. /\ notices' \in Seq(S)
      /\ \A m : Waits(m, notices) => Waits(m, notices')
  <2>1. notices \in Seq(S) /\ <<"connect", a>> \in S /\ notices' = Append(notices, <<"connect", a>>)
    BY DEF IInv, TypeOK
  <2> HIDE DEF S
  <2> QED BY <2>1, NoticeAppended
<1>1. TypeOK'
  BY <1>0 DEF IInv, TypeOK, Thread, Accessory, Link, InOpen, Block
<1>2. (bytesWritten + left < Size)'
  BY DEF IInv, TypeOK
<1>3. Owned'
  BY DEF IInv, TypeOK, Owned, Thread, InOpen
<1>4. (pc["main"] \in {"setup", "assign"} /\ arg["main"] # NoAcc => Told(arg["main"]))'
  BY <1>0 DEF IInv, TypeOK, Told, Thread, InOpen
<1>5. (accessory # NoAcc => Told(accessory) \/ Forgets \/ FindsOut)'
  BY <1>0 DEF IInv, TypeOK, Owned, Told, Forgets, FindsOut, Thread, Accessory, InOpen
<1> QED BY <1>1, <1>2, <1>3, <1>4, <1>5 DEF IInv

\* Whoever holds the accessory that goes, its notification is now to come.
LEMMA DetachKeeps ==
  ASSUME IInv, NEW a \in Acc, Detach(a)
  PROVE  IInv'
<1> USE EADAssumption DEF Detach
<1> DEFINE S == {"connect", "disconnect"} \X Acc
<1>0. /\ notices' \in Seq(S)
      /\ \A m : Waits(m, notices) => Waits(m, notices')
      /\ Waits(<<"disconnect", a>>, notices')
  <2>1. notices \in Seq(S) /\ <<"disconnect", a>> \in S /\ notices' = Append(notices, <<"disconnect", a>>)
    BY DEF IInv, TypeOK
  <2> HIDE DEF S
  <2> QED BY <2>1, NoticeAppended
<1>1. TypeOK'
  BY <1>0 DEF IInv, TypeOK, Thread, Accessory, Link, InOpen, Block
<1>2. (bytesWritten + left < Size)'
  BY DEF IInv, TypeOK
<1>3. Owned'
  BY DEF IInv, TypeOK, Owned, Thread, InOpen
<1>4. (pc["main"] \in {"setup", "assign"} /\ arg["main"] # NoAcc => Told(arg["main"]))'
  BY <1>0 DEF IInv, TypeOK, Told, Thread, InOpen
<1>5. (accessory # NoAcc => Told(accessory) \/ Forgets \/ FindsOut)'
  BY <1>0 DEF IInv, TypeOK, Owned, Told, Forgets, FindsOut, Thread, Accessory, InOpen
<1> QED BY <1>1, <1>2, <1>3, <1>4, <1>5 DEF IInv

\* The notification consumed is of no disconnection.
LEMMA AccessoryDidConnectKeeps ==
  ASSUME IInv, AccessoryDidConnect
  PROVE  IInv'
<1> USE EADAssumption DEF AccessoryDidConnect, Goto
<1> DEFINE S == {"connect", "disconnect"} \X Acc
<1>0. /\ Head(notices) \in S /\ notices' \in Seq(S)
      /\ \A m : Waits(m, notices) => m = Head(notices) \/ Waits(m, notices')
  <2>1. notices \in Seq(S) /\ notices # <<>> /\ notices' = Tail(notices)
    BY DEF IInv, TypeOK
  <2> HIDE DEF S
  <2> QED BY <2>1, NoticeTaken
<1>1. TypeOK'
  BY <1>0 DEF IInv, TypeOK, Thread, Accessory, Link, InOpen, Block
<1>2. (bytesWritten + left < Size)'
  BY DEF IInv, TypeOK
<1>3. Owned'
  BY DEF IInv, TypeOK, Owned, Thread, InOpen
<1>4. (pc["main"] \in {"setup", "assign"} /\ arg["main"] # NoAcc => Told(arg["main"]))'
  BY <1>0 DEF IInv, TypeOK, Told, Thread, InOpen
<1>5. (accessory # NoAcc => Told(accessory) \/ Forgets \/ FindsOut)'
  BY <1>0 DEF IInv, TypeOK, Owned, Told, Forgets, FindsOut, Thread, Accessory, InOpen
<1> QED BY <1>1, <1>2, <1>3, <1>4, <1>5 DEF IInv

\* The accessory on record is forgotten next, if the notification is about it.
LEMMA AccessoryDidDisconnectKeeps ==
  ASSUME IInv, AccessoryDidDisconnect
  PROVE  IInv'
<1> USE EADAssumption DEF AccessoryDidDisconnect, Goto
<1> DEFINE S == {"connect", "disconnect"} \X Acc
<1>0. /\ Head(notices) \in S /\ notices' \in Seq(S)
      /\ \A m : Waits(m, notices) => m = Head(notices) \/ Waits(m, notices')
  <2>1. notices \in Seq(S) /\ notices # <<>> /\ notices' = Tail(notices)
    BY DEF IInv, TypeOK
  <2> HIDE DEF S
  <2> QED BY <2>1, NoticeTaken
<1>1. TypeOK'
  BY <1>0 DEF IInv, TypeOK, Thread, Accessory, Link, InOpen, Block
<1>2. (bytesWritten + left < Size)'
  BY DEF IInv, TypeOK
<1>3. Owned'
  BY DEF IInv, TypeOK, Owned, Thread, InOpen
<1>4. (pc["main"] \in {"setup", "assign"} /\ arg["main"] # NoAcc => Told(arg["main"]))'
  BY <1>0 DEF IInv, TypeOK, Told, Thread, InOpen
<1>5. (accessory # NoAcc => Told(accessory) \/ Forgets \/ FindsOut)'
  BY <1>0 DEF IInv, TypeOK, Owned, Told, Forgets, FindsOut, Thread, Accessory, InOpen
<1> QED BY <1>1, <1>2, <1>3, <1>4, <1>5 DEF IInv

\* To lose a session takes nothing away that the invariant asks for.
LEMMA StreamEndKeeps ==
  ASSUME IInv, StreamEnd
  PROVE  IInv'
<1> USE EADAssumption DEF StreamEnd
<1>1. TypeOK'
  BY DEF IInv, TypeOK, Thread, Accessory, Link, InOpen, Block
<1>2. (bytesWritten + left < Size)'
  BY DEF IInv, TypeOK
<1>3. Owned'
  BY DEF IInv, TypeOK, Owned, Thread, InOpen
<1>4. (pc["main"] \in {"setup", "assign"} /\ arg["main"] # NoAcc => Told(arg["main"]))'
  BY DEF IInv, TypeOK, Told, Thread, InOpen
<1>5. (accessory # NoAcc => Told(accessory) \/ Forgets \/ FindsOut)'
  BY DEF IInv, TypeOK, Owned, Told, Forgets, FindsOut, Thread, Accessory, InOpen
<1> QED BY <1>1, <1>2, <1>3, <1>4, <1>5 DEF IInv

\* The blocks and the timer of a write concern the write alone.
LEMMA RunBlockKeeps ==
  ASSUME IInv, RunBlock
  PROVE  IInv'
<1> USE EADAssumption DEF RunBlock
<1>0. queue' \in Seq(Block)
  <2>1. queue \in Seq(Block) /\ "arm" \in Block /\ "disarm" \in Block
    BY DEF IInv, TypeOK, Block
  <2> HIDE DEF Block
  <2> QED BY <2>1
<1>1. TypeOK'
  BY <1>0 DEF IInv, TypeOK, Thread, Accessory, Link, InOpen
<1>2. (bytesWritten + left < Size)'
  BY DEF IInv, TypeOK
<1>3. Owned'
  BY DEF IInv, TypeOK, Owned, Thread, InOpen
<1>4. (pc["main"] \in {"setup", "assign"} /\ arg["main"] # NoAcc => Told(arg["main"]))'
  BY DEF IInv, TypeOK, Told, Thread, InOpen
<1>5. (accessory # NoAcc => Told(accessory) \/ Forgets \/ FindsOut)'
  BY DEF IInv, TypeOK, Owned, Told, Forgets, FindsOut, Thread, Accessory, InOpen
<1> QED BY <1>1, <1>2, <1>3, <1>4, <1>5 DEF IInv

\* See RunBlockKeeps.
LEMMA CancelWriteDataKeeps ==
  ASSUME IInv, CancelWriteData
  PROVE  IInv'
<1> USE EADAssumption DEF CancelWriteData
<1>1. TypeOK'
  BY DEF IInv, TypeOK, Thread, Accessory, Link, InOpen, Block
<1>2. (bytesWritten + left < Size)'
  BY DEF IInv, TypeOK
<1>3. Owned'
  BY DEF IInv, TypeOK, Owned, Thread, InOpen
<1>4. (pc["main"] \in {"setup", "assign"} /\ arg["main"] # NoAcc => Told(arg["main"]))'
  BY DEF IInv, TypeOK, Told, Thread, InOpen
<1>5. (accessory # NoAcc => Told(accessory) \/ Forgets \/ FindsOut)'
  BY DEF IInv, TypeOK, Owned, Told, Forgets, FindsOut, Thread, Accessory, InOpen
<1> QED BY <1>1, <1>2, <1>3, <1>4, <1>5 DEF IInv

\* An idle communication thread has set no flag.
LEMMA OpenDeviceKeeps ==
  ASSUME IInv, OpenDevice
  PROVE  IInv'
<1> USE EADAssumption DEF OpenDevice, Goto
<1>1. TypeOK'
  BY DEF IInv, TypeOK, Thread, Accessory, Link, InOpen, Block
<1>2. (bytesWritten + left < Size)'
  BY DEF IInv, TypeOK
<1>3. Owned'
  BY DEF IInv, TypeOK, Owned, Thread, InOpen
<1>4. (pc["main"] \in {"setup", "assign"} /\ arg["main"] # NoAcc => Told(arg["main"]))'
  BY DEF IInv, TypeOK, Told, Thread, InOpen
<1>5. (accessory # NoAcc => Told(accessory) \/ Forgets \/ FindsOut)'
  BY DEF IInv, TypeOK, Owned, Told, Forgets, FindsOut, Thread, Accessory, InOpen
<1> QED BY <1>1, <1>2, <1>3, <1>4, <1>5 DEF IInv

\* See StreamEndKeeps.
LEMMA CloseDeviceKeeps ==
  ASSUME IInv, CloseDevice
  PROVE  IInv'
<1> USE EADAssumption DEF CloseDevice, CloseSession, Goto
<1>1. TypeOK'
  BY DEF IInv, TypeOK, Thread, Accessory, Link, InOpen, Block
<1>2. (bytesWritten + left < Size)'
  BY DEF IInv, TypeOK
<1>3. Owned'
  BY DEF IInv, TypeOK, Owned, Thread, InOpen
<1>4. (pc["main"] \in {"setup", "assign"} /\ arg["main"] # NoAcc => Told(arg["main"]))'
  BY DEF IInv, TypeOK, Told, Thread, InOpen
<1>5. (accessory # NoAcc => Told(accessory) \/ Forgets \/ FindsOut)'
  BY DEF IInv, TypeOK, Owned, Told, Forgets, FindsOut, Thread, Accessory, InOpen
<1> QED BY <1>1, <1>2, <1>3, <1>4, <1>5 DEF IInv

\* A failure is noted by the communication thread alone.
LEMMA ReceiveFailsKeeps ==
  ASSUME IInv, ReceiveFails
  PROVE  IInv'
<1> USE EADAssumption DEF ReceiveFails, Goto
<1>1. TypeOK'
  BY DEF IInv, TypeOK, Thread, Accessory, Link, InOpen, Block
<1>2. (bytesWritten + left < Size)'
  BY DEF IInv, TypeOK
<1>3. Owned'
  BY DEF IInv, TypeOK, Owned, Thread, InOpen
<1>4. (pc["main"] \in {"setup", "assign"} /\ arg["main"] # NoAcc => Told(arg["main"]))'
  BY DEF IInv, TypeOK, Told, Thread, InOpen
<1>5. (accessory # NoAcc => Told(accessory) \/ Forgets \/ FindsOut)'
  BY DEF IInv, TypeOK, Owned, Told, Forgets, FindsOut, Thread, Accessory, InOpen
<1> QED BY <1>1, <1>2, <1>3, <1>4, <1>5 DEF IInv

\* A write starts with all its bytes left.
LEMMA SendToDeviceKeeps ==
  ASSUME IInv, SendToDevice
  PROVE  IInv'
<1> USE EADAssumption DEF SendToDevice, Goto
<1>0. queue' \in Seq(Block)
  <2>1. queue \in Seq(Block) /\ "arm" \in Block /\ "disarm" \in Block
    BY DEF IInv, TypeOK, Block
  <2> HIDE DEF Block
  <2> QED BY <2>1
<1>1. TypeOK'
  BY <1>0 DEF IInv, TypeOK, Thread, Accessory, Link, InOpen
<1>2. (bytesWritten + left < Size)'
  BY DEF IInv, TypeOK
<1>3. Owned'
  BY DEF IInv, TypeOK, Owned, Thread, InOpen
<1>4. (pc["main"] \in {"setup", "assign"} /\ arg["main"] # NoAcc => Told(arg["main"]))'
  BY DEF IInv, TypeOK, Told, Thread, InOpen
<1>5. (accessory # NoAcc => Told(accessory) \/ Forgets \/ FindsOut)'
  BY DEF IInv, TypeOK, Owned, Told, Forgets, FindsOut, Thread, Accessory, InOpen
<1> QED BY <1>1, <1>2, <1>3, <1>4, <1>5 DEF IInv

\* What is written is no longer left.
LEMMA WriteBytesKeeps ==
  ASSUME IInv, NEW n \in 1 .. left, WriteBytes(n)
  PROVE  IInv'
<1> USE EADAssumption DEF WriteBytes
<1>1. TypeOK'
  BY DEF IInv, TypeOK, Thread, Accessory, Link, InOpen, Block
<1>2. (bytesWritten + left < Size)'
  BY DEF IInv, TypeOK
<1>3. Owned'
  BY DEF IInv, TypeOK, Owned, Thread, InOpen
<1>4. (pc["main"] \in {"setup", "assign"} /\ arg["main"] # NoAcc => Told(arg["main"]))'
  BY DEF IInv, TypeOK, Told, Thread, InOpen
<1>5. (accessory # NoAcc => Told(accessory) \/ Forgets \/ FindsOut)'
  BY DEF IInv, TypeOK, Owned, Told, Forgets, FindsOut, Thread, Accessory, InOpen
<1> QED BY <1>1, <1>2, <1>3, <1>4, <1>5 DEF IInv

\* Where the thread goes is outside openSession.
LEMMA WriteEndKeeps ==
  ASSUME IInv, NEW f \in BOOLEAN, WriteEnd(f)
  PROVE  IInv'
<1> USE EADAssumption DEF WriteEnd, Goto
<1>0. queue' \in Seq(Block)
  <2>1. queue \in Seq(Block) /\ "arm" \in Block /\ "disarm" \in Block
    BY DEF IInv, TypeOK, Block
  <2> HIDE DEF Block
  <2> QED BY <2>1
<1>1. TypeOK'
  BY <1>0 DEF IInv, TypeOK, Thread, Accessory, Link, InOpen
<1>2. (bytesWritten + left < Size)'
  BY DEF IInv, TypeOK
<1>3. Owned'
  BY DEF IInv, TypeOK, Owned, Thread, InOpen
<1>4. (pc["main"] \in {"setup", "assign"} /\ arg["main"] # NoAcc => Told(arg["main"]))'
  BY DEF IInv, TypeOK, Told, Thread, InOpen
<1>5. (accessory # NoAcc => Told(accessory) \/ Forgets \/ FindsOut)'
  BY DEF IInv, TypeOK, Owned, Told, Forgets, FindsOut, Thread, Accessory, InOpen
<1> QED BY <1>1, <1>2, <1>3, <1>4, <1>5 DEF IInv

\* Every step is one of the actions above.
LEMMA Inductive == IInv /\ [Next]_vars => IInv'
<1> SUFFICES ASSUME IInv, [Next]_vars PROVE IInv'
  OBVIOUS
<1>1. CASE Framework
  <2>1. CASE Check
    BY <2>1 DEF Check, IInv, TypeOK, Owned, Told, Forgets, FindsOut
  <2> QED BY <1>1, <2>1, AttachKeeps, DetachKeeps DEF Framework
<1>2. CASE Main
  BY <1>2, AccessoryDidConnectKeeps, AccessoryDidDisconnectKeeps, StreamEndKeeps,
     RunBlockKeeps, CancelWriteDataKeeps DEF Main
<1>3. CASE Comm
  BY <1>3, OpenDeviceKeeps, CloseDeviceKeeps, ReceiveFailsKeeps,
     SendToDeviceKeeps, WriteBytesKeeps, WriteEndKeeps DEF Comm
<1>4. ASSUME NEW t \in Thread, Session(t) \/ AllocSession(t, TRUE) PROVE IInv'
  BY <1>4, OpenSessionKeeps, MarryBLEKeeps, SetupControllerKeeps, SetAccessoryKeeps,
     AllocSessionKeeps, SetSessionKeeps, OpenedKeeps DEF Session
<1>5. CASE UNCHANGED vars
  BY <1>5 DEF vars, IInv, TypeOK, Owned, Told, Forgets, FindsOut
<1> QED BY <1>1, <1>2, <1>3, <1>4, <1>5 DEF Next

\* No interleaving of the two threads leaves the session's state malformed; in
\* particular _isOpeningSession is set only while the thread that set it is
\* still in openSession.
THEOREM TypeCorrect == Spec => []TypeOK
<1>1. IInv => TypeOK
  BY DEF IInv
<1> QED BY <1>1, Initial, Inductive, PTL DEF Spec

\* Although both threads match and forget accessories without a lock, one that
\* is gone stays on record only as long as somebody is about to learn of it.
THEOREM StaleAccessoryNoticed == Spec => []StaleNoticed
<1>1. IInv => StaleNoticed
  <2> SUFFICES ASSUME IInv, accessory \in Acc \ connected PROVE StaleNoticed
    BY DEF StaleNoticed
  <2>1. Told(accessory) \/ Forgets \/ FindsOut
    BY EADAssumption DEF IInv
  <2>2. CASE Told(accessory)
    BY <2>2 DEF Told, Waits, StaleNoticed
  <2>3. CASE Forgets \/ FindsOut
    BY <2>3 DEF Forgets, FindsOut, StaleNoticed, Thread, InOpen
  <2> QED BY <2>1, <2>2, <2>3
<1> QED BY <1>1, Initial, Inductive, PTL DEF Spec
-----------------------------------------------------------------------------
(* The main thread is in its run loop again and again.                     *)

\* What the steps that fairness speaks of need to be taken is no more than their
\* guards.  (The provers do not look into ENABLED.)
GuardsEnable ==
  /\ pc["main"] \in InOpen => ENABLED <<Session("main")>>_vars
  /\ pc["comm"] \in InOpen => ENABLED <<Session("comm")>>_vars
  /\ pc["comm"] = "alloc" /\ accessory \in connected =>
       ENABLED <<AllocSession("comm", TRUE)>>_vars
  /\ pc["main"] = "idle" /\ notices # <<>> /\ Head(notices)[1] = "connect" =>
       ENABLED <<AccessoryDidConnect>>_vars
  /\ pc["main"] = "idle" /\ notices # <<>> /\ Head(notices)[1] = "disconnect" =>
       ENABLED <<AccessoryDidDisconnect>>_vars
  /\ pc["main"] = "idle" /\ link \in {"dead", "gone"} => ENABLED <<StreamEnd>>_vars
  /\ pc["main"] = "idle" /\ queue # <<>> => ENABLED <<RunBlock>>_vars
  /\ pc["main"] = "idle" /\ armed => ENABLED <<CancelWriteData>>_vars
  /\ pc["comm"] = "idle" => ENABLED <<OpenDevice>>_vars
  /\ pc["comm"] = "ready" /\ session = NoAcc => ENABLED <<ReceiveFails>>_vars
  /\ pc["comm"] = "failed" => ENABLED <<pc["comm"] = "failed" /\ CloseDevice>>_vars
  /\ pc["comm"] = "write" /\ (~isWriteData \/ session = NoAcc) =>
       ENABLED <<WriteEnd(FALSE)>>_vars

\* How far the main thread is from its run loop: to open the session it may match
\* an accessory and set it up, and forget it again when no session can be made.
Forgetting == arg["main"] = NoAcc
Flagless(n) == IF opener = "main" THEN n ELSE n + 4
Rank ==
  CASE pc["main"] = "opened" -> 1
    [] pc["main"] = "assign" -> IF Forgetting THEN 2 ELSE Flagless(7)
    [] pc["main"] = "setup" -> IF Forgetting THEN 3 ELSE Flagless(8)
    [] pc["main"] = "created" -> 4
    [] pc["main"] = "alloc" -> 5
    [] pc["main"] = "open" -> Flagless(6)
    [] pc["main"] = "marry" -> Flagless(9)
    [] OTHER -> 0

AtMost(n) == pc["main"] \in InOpen /\ Rank <= n

LEMMA RankBounded == TypeOK => Rank \in 0 .. 13 /\ (pc["main"] \in InOpen => Rank > 0)
BY DEF Rank, Flagless, InOpen

LEMMA RankBoundedNext ==
  TypeOK' => (Rank \in 0 .. 13 /\ (pc["main"] \in InOpen => Rank > 0))'
BY RankBounded, PTL

\* Every step of openSession is one nearer to the run loop.
LEMMA RankFalls ==
  ASSUME IInv, Session("main") \/ AllocSession("main", TRUE)
  PROVE  pc'["main"] = "idle" \/ Rank' < Rank
<1> USE EADAssumption DEF Goto, Forgetting, Flagless, Thread, Accessory
<1>0. /\ pc \in [Thread -> InOpen \cup {"idle", "ready", "failed", "write"}]
      /\ arg \in [Thread -> Accessory] /\ connected \subseteq Acc
      /\ opener \in Thread \cup {"nobody"}
  BY DEF IInv, TypeOK
<1>2. CASE OpenSession("main")
  BY <1>0, <1>2 DEF OpenSession, AfterOpen, Rank
<1>3. CASE MarryBLE("main")
  BY <1>0, <1>3 DEF MarryBLE, Rank
<1>4. CASE SetupController("main")
  BY <1>0, <1>4 DEF SetupController, AfterSetup, Rank
<1>5. CASE SetAccessory("main")
  BY <1>0, <1>5 DEF SetAccessory, AfterSetup, Rank
<1>6. ASSUME NEW ok, AllocSession("main", ok) PROVE Rank' < Rank
  BY <1>0, <1>6 DEF AllocSession, Rank
<1>7. CASE SetSession("main")
  BY <1>0, <1>7 DEF SetSession, Rank
<1>8. CASE Opened("main")
  BY <1>0, <1>8 DEF Opened
<1>. QED
  BY <1>2, <1>3, <1>4, <1>5, <1>6, <1>7, <1>8 DEF Session

\* Nobody else moves the main thread, or clears the flag it has set.
LEMMA RankStays ==
  ASSUME IInv, pc["main"] \in InOpen, [Next]_vars, ~(Session("main") \/ AllocSession("main", TRUE))
  PROVE  pc'["main"] = pc["main"] /\ Rank' = Rank
<1> USE DEF Goto, Thread
<1>0. /\ pc \in [Thread -> InOpen \cup {"idle", "ready", "failed", "write"}]
      /\ arg \in [Thread -> Accessory] /\ opener \in Thread \cup {"nobody"}
      /\ pc["main"] # "idle"
  BY DEF IInv, TypeOK, InOpen
<1>1. CASE Framework \/ UNCHANGED vars
  BY <1>1 DEF Framework, Check, Attach, Detach, vars, Rank, Forgetting, Flagless
<1>2. ~Main
  BY <1>0 DEF Main, AccessoryDidConnect, AccessoryDidDisconnect, StreamEnd,
     RunBlock, CancelWriteData
<1>3. CASE Comm
  <2>1. pc'["main"] = pc["main"] /\ UNCHANGED <<arg, opener>>
    BY <1>0, <1>3 DEF Comm, OpenDevice, CloseDevice, ReceiveFails, SendToDevice, WriteBytes,
       WriteEnd
  <2>. QED
    BY <2>1 DEF Rank, Forgetting, Flagless
<1>4. CASE Session("comm") \/ AllocSession("comm", TRUE)
  <2>1. /\ pc'["main"] = pc["main"] /\ arg'["main"] = arg["main"]
        /\ opener = "main" <=> opener' = "main"
    BY <1>0, <1>4 DEF Session, OpenSession, MarryBLE, SetupController, SetAccessory,
       AllocSession, SetSession, Opened, AfterOpen, AfterSetup, IInv, Owned, InOpen
  <2>. QED
    BY <2>1 DEF Rank, Forgetting, Flagless
<1>. QED
  BY <1>1, <1>2, <1>3, <1>4 DEF Next

\* From at most n steps away the main thread is back in its run loop.
Returns(n) == FairSpec /\ []GuardsEnable => (AtMost(n) ~> pc["main"] = "idle")

LEMMA BothRun == FairSpec => ThreadRuns("main") /\ ThreadRuns("comm")
<1>1. (\A t \in Thread : ThreadRuns(t)) => ThreadRuns("main") /\ ThreadRuns("comm")
  BY DEF Thread
<1>. QED
  BY <1>1, PTL DEF FairSpec

LEMMA ReturnStep ==
  ASSUME NEW n \in Nat
  PROVE  Returns(n) => Returns(n + 1)
<1>0. TypeOK => pc["main"] = "idle" \/ pc["main"] \in InOpen
  BY DEF TypeOK, Thread
<1>1. ASSUME IInv, IInv', AtMost(n + 1), Session("main") \/ AllocSession("main", TRUE)
      PROVE  (AtMost(n))' \/ (pc["main"] = "idle")'
  <2>1. Rank \in 0 .. 13 /\ Rank' \in 0 .. 13
    BY <1>1, RankBounded, RankBoundedNext DEF IInv
  <2>2. pc'["main"] = "idle" \/ pc'["main"] \in InOpen
    BY <1>1 DEF IInv, TypeOK, Thread
  <2>3. pc'["main"] = "idle" \/ Rank' < Rank
    BY <1>1, RankFalls
  <2>. QED
    BY <1>1, <2>1, <2>2, <2>3 DEF AtMost
<1>2. ASSUME IInv, IInv', AtMost(n + 1), [Next]_vars
      PROVE  (AtMost(n + 1))' \/ (AtMost(n))' \/ (pc["main"] = "idle")'
  BY <1>1, <1>2, RankStays DEF AtMost
<1>3. GuardsEnable => (AtMost(n + 1) => ENABLED <<Session("main")>>_vars)
  BY DEF AtMost, GuardsEnable
<1>. QED
  BY <1>1, <1>2, <1>3, BothRun, Initial, Inductive, PTL DEF Returns, FairSpec, Spec, ThreadRuns

LEMMA AllReturn == \A n \in Nat : Returns(n)
<1>. DEFINE Return == [n \in Nat |-> Returns(n)]
<1>1. Returns(0)
  <2>1. IInv => ~AtMost(0)
    BY RankBounded DEF AtMost, IInv
  <2>. QED
    BY <2>1, Initial, Inductive, PTL DEF Returns, FairSpec, Spec
<1>2. ASSUME NEW n \in Nat PROVE Returns(n) => Returns(n + 1)
  BY ReturnStep
<1>3. \E U : Available(U) /\ \A n \in Nat : U[n] <=> Returns(n)
  <2>1. Available(Return)
    BY DEF Available
  <2>. QED
    BY <2>1
<1>. QED
  BY <1>1, <1>2, <1>3, FunctionInduction

LEMMA IdleAgain == FairSpec /\ []GuardsEnable => []<>(pc["main"] = "idle")
<1>1. Returns(13)
  BY AllReturn
<1>2. IInv => AtMost(13) \/ pc["main"] = "idle"
  BY RankBounded DEF AtMost, IInv, TypeOK, Thread
<1>. QED
  BY <1>1, <1>2, Initial, Inductive, PTL DEF Returns, FairSpec, Spec

-----------------------------------------------------------------------------
(* A write ends.  Its limit is a block that waits behind others for the    *)
(* main thread, which may have a session to open first, and notices to     *)
(* serve.                                                                  *)

Writing == pc["comm"] = "write"

\* Until its time is up, a write has its limit set, or in the queue behind
\* whatever else was put there.
LimitSet ==
  Writing /\ isWriteData => IF queue = <<>> THEN armed ELSE queue[Len(queue)] = "arm"

\* What the last block is does not change when the first is taken.
LEMMA LastBlock ==
  ASSUME NEW s \in Seq(Block)
  PROVE  /\ Len(s) \in Nat
         /\ s # <<>> => /\ Len(s) > 0 /\ Len(Tail(s)) = Len(s) - 1
                        /\ Tail(s) = <<>> => Head(s) = s[Len(s)]
                        /\ Tail(s) # <<>> => Tail(s)[Len(Tail(s))] = s[Len(s)]
         /\ \A b \in Block : Append(s, b) # <<>> /\ Append(s, b)[Len(Append(s, b))] = b
         /\ Len(s) <= 0 => s = <<>>
<1>0. \A r \in Seq(Block) : Len(r) = 0 <=> r = <<>>
  OBVIOUS
<1>1. Len(s) \in Nat /\ (Len(s) = 0 <=> s = <<>>)
  OBVIOUS
<1>2. ASSUME s # <<>>
      PROVE  /\ Len(s) > 0 /\ Len(Tail(s)) = Len(s) - 1 /\ Head(s) = s[1]
             /\ \A i \in 1 .. Len(s) - 1 : Tail(s)[i] = s[i + 1]
  BY <1>2
<1>3. ASSUME s # <<>>, Tail(s) = <<>> PROVE Head(s) = s[Len(s)]
  <2>1. Len(s) = 1
    <3>1. Tail(s) \in Seq(Block) => Len(Tail(s)) = 0
      BY <1>0, <1>3
    <3>2. Tail(s) \in Seq(Block)
      BY <1>3
    <3>. QED BY <1>1, <1>2, <1>3, <3>1, <3>2
  <2>. QED BY <1>2, <1>3, <2>1
<1>4. ASSUME s # <<>>, Tail(s) # <<>> PROVE Tail(s)[Len(Tail(s))] = s[Len(s)]
  <2>1. Tail(s) \in Seq(Block) /\ Len(Tail(s)) # 0
    <3>1. Tail(s) \in Seq(Block)
      BY <1>4
    <3>. QED BY <1>0, <1>4, <3>1
  <2>2. Len(s) - 1 \in 1 .. Len(s) - 1
    BY <1>1, <1>2, <1>4, <2>1
  <2>. QED BY <1>1, <1>2, <1>4, <2>2
<1>5. ASSUME NEW b \in Block
      PROVE  Append(s, b) # <<>> /\ Append(s, b)[Len(Append(s, b))] = b
  <2>1. Len(Append(s, b)) = Len(s) + 1 /\ Append(s, b)[Len(s) + 1] = b
    OBVIOUS
  <2>. QED BY <1>1, <2>1
<1>. QED BY <1>1, <1>2, <1>3, <1>4, <1>5

\* What the main thread, the framework and the write's own loop do to a write.
LEMMA WriteStep ==
  ASSUME IInv, Writing, [Next]_vars
  PROVE  \/ ~Writing'
         \/ /\ Writing'
            /\ \/ UNCHANGED <<isWriteData, queue, armed>> /\ pc'["main"] # pc["main"]
               \/ UNCHANGED <<isWriteData, queue, armed>> /\ pc'["main"] = pc["main"]
               \/ RunBlock \/ CancelWriteData
<1> USE DEF Writing, Goto
<1>0. pc \in [Thread -> InOpen \cup {"idle", "ready", "failed", "write"}]
  BY DEF IInv, TypeOK
<1>1. CASE Framework
  BY <1>1 DEF Framework, Check, Attach, Detach
<1>2. CASE Main
  BY <1>0, <1>2 DEF Main, AccessoryDidConnect, AccessoryDidDisconnect, StreamEnd,
     RunBlock, CancelWriteData, Thread
<1>3. CASE Comm
  BY <1>0, <1>3 DEF Comm, OpenDevice, CloseDevice, ReceiveFails, SendToDevice, WriteBytes,
     WriteEnd, Thread
<1>4. ASSUME NEW t \in Thread, Session(t) \/ AllocSession(t, TRUE)
      PROVE  UNCHANGED <<isWriteData, queue, armed>> /\ pc'["comm"] = pc["comm"]
  <2>1. pc[t] \in InOpen /\ t = "main"
    BY <1>0, <1>4 DEF Session, OpenSession, MarryBLE, SetupController, SetAccessory,
       AllocSession, SetSession, Opened, InOpen, Thread
  <2>. QED
    BY <1>0, <1>4, <2>1 DEF Session, OpenSession, MarryBLE, SetupController, SetAccessory,
       AllocSession, SetSession, Opened, AfterOpen, AfterSetup, Thread
<1>5. CASE UNCHANGED vars
  BY <1>5 DEF vars
<1>. QED
  BY <1>1, <1>2, <1>3, <1>4, <1>5 DEF Next

\* A write sets its limit as it begins; the communication thread sets none before it ends.
LEMMA LimitKept == IInv /\ LimitSet /\ [Next]_vars => LimitSet'
<1>. SUFFICES ASSUME IInv, LimitSet, [Next]_vars, Writing', isWriteData' PROVE LimitSet'
  BY DEF LimitSet
<1>0. queue \in Seq(Block) /\ pc \in [Thread -> InOpen \cup {"idle", "ready", "failed", "write"}]
  BY DEF IInv, TypeOK
<1>1. CASE ~Writing
  <2>1. SendToDevice
    BY <1>0, <1>1 DEF Next, Framework, Check, Attach, Detach, Main, AccessoryDidConnect,
       AccessoryDidDisconnect, StreamEnd, RunBlock, CancelWriteData, Comm, OpenDevice,
       CloseDevice, ReceiveFails, WriteBytes, WriteEnd, Session, OpenSession, MarryBLE,
       SetupController, SetAccessory, AllocSession, SetSession, Opened, AfterOpen,
       AfterSetup, Goto, Thread, Writing, vars
  <2>. QED
    BY <1>0, <2>1, LastBlock DEF SendToDevice, LimitSet, Block
<1>2. CASE Writing
  <2>1. CASE UNCHANGED <<isWriteData, queue, armed>>
    BY <1>2, <2>1 DEF LimitSet
  <2>2. CASE RunBlock
    BY <1>0, <1>2, <2>2, LastBlock DEF RunBlock, LimitSet
  <2>3. CASE CancelWriteData
    BY <2>3 DEF CancelWriteData
  <2>. QED
    BY <1>2, <2>1, <2>2, <2>3, WriteStep
<1>. QED
  BY <1>1, <1>2

\* The blocks in front of the limit are taken, whatever else the main thread does.
Waiting(n) == Writing /\ Len(queue) <= n
Drains(n) == FairSpec /\ []GuardsEnable => (Waiting(n) ~> ~Writing \/ queue = <<>>)

LEMMA DrainStep ==
  ASSUME NEW n \in Nat
  PROVE  Drains(n) => Drains(n + 1)
<1>0. IInv => queue \in Seq(Block)
  BY DEF IInv, TypeOK
<1>1. ASSUME IInv, Waiting(n + 1), [Next]_vars
      PROVE  (Waiting(n + 1))' \/ (~Writing \/ queue = <<>>)'
  <2>1. CASE RunBlock
    BY <1>0, <1>1, <2>1, LastBlock DEF RunBlock, Waiting, Writing
  <2>2. CASE UNCHANGED queue
    BY <1>1, <2>2 DEF Waiting
  <2>. QED
    BY <1>1, <2>1, <2>2, WriteStep DEF Waiting, CancelWriteData
<1>2. ASSUME IInv, Waiting(n + 1), RunBlock
      PROVE  (Waiting(n))'
  BY <1>0, <1>2, LastBlock DEF RunBlock, Waiting, Writing
<1>3. GuardsEnable =>
        (Waiting(n + 1) /\ pc["main"] = "idle" => queue = <<>> \/ ENABLED <<RunBlock>>_vars)
  BY DEF GuardsEnable
<1>4. Waiting(n + 1) => Writing
  BY DEF Waiting
<1>. QED
  BY <1>1, <1>2, <1>3, <1>4, IdleAgain, Initial, Inductive, PTL DEF Drains, FairSpec, Spec

LEMMA AllDrain == \A n \in Nat : Drains(n)
<1>. DEFINE Drain == [n \in Nat |-> Drains(n)]
<1>1. Drains(0)
  <2>1. IInv => (Waiting(0) => queue = <<>>)
    BY LastBlock DEF Waiting, IInv, TypeOK
  <2>. QED
    BY <2>1, Initial, Inductive, PTL DEF Drains, FairSpec, Spec
<1>2. ASSUME NEW n \in Nat PROVE Drains(n) => Drains(n + 1)
  BY DrainStep
<1>3. \E U : Available(U) /\ \A n \in Nat : U[n] <=> Drains(n)
  <2>1. Available(Drain)
    BY DEF Available
  <2>. QED
    BY <2>1
<1>. QED
  BY <1>1, <1>2, <1>3, FunctionInduction

\* The model's bound on what waits for the main thread is kept: a write is not
\* begun at the bound, and adds one block as it ends.
QueueBounded == Len(queue) <= MaxQueue + 1 /\ (Writing => Len(queue) <= MaxQueue)

LEMMA BoundKept == IInv /\ QueueBounded /\ [Next]_vars => QueueBounded'
<1>. SUFFICES ASSUME IInv, QueueBounded, [Next]_vars PROVE QueueBounded'
  OBVIOUS
<1> USE EADAssumption DEF Goto
<1>0. queue \in Seq(Block) /\ pc \in [Thread -> InOpen \cup {"idle", "ready", "failed", "write"}]
  BY DEF IInv, TypeOK
<1>1. CASE SendToDevice
  <2>1. Len(queue') = Len(queue) + 1
    BY <1>0, <1>1 DEF SendToDevice
  <2>. QED
    BY <1>0, <1>1, <2>1 DEF SendToDevice, QueueBounded
<1>2. CASE \E streamFails \in BOOLEAN : WriteEnd(streamFails)
  <2>1. Len(queue') = Len(queue) + 1
    BY <1>0, <1>2 DEF WriteEnd
  <2>2. Writing /\ ~Writing'
    BY <1>0, <1>2 DEF WriteEnd, Writing, Thread
  <2>. QED
    BY <1>0, <2>1, <2>2 DEF QueueBounded
<1>3. CASE RunBlock
  BY <1>0, <1>3, LastBlock DEF RunBlock, QueueBounded, Writing
<1>4. CASE UNCHANGED queue /\ (Writing' => Writing)
  BY <1>4 DEF QueueBounded
<1>. QED
  BY <1>0, <1>1, <1>2, <1>3, <1>4 DEF Next, Framework, Check, Attach, Detach, Main,
     AccessoryDidConnect, AccessoryDidDisconnect, StreamEnd, CancelWriteData, Comm,
     OpenDevice, CloseDevice, ReceiveFails, WriteBytes, Session, OpenSession, MarryBLE,
     SetupController, SetAccessory, AllocSession, SetSession, Opened, AfterOpen,
     AfterSetup, Thread, Writing, vars

LEMMA LimitAlways == Spec => [](LimitSet /\ QueueBounded)
<1>1. Init => LimitSet /\ QueueBounded
  BY EADAssumption DEF Init, LimitSet, QueueBounded, Writing, Thread
<1>. QED
  BY <1>1, LimitKept, BoundKept, Initial, Inductive, PTL DEF Spec

\* Whatever becomes of the session, SendToDevice's write ends: the block that sets its
\* limit is reached, the main run loop fires the limit, and the loop sees it.
THEOREM EverySendEnds == FairSpec /\ []GuardsEnable => SendEnds
<1>. DEFINE Front == Writing /\ queue = <<>>
            Over == Writing /\ ~isWriteData
<1>1. FairSpec /\ []GuardsEnable => (Writing ~> ~Writing \/ Front)
  <2>1. Drains(MaxQueue)
    BY AllDrain, EADAssumption
  <2>2. QueueBounded => (Writing => Waiting(MaxQueue))
    BY DEF QueueBounded, Waiting
  <2>. QED
    BY <2>1, <2>2, LimitAlways, PTL DEF Drains, FairSpec
<1>2. FairSpec /\ []GuardsEnable => (Front ~> ~Writing \/ Over)
  <2>1. ASSUME IInv, Front, [Next]_vars PROVE Front' \/ ~Writing'
    BY <2>1, WriteStep DEF RunBlock, CancelWriteData
  <2>2. ASSUME Front, CancelWriteData PROVE Over'
    BY <2>2 DEF CancelWriteData, Writing
  <2>3. GuardsEnable /\ LimitSet =>
          (Front /\ pc["main"] = "idle" => Over \/ ENABLED <<CancelWriteData>>_vars)
    BY DEF GuardsEnable, LimitSet
  <2>. QED
    BY <2>1, <2>2, <2>3, IdleAgain, LimitAlways, Initial, Inductive, PTL DEF FairSpec, Spec
<1>3. FairSpec /\ []GuardsEnable => (Over ~> ~Writing)
  <2>1. ASSUME IInv, Over, [Next]_vars PROVE Over' \/ ~Writing'
    BY <2>1, WriteStep DEF RunBlock, CancelWriteData
  <2>2. ASSUME IInv, Over, WriteEnd(FALSE) PROVE ~Writing'
    BY <2>2 DEF WriteEnd, Writing, Goto, IInv, TypeOK, Thread
  <2>3. GuardsEnable => (Over => ENABLED <<WriteEnd(FALSE)>>_vars)
    BY DEF GuardsEnable, Writing
  <2>. QED
    BY <2>1, <2>2, <2>3, Initial, Inductive, PTL DEF FairSpec, Spec
<1>4. (pc["comm"] = "write" <=> Writing) /\ (pc["comm"] # "write" <=> ~Writing)
  BY DEF Writing
<1>. QED
  BY <1>1, <1>2, <1>3, <1>4, PTL DEF SendEnds
-----------------------------------------------------------------------------
(* There is a session again.  Its accessory stays attached from some point *)
(* on, alone and accepted; what follows is what has become of the past as  *)
(* long as there is no session with it, and that this cannot last.         *)

\* A session is there or not, and is live only with an accessory that is attached.
LinkTrue ==
  /\ session = NoAcc <=> link = "none"
  /\ link = "live" => session \in connected
  /\ Len(notices) <= MaxNotices

LEMMA LinkKept == IInv /\ LinkTrue /\ [Next]_vars => LinkTrue'
<1>. SUFFICES ASSUME IInv, LinkTrue, [Next]_vars PROVE LinkTrue'
  OBVIOUS
<1> USE EADAssumption
<1>0. /\ notices \in Seq({"connect", "disconnect"} \X Acc) /\ connected \subseteq Acc
      /\ arg \in [Thread -> Accessory] /\ session \in Accessory
  BY DEF IInv, TypeOK
<1>1. ASSUME NEW a \in Acc, Attach(a) \/ Detach(a) PROVE LinkTrue'
  <2>1. Len(notices') <= MaxNotices
    BY <1>0, <1>1 DEF Attach, Detach
  <2>. QED
    BY <1>0, <1>1, <2>1 DEF Attach, Detach, LinkTrue
<1>2. CASE AccessoryDidConnect \/ AccessoryDidDisconnect
  <2>1. Len(notices') <= MaxNotices
    BY <1>0, <1>2 DEF AccessoryDidConnect, AccessoryDidDisconnect, LinkTrue
  <2>. QED
    BY <1>2, <2>1 DEF AccessoryDidConnect, AccessoryDidDisconnect, LinkTrue
<1>3. CASE StreamEnd \/ CloseDevice
  BY <1>3 DEF StreamEnd, CloseDevice, CloseSession, LinkTrue
<1>4. ASSUME NEW t \in Thread, SetSession(t) \/ SetupController(t) PROVE LinkTrue'
  BY <1>0, <1>4 DEF SetSession, SetupController, CloseSession, LinkTrue, Accessory
<1>5. CASE UNCHANGED <<session, link, connected, notices>>
  BY <1>5 DEF LinkTrue
<1>. QED
  BY <1>1, <1>2, <1>3, <1>4, <1>5 DEF Next, Framework, Check, Main, RunBlock,
     CancelWriteData, Comm, OpenDevice, ReceiveFails, SendToDevice, WriteBytes, WriteEnd,
     Session, OpenSession, MarryBLE, SetAccessory, AllocSession, Opened, vars

LEMMA LinkAlways == Spec => []LinkTrue
<1>1. Init => LinkTrue
  BY EADAssumption DEF Init, LinkTrue
<1>. QED
  BY <1>1, LinkKept, Initial, Inductive, PTL DEF Spec

Lacks(a) == connected = {a} /\ ~refused /\ ~(session = a /\ link = "live")

\* The main thread has heard all there is to hear, and is in its run loop for good.
Informed(a) == Lacks(a) /\ notices = <<>>
Alone(a) == Informed(a) /\ pc["main"] = "idle"

\* The communication thread is not about to assign a session with an accessory
\* that is gone; and what session there was is closed.
Fresh(a) == Alone(a) /\ (pc["comm"] = "created" => arg["comm"] \in {a, NoAcc})
Closed(a) == Fresh(a) /\ session = NoAcc

\* It has tried and forgotten every accessory that is gone.
Known(a) ==
  /\ Closed(a) /\ accessory \in {a, NoAcc}
  /\ pc["comm"] \in {"setup", "assign"} => arg["comm"] \in {a, NoAcc}
  /\ pc["comm"] = "alloc" \/ (pc["comm"] = "open" /\ opener = "comm") => accessory = a

\* It is about to make a session with the accessory, or has made it.
Trying(a) == Closed(a) /\ pc["comm"] = "alloc" /\ accessory = a
Made(a) == Closed(a) /\ pc["comm"] = "created" /\ arg["comm"] = a

\* Whoever attaches or detaches an accessory, or refuses one, ends what is assumed.
LEMMA NoFramework ==
  ASSUME NEW a, Lacks(a), Lacks(a)' PROVE ~Framework
BY DEF Lacks, Framework, Check, Attach, Detach

\* While no accessory comes or goes, no notification does: they are served one by one.
LEMMA LackStep ==
  ASSUME NEW a, IInv, Lacks(a), Lacks(a)', [Next]_vars
  PROVE  \/ UNCHANGED notices /\ (pc'["main"] = "idle" <=> pc["main"] = "idle")
         \/ UNCHANGED notices /\ pc["main"] # "idle" /\ pc'["main"] = "idle"
         \/ AccessoryDidConnect \/ AccessoryDidDisconnect
<1> USE DEF Goto, Thread
<1>0. pc \in [Thread -> InOpen \cup {"idle", "ready", "failed", "write"}]
  BY DEF IInv, TypeOK
<1>1. CASE StreamEnd \/ RunBlock \/ CancelWriteData \/ UNCHANGED vars
  BY <1>1 DEF StreamEnd, RunBlock, CancelWriteData, vars
<1>2. CASE Comm
  BY <1>0, <1>2 DEF Comm, OpenDevice, CloseDevice, ReceiveFails, SendToDevice, WriteBytes,
     WriteEnd
<1>3. ASSUME NEW t \in Thread, Session(t) \/ AllocSession(t, TRUE)
      PROVE  UNCHANGED notices /\ (t = "main" => pc["main"] # "idle")
             /\ (t = "comm" => pc'["main"] = pc["main"])
  BY <1>0, <1>3 DEF Session, OpenSession, MarryBLE, SetupController, SetAccessory,
     AllocSession, SetSession, Opened, AfterOpen, AfterSetup
<1>. QED
  BY <1>1, <1>2, <1>3, NoFramework DEF Next, Main

\* Notifications are served until none is left.
Few(a, n) == Lacks(a) /\ Len(notices) <= n
Hears(a, n) == FairSpec /\ []GuardsEnable => (Few(a, n) ~> Informed(a) \/ ~Lacks(a))

\* The one that is first, and served next.
First(a, n, event) ==
  Few(a, n) /\ pc["main"] = "idle" /\ notices # <<>> /\ Head(notices)[1] = event

LEMMA NoticesServed ==
  ASSUME NEW a, NEW n \in Nat, IInv, Few(a, n + 1), AccessoryDidConnect \/ AccessoryDidDisconnect
  PROVE  Few(a, n)' \/ ~Lacks(a)'
<1>1. notices \in Seq({"connect", "disconnect"} \X Acc) /\ notices # <<>> /\ notices' = Tail(notices)
  BY DEF AccessoryDidConnect, AccessoryDidDisconnect, IInv, TypeOK
<1>2. Len(notices') = Len(notices) - 1 /\ Len(notices) \in Nat
  BY <1>1
<1>. QED
  BY <1>2 DEF Few

LEMMA HearStep ==
  ASSUME NEW a, NEW n \in Nat
  PROVE  Hears(a, n) => Hears(a, n + 1)
<1>0. IInv => notices \in Seq({"connect", "disconnect"} \X Acc)
  BY DEF IInv, TypeOK
<1>1. ASSUME IInv, Few(a, n + 1), [Next]_vars
      PROVE  (Few(a, n + 1))' \/ (Few(a, n))' \/ (~Lacks(a))'
  BY <1>1, LackStep, NoticesServed DEF Few
<1>2. ASSUME IInv, NEW event, First(a, n + 1, event), [Next]_vars
      PROVE  (First(a, n + 1, event))' \/ (Few(a, n))' \/ (~Lacks(a))'
  BY <1>2, LackStep, NoticesServed DEF First, Few
<1>3. ASSUME IInv, Few(a, n + 1), AccessoryDidConnect \/ AccessoryDidDisconnect
      PROVE  (Few(a, n))' \/ (~Lacks(a))'
  BY <1>3, NoticesServed
<1>4. ASSUME IInv, Few(a, n + 1), pc["main"] = "idle"
      PROVE  Informed(a) \/ First(a, n + 1, "connect") \/ First(a, n + 1, "disconnect")
  <2>1. ASSUME notices # <<>> PROVE Head(notices)[1] \in {"connect", "disconnect"}
    BY <1>0, <1>4, <2>1
  <2>. QED
    BY <1>4, <2>1 DEF Informed, Few, First
<1>5. First(a, n + 1, "connect") => Few(a, n + 1)
  BY DEF First
<1>6. First(a, n + 1, "disconnect") => Few(a, n + 1)
  BY DEF First
<1>7. GuardsEnable => (First(a, n + 1, "connect") => ENABLED <<AccessoryDidConnect>>_vars)
  BY DEF First, GuardsEnable
<1>8. GuardsEnable => (First(a, n + 1, "disconnect") => ENABLED <<AccessoryDidDisconnect>>_vars)
  BY DEF First, GuardsEnable
<1>9. IInv /\ [Next]_vars => (First(a, n + 1, "connect") =>
         (First(a, n + 1, "connect"))' \/ (Few(a, n))' \/ (~Lacks(a))')
  BY <1>2
<1>10. IInv /\ [Next]_vars => (First(a, n + 1, "disconnect") =>
         (First(a, n + 1, "disconnect"))' \/ (Few(a, n))' \/ (~Lacks(a))')
  BY <1>2
<1>11. FairSpec /\ []GuardsEnable => (First(a, n + 1, "connect") ~> Few(a, n) \/ ~Lacks(a))
  BY <1>9, <1>3, <1>5, <1>7, Initial, Inductive, PTL DEF FairSpec, Spec
<1>12. FairSpec /\ []GuardsEnable => (First(a, n + 1, "disconnect") ~> Few(a, n) \/ ~Lacks(a))
  BY <1>10, <1>3, <1>6, <1>8, Initial, Inductive, PTL DEF FairSpec, Spec
<1>13. FairSpec /\ []GuardsEnable =>
         (Few(a, n + 1) ~> Few(a, n) \/ ~Lacks(a) \/ Informed(a)
            \/ First(a, n + 1, "connect") \/ First(a, n + 1, "disconnect"))
  BY <1>1, <1>4, IdleAgain, Initial, Inductive, PTL DEF FairSpec, Spec
<1>. QED
  BY <1>11, <1>12, <1>13, PTL DEF Hears

LEMMA AllHear == ASSUME NEW a PROVE \A n \in Nat : Hears(a, n)
<1>. DEFINE Hear == [n \in Nat |-> Hears(a, n)]
<1>1. Hears(a, 0)
  <2>1. IInv => (Few(a, 0) => Informed(a))
    BY DEF Few, Informed, IInv, TypeOK
  <2>. QED
    BY <2>1, Initial, Inductive, PTL DEF Hears, FairSpec, Spec
<1>2. ASSUME NEW n \in Nat PROVE Hears(a, n) => Hears(a, n + 1)
  BY HearStep
<1>3. \E U : Available(U) /\ \A n \in Nat : U[n] <=> Hears(a, n)
  <2>1. Available(Hear)
    BY DEF Available
  <2>. QED
    BY <2>1
<1>. QED
  BY <1>1, <1>2, <1>3, FunctionInduction

\* Then the main thread is left in its run loop.
LEMMA SoonAlone ==
  ASSUME NEW a
  PROVE  FairSpec /\ []GuardsEnable => (Lacks(a) ~> Alone(a) \/ ~Lacks(a))
<1>1. Hears(a, MaxNotices)
  BY AllHear, EADAssumption
<1>2. LinkTrue => (Lacks(a) => Few(a, MaxNotices))
  BY DEF LinkTrue, Few
<1>3. ASSUME IInv, Informed(a), [Next]_vars PROVE (Informed(a))' \/ (~Lacks(a))'
  BY <1>3, LackStep DEF Informed, AccessoryDidConnect, AccessoryDidDisconnect
<1>4. Informed(a) /\ pc["main"] = "idle" => Alone(a)
  BY DEF Alone
<1>. QED
  BY <1>1, <1>2, <1>3, <1>4, LinkAlways, IdleAgain, Initial, Inductive, PTL
     DEF Hears, FairSpec, Spec

\* What still happens then.
LEMMA AloneStep ==
  ASSUME NEW a, IInv, Alone(a), [Next]_vars
  PROVE  \/ ~Lacks(a)'
         \/ /\ Alone(a)'
            /\ StreamEnd \/ RunBlock \/ CancelWriteData \/ Comm \/ Session("comm")
               \/ AllocSession("comm", TRUE) \/ UNCHANGED vars
<1>. SUFFICES ASSUME Lacks(a)'
              PROVE  /\ Alone(a)'
                     /\ StreamEnd \/ RunBlock \/ CancelWriteData \/ Comm \/ Session("comm")
                        \/ AllocSession("comm", TRUE) \/ UNCHANGED vars
  OBVIOUS
<1>1. ~AccessoryDidConnect /\ ~AccessoryDidDisconnect
  BY DEF Alone, Informed, AccessoryDidConnect, AccessoryDidDisconnect
<1>2. ~(Session("main") \/ AllocSession("main", TRUE))
  BY DEF Alone, Session, OpenSession, MarryBLE, SetupController, SetAccessory,
     AllocSession, SetSession, Opened
<1>3. Alone(a)'
  BY <1>1, LackStep DEF Alone, Informed
<1>4. StreamEnd \/ RunBlock \/ CancelWriteData \/ Comm \/ Session("comm")
      \/ AllocSession("comm", TRUE) \/ UNCHANGED vars
  BY <1>1, <1>2, NoFramework DEF Next, Main, Thread, Alone, Informed
<1>. QED
  BY <1>3, <1>4

\* A session assigned from an attempt of before is the last one that may be with
\* an accessory that is gone.
LEMMA FreshStep ==
  ASSUME NEW a \in Acc, IInv, LinkTrue, Fresh(a), [Next]_vars
  PROVE  \/ ~Lacks(a)'
         \/ /\ Fresh(a)'
            /\ session = NoAcc \/ StreamEnd => session' = NoAcc
<1>. SUFFICES ASSUME Lacks(a)'
              PROVE  Fresh(a)' /\ (session = NoAcc \/ StreamEnd => session' = NoAcc)
  OBVIOUS
<1> USE EADAssumption DEF Goto, Thread
<1>0. /\ pc \in [Thread -> InOpen \cup {"idle", "ready", "failed", "write"}]
      /\ arg \in [Thread -> Accessory] /\ connected = {a} /\ Alone(a)'
  BY AloneStep DEF IInv, TypeOK, Fresh, Alone, Informed, Lacks
<1>1. CASE StreamEnd \/ RunBlock \/ CancelWriteData \/ UNCHANGED vars
  BY <1>0, <1>1 DEF StreamEnd, RunBlock, CancelWriteData, vars, Fresh
<1>2. CASE Comm
  BY <1>0, <1>2 DEF Comm, OpenDevice, CloseDevice, CloseSession, ReceiveFails, SendToDevice,
     WriteBytes, WriteEnd, Fresh, StreamEnd, Alone, Informed
<1>3. CASE AllocSession("comm", FALSE) \/ AllocSession("comm", TRUE)
  BY <1>0, <1>3 DEF AllocSession, Fresh, StreamEnd
<1>4. CASE SetSession("comm")
  BY <1>0, <1>4 DEF SetSession, Fresh, StreamEnd, Lacks
<1>5. CASE OpenSession("comm") \/ MarryBLE("comm") \/ SetupController("comm")
           \/ SetAccessory("comm") \/ Opened("comm")
  BY <1>0, <1>5 DEF OpenSession, MarryBLE, SetupController, SetAccessory, Opened, AfterOpen,
     AfterSetup, CloseSession, Fresh, StreamEnd
<1>. QED
  BY <1>1, <1>2, <1>3, <1>4, <1>5, AloneStep DEF Fresh, Session

LEMMA SoonFresh ==
  ASSUME NEW a \in Acc
  PROVE  FairSpec /\ []GuardsEnable => (Alone(a) ~> Fresh(a) \/ ~Lacks(a))
<1>1. ASSUME IInv, Alone(a), ~Fresh(a), [Next]_vars
      PROVE  (Alone(a) /\ ~Fresh(a))' \/ (Fresh(a))' \/ (~Lacks(a))'
  BY <1>1, AloneStep
<1>2. ASSUME IInv, IInv', Alone(a), ~Fresh(a), Session("comm")
      PROVE  (Fresh(a))' \/ (~Lacks(a))'
  <2>1. pc["comm"] = "created"
    BY <1>2 DEF Fresh
  <2>2. SetSession("comm")
    BY <1>2, <2>1 DEF Session, OpenSession, MarryBLE, SetupController, SetAccessory,
       AllocSession, Opened
  <2>3. pc'["comm"] # "created"
    BY <1>2, <2>2 DEF SetSession, Goto, IInv, TypeOK, Thread
  <2>4. [Next]_vars
    BY <1>2 DEF Next, Thread
  <2>. QED
    BY <1>2, <2>3, <2>4, AloneStep DEF Fresh
<1>3. GuardsEnable => (Alone(a) /\ ~Fresh(a) => ENABLED <<Session("comm")>>_vars)
  BY DEF GuardsEnable, Fresh, InOpen
<1>. QED
  BY <1>1, <1>2, <1>3, BothRun, Initial, Inductive, PTL DEF FairSpec, Spec, ThreadRuns

\* The streams of a session that is no longer live end, and close it.
LEMMA SoonClosed ==
  ASSUME NEW a \in Acc
  PROVE  FairSpec /\ []GuardsEnable => (Fresh(a) ~> Closed(a) \/ ~Lacks(a))
<1>1. ASSUME IInv, LinkTrue, Fresh(a), [Next]_vars
      PROVE  (Fresh(a))' \/ (~Lacks(a))'
  BY <1>1, FreshStep
<1>2. ASSUME IInv, LinkTrue, Fresh(a), StreamEnd
      PROVE  (Closed(a))' \/ (~Lacks(a))'
  BY <1>2, FreshStep DEF Closed, Next, Main
<1>3. GuardsEnable /\ IInv /\ LinkTrue =>
        (Fresh(a) => Closed(a) \/ ENABLED <<StreamEnd>>_vars)
  BY DEF GuardsEnable, Fresh, Closed, Alone, Informed, Lacks, LinkTrue, IInv, TypeOK, Link
<1>. QED
  BY <1>1, <1>2, <1>3, LinkAlways, Initial, Inductive, PTL DEF FairSpec, Spec

\* How far the communication thread is from trying the accessory: it fails, closes
\* and opens again, tries what is on record and forgets it, and matches another.
Here(a, n) == IF accessory \in {a, NoAcc} THEN n ELSE n + 30
With(a, this, none, other) ==
  IF arg["comm"] = a THEN this ELSE IF arg["comm"] = NoAcc THEN none ELSE other
Distance(a) ==
  CASE pc["comm"] = "idle" -> Here(a, 6)
    [] pc["comm"] = "open" /\ opener # "comm" -> Here(a, 5)
    [] pc["comm"] = "open" /\ opener = "comm" -> IF accessory = a THEN 1 ELSE Here(a, 12)
    [] pc["comm"] = "marry" -> 4
    [] pc["comm"] = "setup" -> With(a, 3, 9, 44)
    [] pc["comm"] = "assign" -> With(a, 2, 8, 43)
    [] pc["comm"] = "alloc" -> IF accessory = a THEN 0 ELSE 11
    [] pc["comm"] = "created" -> 10
    [] pc["comm"] = "opened" -> Here(a, 7)
    [] pc["comm"] = "failed" -> Here(a, 7)
    [] pc["comm"] = "ready" -> Here(a, 9)
    [] pc["comm"] = "write" -> IF bytesWritten = -1 THEN Here(a, 8) ELSE Here(a, 10)

LEMMA DistanceBounded ==
  ASSUME NEW a
  PROVE  TypeOK => /\ Distance(a) \in 0 .. 44
                   /\ Distance(a) = 0 => pc["comm"] = "alloc" /\ accessory = a
<1>. SUFFICES ASSUME TypeOK
              PROVE  /\ Distance(a) \in 0 .. 44
                     /\ Distance(a) = 0 => pc["comm"] = "alloc" /\ accessory = a
  OBVIOUS
<1>1. pc["comm"] \in {"idle", "open", "marry", "setup", "assign", "alloc", "created",
                      "opened", "failed", "ready", "write"}
  BY DEF TypeOK, InOpen, Thread
<1>. QED
  BY <1>1 DEF Distance, Here, With

LEMMA DistanceBoundedNext ==
  ASSUME NEW a PROVE TypeOK' => (Distance(a) \in 0 .. 44)'
<1>1. TypeOK => Distance(a) \in 0 .. 44
  BY DistanceBounded
<1>. QED
  BY <1>1, PTL

\* Every step of the communication thread is one nearer, until it has arrived.
LEMMA CommNears ==
  ASSUME NEW a \in Acc, IInv, IInv', LinkTrue, Closed(a), ~Trying(a),
         Comm \/ Session("comm") \/ AllocSession("comm", TRUE)
  PROVE  ~Lacks(a)' \/ (Closed(a)' /\ (Distance(a))' < Distance(a))
<1>. SUFFICES ASSUME Lacks(a)' PROVE Closed(a)' /\ (Distance(a))' < Distance(a)
  OBVIOUS
<1> USE EADAssumption DEF Goto, Thread, Accessory
<1>0. /\ pc \in [Thread -> InOpen \cup {"idle", "ready", "failed", "write"}]
      /\ arg \in [Thread -> Accessory] /\ connected = {a} /\ accessory \in Accessory
      /\ ~refused /\ session = NoAcc /\ link = "none" /\ opener # "main"
      /\ opener \in Thread \cup {"nobody"}
      /\ opener = "comm" => pc["comm"] \in InOpen
      /\ pc["comm"] \in InOpen \ {"open"} => opener = "comm"
  BY DEF IInv, TypeOK, Owned, Closed, Fresh, Alone, Informed, Lacks, LinkTrue, InOpen
<1>1. Closed(a)'
  <2>1. [Next]_vars
    BY DEF Next
  <2>. QED
    BY <2>1, FreshStep DEF Closed
<1>2. CASE OpenDevice
  BY <1>0, <1>1, <1>2 DEF OpenDevice, Distance, Here, InOpen
<1>3. CASE CloseDevice \/ ReceiveFails
  BY <1>0, <1>1, <1>3 DEF CloseDevice, ReceiveFails, Distance, Here
<1>4. CASE SendToDevice
  BY <1>0, <1>1, <1>4 DEF SendToDevice, Distance, Here
<1>5. ASSUME NEW streamFails, WriteEnd(streamFails) PROVE (Distance(a))' < Distance(a)
  BY <1>0, <1>5 DEF WriteEnd, Distance, Here
<1>6. ~(\E n \in 1 .. left : WriteBytes(n))
  BY <1>0 DEF WriteBytes
<1>7. CASE OpenSession("comm")
  BY <1>0, <1>1, <1>7 DEF OpenSession, AfterOpen, Distance, Here
<1>8. CASE MarryBLE("comm")
  BY <1>0, <1>1, <1>8 DEF MarryBLE, Distance, With
<1>9. CASE SetupController("comm")
  BY <1>0, <1>1, <1>9 DEF SetupController, AfterSetup, CloseSession, InOpen, Distance, Here, With
<1>10. CASE SetAccessory("comm")
  BY <1>0, <1>1, <1>10 DEF SetAccessory, AfterSetup, InOpen, Distance, Here, With
<1>11. ASSUME NEW ok \in BOOLEAN, AllocSession("comm", ok) PROVE (Distance(a))' < Distance(a)
  BY <1>0, <1>11 DEF AllocSession, Distance, Here, Trying
<1>12. CASE SetSession("comm")
  BY <1>0, <1>1, <1>12 DEF SetSession, Distance, With, Closed
<1>13. CASE Opened("comm")
  BY <1>0, <1>1, <1>13 DEF Opened, Distance, Here
<1>. QED
  BY <1>1, <1>2, <1>3, <1>4, <1>5, <1>6, <1>7, <1>8, <1>9, <1>10, <1>11, <1>12, <1>13
     DEF Comm, Session

\* Nothing else moves it.
LEMMA OthersStay ==
  ASSUME NEW a \in Acc, IInv, LinkTrue, Closed(a), [Next]_vars,
         ~(Comm \/ Session("comm") \/ AllocSession("comm", TRUE))
  PROVE  ~Lacks(a)' \/ (Closed(a)' /\ UNCHANGED pc["comm"] /\ (Distance(a))' = Distance(a))
<1>. SUFFICES ASSUME Lacks(a)'
              PROVE  Closed(a)' /\ UNCHANGED pc["comm"] /\ (Distance(a))' = Distance(a)
  OBVIOUS
<1>1. StreamEnd \/ RunBlock \/ CancelWriteData \/ UNCHANGED vars
  BY AloneStep DEF Closed, Fresh
<1>2. UNCHANGED <<pc, arg, opener, accessory, bytesWritten>>
  BY <1>1 DEF StreamEnd, RunBlock, CancelWriteData, vars
<1>3. Closed(a)'
  BY FreshStep DEF Closed
<1>. QED
  BY <1>2, <1>3 DEF Distance, Here, With

\* The accessory is tried, and tried again for as long as there is no session.
Far(a, n) == Closed(a) /\ Distance(a) <= n
Nears(a, n) == FairSpec /\ []GuardsEnable => (Far(a, n) ~> Trying(a) \/ ~Lacks(a))

LEMMA NearStep ==
  ASSUME NEW a \in Acc, NEW n \in Nat
  PROVE  Nears(a, n) => Nears(a, n + 1)
<1>. DEFINE Away == Far(a, n + 1) /\ ~Trying(a)
            Nearer == Far(a, n) \/ Trying(a) \/ ~Lacks(a)
            In(l) == pc["comm"] \in l
<1>0. IInv => In(InOpen) \/ In({"idle"}) \/ In({"ready"}) \/ In({"failed"}) \/ In({"write"})
  BY DEF IInv, TypeOK, Thread
<1>1. ASSUME IInv, IInv', LinkTrue, Away, Comm \/ Session("comm") \/ AllocSession("comm", TRUE)
      PROVE  Nearer'
  <2>1. Distance(a) \in 0 .. 44 /\ (Distance(a) \in 0 .. 44)'
    BY <1>1, DistanceBounded, DistanceBoundedNext DEF IInv
  <2>. QED
    <3>1. ~Lacks(a)' \/ (Closed(a)' /\ (Distance(a))' < Distance(a))
      BY <1>1, CommNears DEF Far
    <3>2. Closed(a)' /\ (Distance(a))' < Distance(a) => Far(a, n)'
      <4>1. (Distance(a))' < Distance(a) => (Distance(a))' <= n
        BY <1>1, <2>1 DEF Far
      <4>. QED
        BY <4>1 DEF Far
    <3>. QED
      BY <3>1, <3>2
<1>2. ASSUME IInv, IInv', LinkTrue, Away, NEW l, In(l), [Next]_vars
      PROVE  (Away /\ In(l))' \/ Nearer'
  BY <1>1, <1>2, OthersStay DEF Far
<1>3. LinkTrue /\ Away => session = NoAcc
  BY DEF Far, Closed
<1>4. ASSUME IInv, IInv', LinkTrue, Away,
             \/ OpenDevice \/ ReceiveFails \/ (pc["comm"] = "failed" /\ CloseDevice)
             \/ WriteEnd(FALSE) \/ Session("comm")
      PROVE  Nearer'
  BY <1>1, <1>4 DEF Comm
<1>5. GuardsEnable /\ LinkTrue =>
        /\ Away /\ In(InOpen) => ENABLED <<Session("comm")>>_vars
        /\ Away /\ In({"idle"}) => ENABLED <<OpenDevice>>_vars
        /\ Away /\ In({"ready"}) => ENABLED <<ReceiveFails>>_vars
        /\ Away /\ In({"failed"}) => ENABLED <<pc["comm"] = "failed" /\ CloseDevice>>_vars
        /\ Away /\ In({"write"}) => ENABLED <<WriteEnd(FALSE)>>_vars
  BY <1>3 DEF GuardsEnable
<1>6. /\ IInv /\ IInv' /\ LinkTrue /\ [Next]_vars /\ Away /\ In(InOpen) => (Away /\ In(InOpen))' \/ Nearer'
      /\ IInv /\ IInv' /\ LinkTrue /\ [Next]_vars /\ Away /\ In({"idle"}) => (Away /\ In({"idle"}))' \/ Nearer'
      /\ IInv /\ IInv' /\ LinkTrue /\ [Next]_vars /\ Away /\ In({"ready"}) => (Away /\ In({"ready"}))' \/ Nearer'
      /\ IInv /\ IInv' /\ LinkTrue /\ [Next]_vars /\ Away /\ In({"failed"}) => (Away /\ In({"failed"}))' \/ Nearer'
      /\ IInv /\ IInv' /\ LinkTrue /\ [Next]_vars /\ Away /\ In({"write"}) => (Away /\ In({"write"}))' \/ Nearer'
  BY <1>2
<1>. HIDE DEF Away, Nearer, In
<1>7. FairSpec /\ []GuardsEnable => (Away /\ In(InOpen) ~> Nearer)
  BY <1>4, <1>5, <1>6, BothRun, LinkAlways, Initial, Inductive, PTL DEF FairSpec, Spec, ThreadRuns
<1>8. FairSpec /\ []GuardsEnable => (Away /\ In({"idle"}) ~> Nearer)
  BY <1>4, <1>5, <1>6, LinkAlways, Initial, Inductive, PTL DEF FairSpec, Spec
<1>9. FairSpec /\ []GuardsEnable => (Away /\ In({"ready"}) ~> Nearer)
  BY <1>4, <1>5, <1>6, LinkAlways, Initial, Inductive, PTL DEF FairSpec, Spec
<1>10. FairSpec /\ []GuardsEnable => (Away /\ In({"failed"}) ~> Nearer)
  BY <1>4, <1>5, <1>6, LinkAlways, Initial, Inductive, PTL DEF FairSpec, Spec
<1>11. FairSpec /\ []GuardsEnable => (Away /\ In({"write"}) ~> Nearer)
  BY <1>4, <1>5, <1>6, LinkAlways, Initial, Inductive, PTL DEF FairSpec, Spec
<1>12. FairSpec /\ []GuardsEnable => (Away ~> Nearer)
  BY <1>0, <1>7, <1>8, <1>9, <1>10, <1>11, Initial, Inductive, PTL DEF FairSpec, Spec
<1>13. FairSpec /\ []GuardsEnable => (Far(a, n + 1) ~> Far(a, n) \/ Trying(a) \/ ~Lacks(a))
  <2>1. (Far(a, n + 1) => Away \/ Trying(a)) /\ (Nearer => Far(a, n) \/ Trying(a) \/ ~Lacks(a))
    BY DEF Away, Nearer
  <2>. QED
    BY <1>12, <2>1, PTL
<1>. QED
  BY <1>13, PTL DEF Nears

LEMMA AllNear == ASSUME NEW a \in Acc PROVE \A n \in Nat : Nears(a, n)
<1>. DEFINE Near == [n \in Nat |-> Nears(a, n)]
<1>1. Nears(a, 0)
  <2>1. IInv => (Far(a, 0) => Trying(a))
    <3>. SUFFICES ASSUME IInv, Far(a, 0) PROVE Trying(a)
      OBVIOUS
    <3>1. Distance(a) = 0
      BY DistanceBounded DEF Far, IInv
    <3>. QED
      BY <3>1, DistanceBounded DEF Far, Trying, IInv
  <2>. QED
    BY <2>1, Initial, Inductive, PTL DEF Nears, FairSpec, Spec
<1>2. ASSUME NEW n \in Nat PROVE Nears(a, n) => Nears(a, n + 1)
  BY NearStep
<1>3. \E U : Available(U) /\ \A n \in Nat : U[n] <=> Nears(a, n)
  <2>1. Available(Near)
    BY DEF Available
  <2>. QED
    BY <2>1
<1>. QED
  BY <1>1, <1>2, <1>3, FunctionInduction

LEMMA SoonTrying ==
  ASSUME NEW a \in Acc
  PROVE  FairSpec /\ []GuardsEnable => (Closed(a) ~> Trying(a) \/ ~Lacks(a))
<1>1. Nears(a, 44)
  BY AllNear
<1>2. IInv => (Closed(a) => Far(a, 44))
  BY DistanceBounded DEF Far, IInv
<1>. QED
  BY <1>1, <1>2, Initial, Inductive, PTL DEF Nears, FairSpec, Spec

\* By then no other accessory is on record, nor will be.
LEMMA KnownStep ==
  ASSUME NEW a \in Acc, IInv, LinkTrue, Known(a), [Next]_vars
  PROVE  ~Lacks(a)' \/ Known(a)'
<1>. SUFFICES ASSUME Lacks(a)' PROVE Known(a)'
  OBVIOUS
<1> USE EADAssumption DEF Goto, Thread, Accessory
<1>0. /\ pc \in [Thread -> InOpen \cup {"idle", "ready", "failed", "write"}]
      /\ arg \in [Thread -> Accessory] /\ connected = {a}
      /\ session = NoAcc /\ link = "none" /\ opener # "main" /\ ~refused
      /\ opener = "comm" => pc["comm"] \in InOpen
      /\ pc["comm"] \in InOpen \ {"open"} => opener = "comm"
      /\ accessory \in {a, NoAcc}
  BY DEF IInv, TypeOK, Owned, Known, Closed, Fresh, Alone, Informed, Lacks, LinkTrue, InOpen
<1>1. Closed(a)'
  BY FreshStep DEF Known, Closed
<1>2. CASE StreamEnd \/ RunBlock \/ CancelWriteData \/ UNCHANGED vars
  BY <1>1, <1>2 DEF StreamEnd, RunBlock, CancelWriteData, vars, Known
<1>3. CASE Comm
  BY <1>0, <1>1, <1>3 DEF Comm, OpenDevice, CloseDevice, ReceiveFails, SendToDevice,
     WriteBytes, WriteEnd, Known, InOpen
<1>4. CASE OpenSession("comm") \/ MarryBLE("comm")
  BY <1>0, <1>1, <1>4 DEF OpenSession, MarryBLE, AfterOpen, Known
<1>5. CASE SetupController("comm") \/ SetAccessory("comm")
  BY <1>0, <1>1, <1>5 DEF SetupController, SetAccessory, AfterSetup, CloseSession, Known, InOpen
<1>6. CASE AllocSession("comm", FALSE) \/ AllocSession("comm", TRUE)
  BY <1>0, <1>1, <1>6 DEF AllocSession, Known
<1>7. CASE SetSession("comm") \/ Opened("comm")
  BY <1>0, <1>1, <1>7 DEF SetSession, Opened, Known, Closed
<1>. QED
  BY <1>2, <1>3, <1>4, <1>5, <1>6, <1>7, AloneStep DEF Known, Closed, Fresh, Session

\* The framework makes the session sooner or later, and it is assigned.
LEMMA SoonMade ==
  ASSUME NEW a \in Acc
  PROVE  FairSpec /\ []GuardsEnable => (Closed(a) ~> Made(a) \/ ~Lacks(a))
<1>1. IInv => (Trying(a) => Known(a))
  BY EADAssumption DEF Trying, Known
<1>2. ASSUME IInv, LinkTrue, Known(a), [Next]_vars PROVE (Known(a))' \/ (~Lacks(a))'
  BY <1>2, KnownStep
<1>3. ASSUME IInv, LinkTrue, Known(a), AllocSession("comm", TRUE)
      PROVE  (Made(a))' \/ (~Lacks(a))'
  <2>1. [Next]_vars /\ session = NoAcc /\ accessory = a /\ a # NoAcc
    BY <1>3, EADAssumption DEF Next, Thread, Known, Closed, AllocSession
  <2>2. pc'["comm"] = "created" /\ arg'["comm"] = a
    BY <1>3, <2>1 DEF AllocSession, Goto, IInv, TypeOK, Thread
  <2>. QED
    BY <1>3, <2>1, <2>2, KnownStep DEF Made, Known
<1>4. GuardsEnable => (Trying(a) => ENABLED <<AllocSession("comm", TRUE)>>_vars)
  BY DEF GuardsEnable, Trying, Closed, Fresh, Alone, Informed, Lacks
<1>5. Known(a) => Closed(a)
  BY DEF Known
<1>. QED
  BY <1>1, <1>2, <1>3, <1>4, <1>5, SoonTrying, BothRun, LinkAlways, Initial, Inductive, PTL
     DEF FairSpec, Spec, ThreadRuns

LEMMA SoonLive ==
  ASSUME NEW a \in Acc
  PROVE  FairSpec /\ []GuardsEnable => (Made(a) ~> ~Lacks(a))
<1>1. ASSUME IInv, IInv', LinkTrue, Made(a), Session("comm") PROVE (~Lacks(a))'
  <2>1. SetSession("comm")
    BY <1>1 DEF Made, Session, OpenSession, MarryBLE, SetupController, SetAccessory,
       AllocSession, Opened
  <2>2. connected' = connected /\ session' = a /\ a # NoAcc
    BY <1>1, <2>1, EADAssumption DEF SetSession, Made
  <2>3. connected = {a} => link' = "live"
    BY <1>1, <2>1, <2>2 DEF SetSession, Made
  <2>. QED
    BY <2>2, <2>3 DEF Lacks
<1>2. ASSUME IInv, IInv', LinkTrue, Made(a), [Next]_vars PROVE (Made(a))' \/ (~Lacks(a))'
  <2>1. CASE StreamEnd \/ RunBlock \/ CancelWriteData \/ UNCHANGED vars
    BY <1>2, <2>1, FreshStep DEF StreamEnd, RunBlock, CancelWriteData, vars, Made, Closed
  <2>2. CASE Session("comm")
    BY <1>1, <1>2, <2>2
  <2>3. ~Comm /\ ~AllocSession("comm", TRUE)
    BY <1>2 DEF Made, Comm, OpenDevice, CloseDevice, ReceiveFails, SendToDevice, WriteBytes,
       WriteEnd, AllocSession
  <2>. QED
    BY <1>2, <2>1, <2>2, <2>3, AloneStep DEF Made, Closed, Fresh
<1>3. GuardsEnable => (Made(a) => ENABLED <<Session("comm")>>_vars)
  BY DEF GuardsEnable, Made, InOpen
<1>. QED
  BY <1>1, <1>2, <1>3, BothRun, LinkAlways, Initial, Inductive, PTL DEF FairSpec, Spec, ThreadRuns

\* Whatever the two threads were doing, and whatever sessions and accessories are left
\* of the past: with an accessory that stays attached, alone and accepted, the session
\* is live again and again.
THEOREM SessionComesBack == FairSpec /\ []GuardsEnable => Reconnects
<1>1. ASSUME NEW a \in Acc PROVE FairSpec /\ []GuardsEnable => ReconnectsTo(a)
  <2>1. FairSpec /\ []GuardsEnable => (Lacks(a) ~> ~Lacks(a))
    BY SoonAlone, SoonFresh, SoonClosed, SoonMade, SoonLive, PTL
  <2>2. connected = {a} /\ ~refused => Lacks(a) \/ (session = a /\ link = "live")
    BY DEF Lacks
  <2>3. ~Lacks(a) => ~(connected = {a} /\ ~refused) \/ (session = a /\ link = "live")
    BY DEF Lacks
  <2>. QED
    BY <2>1, <2>2, <2>3, PTL DEF ReconnectsTo
<1>. QED
  BY <1>1 DEF Reconnects
=============================================================================
