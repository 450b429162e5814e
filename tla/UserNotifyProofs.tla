-------------------------- MODULE UserNotifyProofs --------------------------
(***************************************************************************)
(* A notification value is delivered once, for any number of cThreads and  *)
(* notifications, as long as no notification is stray and the thread ID is *)
(* not reused while its previous owner is still in the destructor.         *)
(***************************************************************************)
EXTENDS UserNotify, TLAPS

\* The time each prover has for a leaf that names none.
USE SMTT(15), ZenonT(60)

\* The cThread the ID is registered for is the one between the two ioctls.
HolderInv ==
  \A c \in CThreads : pc[c] \in {"ctid", "thread", "mutex", "live"} <=> holder = c

\* The ID, the notifier and what is under way have one owner at a time.
OwnerInv ==
  seen = {} =>
    /\ \A c \in Closing : holder = None /\ (\A d \in Closing : c = d)
    /\ user_notifier # None => pc[user_notifier] \in {"live", "noctid"}
    /\ \A c \in CThreads : pc[c] = "live" => user_notifier = c
    /\ Outstanding => \E c \in CThreads : pc[c] = "live"

Holding == {v \in Values : work[v] \in {"locked", "checked"}}
Signalled == {c \in CThreads : efd[c] > 0}

\* The mutex is a token: it is held while a work item, an eventfd or an event
\* thread has it, and only one of them has it.
TokenInv ==
  seen = {} =>
    /\ \A v \in Holding :
         user_notifier_lock /\ Signalled = {} /\ Handling = {} /\ (\A w \in Holding : v = w)
    /\ \A c \in Signalled :
         user_notifier_lock /\ efd[c] = 1 /\ Handling = {} /\ (\A d \in Signalled : c = d)
    /\ \A c \in Handling :
         user_notifier_lock /\ (\A d \in Handling : c = d)

\* v was signalled, is the value that a read returns, and was not delivered.
Fresh(v) ==
  /\ v \in Values
  /\ v = interrupt_value
  /\ work[v] = "signalled"
  /\ \A c \in CThreads : calls[c][v] = 0

\* interrupt_value belongs to the owner of the token.
ValueInv ==
  seen = {} =>
    /\ \A v \in Values : work[v] = "checked" => interrupt_value = v
    /\ \A c \in CThreads :
         /\ efd[c] > 0 \/ handler[c].at = "read" => Fresh(interrupt_value)
         /\ handler[c].at = "got" => Fresh(handler[c].isr_val)
    /\ \A v \in Values, c \in CThreads : calls[c][v] > 0 => work[v] = "signalled"

\* A value that was not raised yet has no work item.
RaisedInv == \A v \in Values : v > raised => work[v] = "none"

IInv == RaisedInv /\ TypeOK /\ HolderInv /\ OwnerInv /\ TokenInv /\ ValueInv /\ DeliveredOnce
-----------------------------------------------------------------------------
\* Counting one more keeps a function into the naturals one.
LEMMA Increment ==
  ASSUME NEW S, NEW f \in [S -> Nat], NEW x
  PROVE  [f EXCEPT ![x] = f[x] + 1] \in [S -> Nat]
<1>1. CASE x \in S
  <2>1. f[x] + 1 \in Nat
    BY <1>1
  <2>2. QED
    BY <1>1, <2>1
<1>2. CASE x \notin S
  <2>1. [f EXCEPT ![x] = f[x] + 1] = f
    BY <1>2
  <2>2. QED
    BY <2>1
<1>3. QED
  BY <1>1, <1>2

\* A work item that has the mutex finds a recipient.
LEMMA Recipient ==
  ASSUME IInv, seen = {}, NEW v \in Values, work[v] \in {"locked", "checked"}
  PROVE  user_notifier \in CThreads
BY NotifyAssumption DEF IInv, OwnerInv, Outstanding

\* Without a live cThread nobody has the mutex.
LEMMA NobodyHasIt ==
  ASSUME IInv, seen = {}, \A c \in CThreads : pc[c] # "live"
  PROVE  Holding = {} /\ Signalled = {} /\ Handling = {}
BY DEF IInv, OwnerInv, Outstanding, Holding, Signalled

\* Every action keeps the types of the variables.
LEMMA NextTypeOK ==
  ASSUME TypeOK, Next
  PROVE  TypeOK'
<1>1. CASE Raise
  <2>1. raised + 1 \in Values /\ raised + 1 \in 0 .. Last
    BY <1>1, NotifyAssumption DEF Raise, TypeOK, Values
  <2>2. QED
    BY <1>1, <2>1 DEF Raise, TypeOK
<1>2. ASSUME NEW v \in Values, NotifyLock(v) PROVE TypeOK'
  BY <1>2 DEF NotifyLock, TypeOK, Values, Closing
<1>3. ASSUME NEW v \in Values, NotifyCheck(v) PROVE TypeOK'
  <2>1. v \in 0 .. Last
    BY NotifyAssumption DEF Values
  <2>2. QED
    BY <1>3, <2>1 DEF NotifyCheck, TypeOK
<1>4. ASSUME NEW v \in Values, NotifySignal(v) PROVE TypeOK'
  <2>1. efd' \in [CThreads -> Nat]
    BY <1>4, Increment DEF NotifySignal, TypeOK
  <2>2. work' \in [Values -> {"none", "queued", "locked", "checked", "signalled",
                             "dropped", "oops"}]
    BY <1>4 DEF NotifySignal, TypeOK
  <2>3. QED
    BY <1>4, <2>1, <2>2 DEF NotifySignal, TypeOK
<1>5. ASSUME NEW c \in CThreads, RegisterCtid(c) PROVE TypeOK'
  BY <1>5 DEF RegisterCtid, TypeOK, Values, Closing
<1>6. ASSUME NEW c \in CThreads, StartEventThread(c) PROVE TypeOK'
  BY <1>6 DEF StartEventThread, TypeOK, Values, Closing
<1>7. ASSUME NEW c \in CThreads, RegisterEventfdMutex(c) PROVE TypeOK'
  BY <1>7 DEF RegisterEventfdMutex, TypeOK, Values, Closing
<1>8. ASSUME NEW c \in CThreads, RegisterEventfd(c) PROVE TypeOK'
  BY <1>8 DEF RegisterEventfd, TypeOK, Values, Closing
<1>9. ASSUME NEW c \in CThreads, UnregisterCtid(c) PROVE TypeOK'
  BY <1>9 DEF UnregisterCtid, TypeOK, Values, Closing
<1>10. ASSUME NEW c \in CThreads, UnregisterEventfd(c) PROVE TypeOK'
  BY <1>10 DEF UnregisterEventfd, TypeOK, Values, Closing
<1>11. ASSUME NEW c \in CThreads, WriteTerminateEfd(c) PROVE TypeOK'
  BY <1>11 DEF WriteTerminateEfd, TypeOK, Values, Closing
<1>12. ASSUME NEW c \in CThreads, Join(c) PROVE TypeOK'
  BY <1>12 DEF Join, TypeOK, Values, Closing
<1>13. ASSUME NEW c \in CThreads, LastProcessed(c) PROVE TypeOK'
  BY <1>13 DEF LastProcessed, TypeOK, Values, Closing
<1>14. ASSUME NEW c \in CThreads, EventRead(c) PROVE TypeOK'
  BY <1>14 DEF EventRead, TypeOK, Values, Closing
<1>15. ASSUME NEW c \in CThreads, EventGetValue(c) PROVE TypeOK'
  <2> DEFINE R == [at : {"off", "wait", "read", "got", "called"}, isr_val : 0 .. Last]
  <2>1. [handler[c] EXCEPT !.at = "got", !.isr_val = interrupt_value] \in R
    BY DEF TypeOK
  <2>2. handler' \in [CThreads -> R]
    BY <1>15, <2>1 DEF EventGetValue, TypeOK
  <2>3. QED
    BY <1>15, <2>2 DEF EventGetValue, TypeOK
<1>16. ASSUME NEW c \in CThreads, EventUisr(c) PROVE TypeOK'
  <2> DEFINE x == handler[c].isr_val
             f == [calls[c] EXCEPT ![x] = calls[c][x] + 1]
  <2>1. calls' \in [CThreads -> [Values -> Nat]]
    <3>1. f \in [Values -> Nat]
      BY Increment DEF TypeOK
    <3>2. calls' = [calls EXCEPT ![c] = f]
      BY <1>16 DEF EventUisr
    <3>3. QED
      BY <3>1, <3>2 DEF TypeOK
  <2>2. handler' \in [CThreads -> [at : {"off", "wait", "read", "got", "called"}, isr_val : 0 .. Last]]
    BY <1>16 DEF EventUisr, TypeOK
  <2>3. QED
    BY <1>16, <2>1, <2>2 DEF EventUisr, TypeOK
<1>17. ASSUME NEW c \in CThreads, EventProcessed(c) PROVE TypeOK'
  <2>1. 0 \in 0 .. Last
    BY NotifyAssumption
  <2>2. QED
    BY <1>17, <2>1 DEF EventProcessed, TypeOK
<1>18. ASSUME NEW c \in CThreads, EventTerminate(c) PROVE TypeOK'
  BY <1>18 DEF EventTerminate, TypeOK, Values, Closing
<1>19. QED
  BY <1>1, <1>2, <1>3, <1>4, <1>5, <1>6, <1>7, <1>8, <1>9,
     <1>10, <1>11, <1>12, <1>13, <1>14, <1>15, <1>16, <1>17, <1>18
     DEF Next, Worker, EventThread, Destructor

\* Every action keeps the holder of the ID in step with the constructors and
\* destructors.
LEMMA NextHolderInv ==
  ASSUME TypeOK, HolderInv, Next
  PROVE  HolderInv'
<1>1. CASE Raise
  BY <1>1 DEF Raise, TypeOK, HolderInv
<1>2. ASSUME NEW v \in Values, NotifyLock(v) PROVE HolderInv'
  BY <1>2 DEF NotifyLock, TypeOK, HolderInv
<1>3. ASSUME NEW v \in Values, NotifyCheck(v) PROVE HolderInv'
  BY <1>3 DEF NotifyCheck, TypeOK, HolderInv
<1>4. ASSUME NEW v \in Values, NotifySignal(v) PROVE HolderInv'
  BY <1>4 DEF NotifySignal, TypeOK, HolderInv
<1>5. ASSUME NEW c \in CThreads, RegisterCtid(c) PROVE HolderInv'
  BY <1>5, NotifyAssumption DEF RegisterCtid, TypeOK, HolderInv
<1>6. ASSUME NEW c \in CThreads, StartEventThread(c) PROVE HolderInv'
  BY <1>6 DEF StartEventThread, TypeOK, HolderInv
<1>7. ASSUME NEW c \in CThreads, RegisterEventfdMutex(c) PROVE HolderInv'
  BY <1>7 DEF RegisterEventfdMutex, TypeOK, HolderInv
<1>8. ASSUME NEW c \in CThreads, RegisterEventfd(c) PROVE HolderInv'
  BY <1>8 DEF RegisterEventfd, TypeOK, HolderInv
<1>9. ASSUME NEW c \in CThreads, UnregisterCtid(c) PROVE HolderInv'
  BY <1>9, NotifyAssumption DEF UnregisterCtid, TypeOK, HolderInv
<1>10. ASSUME NEW c \in CThreads, UnregisterEventfd(c) PROVE HolderInv'
  BY <1>10 DEF UnregisterEventfd, TypeOK, HolderInv
<1>11. ASSUME NEW c \in CThreads, WriteTerminateEfd(c) PROVE HolderInv'
  BY <1>11 DEF WriteTerminateEfd, TypeOK, HolderInv
<1>12. ASSUME NEW c \in CThreads, Join(c) PROVE HolderInv'
  BY <1>12 DEF Join, TypeOK, HolderInv
<1>13. ASSUME NEW c \in CThreads, LastProcessed(c) PROVE HolderInv'
  BY <1>13 DEF LastProcessed, TypeOK, HolderInv
<1>14. ASSUME NEW c \in CThreads, EventRead(c) PROVE HolderInv'
  BY <1>14 DEF EventRead, TypeOK, HolderInv
<1>15. ASSUME NEW c \in CThreads, EventGetValue(c) PROVE HolderInv'
  BY <1>15 DEF EventGetValue, TypeOK, HolderInv
<1>16. ASSUME NEW c \in CThreads, EventUisr(c) PROVE HolderInv'
  BY <1>16 DEF EventUisr, TypeOK, HolderInv
<1>17. ASSUME NEW c \in CThreads, EventProcessed(c) PROVE HolderInv'
  BY <1>17 DEF EventProcessed, TypeOK, HolderInv
<1>18. ASSUME NEW c \in CThreads, EventTerminate(c) PROVE HolderInv'
  BY <1>18 DEF EventTerminate, TypeOK, HolderInv
<1>19. QED
  BY <1>1, <1>2, <1>3, <1>4, <1>5, <1>6, <1>7, <1>8, <1>9,
     <1>10, <1>11, <1>12, <1>13, <1>14, <1>15, <1>16, <1>17, <1>18
     DEF Next, Worker, EventThread, Destructor

\* A registration finds nobody in the destructor, and a destructor starts when
\* nothing is under way.
LEMMA NextOwnerInv ==
  ASSUME IInv, Next
  PROVE  OwnerInv'
<1>1. CASE Raise
  BY <1>1 DEF Raise, IInv, TypeOK, OwnerInv, Closing, Outstanding, Handling
<1>2. ASSUME NEW v \in Values, NotifyLock(v) PROVE OwnerInv'
  BY <1>2 DEF NotifyLock, IInv, TypeOK, OwnerInv, Closing, Outstanding, Handling
<1>3. ASSUME NEW v \in Values, NotifyCheck(v) PROVE OwnerInv'
  BY <1>3
     DEF NotifyCheck, IInv, TypeOK, OwnerInv, Closing, Outstanding, Handling
<1>4. ASSUME NEW v \in Values, NotifySignal(v) PROVE OwnerInv'
  BY <1>4
     DEF NotifySignal, IInv, TypeOK, OwnerInv, Closing, Outstanding, Handling
<1>5. ASSUME NEW c \in CThreads, RegisterCtid(c) PROVE OwnerInv'
  BY <1>5
     DEF RegisterCtid, IInv, TypeOK, OwnerInv, Closing, Outstanding, Handling
<1>6. ASSUME NEW c \in CThreads, StartEventThread(c) PROVE OwnerInv'
  BY <1>6
     DEF StartEventThread, IInv, TypeOK, OwnerInv, Closing, Outstanding,
         Handling
<1>7. ASSUME NEW c \in CThreads, RegisterEventfdMutex(c) PROVE OwnerInv'
  BY <1>7
     DEF RegisterEventfdMutex, IInv, TypeOK, OwnerInv, Closing, Outstanding,
         Handling
<1>8. ASSUME NEW c \in CThreads, RegisterEventfd(c) PROVE OwnerInv'
  BY <1>8
     DEF RegisterEventfd, IInv, TypeOK, HolderInv, OwnerInv, Closing,
         Outstanding, Handling
<1>9. ASSUME NEW c \in CThreads, UnregisterCtid(c) PROVE OwnerInv'
  <2> SUFFICES ASSUME seen' = {} PROVE OwnerInv'
    BY DEF OwnerInv
  <2>1. seen = {} /\ ~Outstanding
    BY <1>9 DEF UnregisterCtid
  <2>2. ~Outstanding'
    BY <1>9, <2>1 DEF UnregisterCtid, Outstanding, Handling
  <2>3. \A d \in CThreads : d # c => pc[d] \notin {"ctid", "thread", "mutex", "live"}
    BY <1>9 DEF IInv, HolderInv, UnregisterCtid
  <2>4. Closing = {}
    BY <1>9, <2>1, NotifyAssumption
       DEF IInv, HolderInv, OwnerInv, UnregisterCtid
  <2>5. Closing' = {c}
    BY <1>9, <2>4 DEF UnregisterCtid, Closing, IInv, TypeOK
  <2>6. user_notifier' = c /\ pc'[c] = "noctid" /\ holder' = None
    BY <1>9, <2>1 DEF UnregisterCtid, IInv, OwnerInv, TypeOK
  <2>7. \A d \in CThreads : pc'[d] # "live"
    BY <1>9, <2>3 DEF UnregisterCtid, IInv, TypeOK
  <2>8. QED
    BY <2>2, <2>5, <2>6, <2>7 DEF OwnerInv
<1>10. ASSUME NEW c \in CThreads, UnregisterEventfd(c) PROVE OwnerInv'
  BY <1>10
     DEF UnregisterEventfd, IInv, TypeOK, HolderInv, OwnerInv, Closing,
         Outstanding, Handling
<1>11. ASSUME NEW c \in CThreads, WriteTerminateEfd(c) PROVE OwnerInv'
  BY <1>11
     DEF WriteTerminateEfd, IInv, TypeOK, OwnerInv, Closing, Outstanding,
         Handling
<1>12. ASSUME NEW c \in CThreads, Join(c) PROVE OwnerInv'
  BY <1>12 DEF Join, IInv, TypeOK, OwnerInv, Closing, Outstanding, Handling
<1>13. ASSUME NEW c \in CThreads, LastProcessed(c) PROVE OwnerInv'
  BY <1>13
     DEF LastProcessed, IInv, TypeOK, OwnerInv, Closing, Outstanding, Handling
<1>14. ASSUME NEW c \in CThreads, EventRead(c) PROVE OwnerInv'
  BY <1>14 DEF EventRead, IInv, TypeOK, OwnerInv, Closing, Outstanding, Handling
<1>15. ASSUME NEW c \in CThreads, EventGetValue(c) PROVE OwnerInv'
  BY <1>15
     DEF EventGetValue, IInv, TypeOK, OwnerInv, Closing, Outstanding, Handling
<1>16. ASSUME NEW c \in CThreads, EventUisr(c) PROVE OwnerInv'
  BY <1>16 DEF EventUisr, IInv, TypeOK, OwnerInv, Closing, Outstanding, Handling
<1>17. ASSUME NEW c \in CThreads, EventProcessed(c) PROVE OwnerInv'
  BY <1>17
     DEF EventProcessed, IInv, TypeOK, OwnerInv, Closing, Outstanding, Handling
<1>18. ASSUME NEW c \in CThreads, EventTerminate(c) PROVE OwnerInv'
  BY <1>18
     DEF EventTerminate, IInv, TypeOK, OwnerInv, Closing, Outstanding, Handling
<1>19. QED
  BY <1>1, <1>2, <1>3, <1>4, <1>5, <1>6, <1>7, <1>8, <1>9,
     <1>10, <1>11, <1>12, <1>13, <1>14, <1>15, <1>16, <1>17, <1>18
     DEF Next, Worker, EventThread, Destructor

\* The token is passed on, never copied.
LEMMA NextTokenInv ==
  ASSUME IInv, Next
  PROVE  TokenInv'
<1>1. CASE Raise
  BY <1>1 DEF Raise, IInv, TypeOK, TokenInv, Holding, Signalled, Handling
<1>2. ASSUME NEW v \in Values, NotifyLock(v) PROVE TokenInv'
  BY <1>2 DEF NotifyLock, IInv, TypeOK, TokenInv, Holding, Signalled, Handling
<1>3. ASSUME NEW v \in Values, NotifyCheck(v) PROVE TokenInv'
  <2> SUFFICES ASSUME seen' = {} PROVE TokenInv'
    BY DEF TokenInv
  <2>1. seen = {} /\ user_notifier # None
    BY <1>3, Recipient, NotifyAssumption DEF NotifyCheck
  <2>2. Holding' = Holding
    BY <1>3, <2>1 DEF NotifyCheck, Holding, IInv, TypeOK
  <2>3. QED
    BY <1>3, <2>1, <2>2 DEF NotifyCheck, IInv, TokenInv, Signalled, Handling
<1>4. ASSUME NEW v \in Values, NotifySignal(v) PROVE TokenInv'
  <2> SUFFICES ASSUME seen' = {} PROVE TokenInv'
    BY DEF TokenInv
  <2>1. seen = {} /\ user_notifier \in CThreads /\ user_notifier # None
    BY <1>4, Recipient, NotifyAssumption DEF NotifySignal
  <2>2. v \in Holding
    BY <1>4 DEF NotifySignal, Holding
  <2>3. /\ user_notifier_lock /\ Signalled = {} /\ Handling = {}
        /\ \A w \in Holding : v = w
    BY <2>1, <2>2 DEF IInv, TokenInv
  <2>4. Holding' = {}
    BY <1>4, <2>1, <2>3 DEF NotifySignal, Holding, IInv, TypeOK
  <2>5. Signalled' = {user_notifier} /\ efd'[user_notifier] = 1
    BY <1>4, <2>1, <2>3 DEF NotifySignal, Signalled, IInv, TypeOK
  <2>6. Handling' = {} /\ user_notifier_lock'
    BY <1>4, <2>3 DEF NotifySignal, Handling
  <2>7. QED
    BY <2>4, <2>5, <2>6 DEF TokenInv
<1>5. ASSUME NEW c \in CThreads, RegisterCtid(c) PROVE TokenInv'
  BY <1>5 DEF RegisterCtid, IInv, TypeOK, TokenInv, Holding, Signalled, Handling
<1>6. ASSUME NEW c \in CThreads, StartEventThread(c) PROVE TokenInv'
  BY <1>6
     DEF StartEventThread, IInv, TypeOK, TokenInv, Holding, Signalled, Handling
<1>7. ASSUME NEW c \in CThreads, RegisterEventfdMutex(c) PROVE TokenInv'
  BY <1>7
     DEF RegisterEventfdMutex, IInv, TypeOK, HolderInv, OwnerInv, TokenInv,
         Holding, Signalled, Outstanding, Handling
<1>8. ASSUME NEW c \in CThreads, RegisterEventfd(c) PROVE TokenInv'
  BY <1>8
     DEF RegisterEventfd, IInv, TypeOK, TokenInv, Holding, Signalled, Handling
<1>9. ASSUME NEW c \in CThreads, UnregisterCtid(c) PROVE TokenInv'
  BY <1>9
     DEF UnregisterCtid, IInv, TypeOK, TokenInv, Holding, Signalled, Handling
<1>10. ASSUME NEW c \in CThreads, UnregisterEventfd(c) PROVE TokenInv'
  BY <1>10
     DEF UnregisterEventfd, IInv, TypeOK, TokenInv, Holding, Signalled, Handling
<1>11. ASSUME NEW c \in CThreads, WriteTerminateEfd(c) PROVE TokenInv'
  BY <1>11
     DEF WriteTerminateEfd, IInv, TypeOK, TokenInv, Holding, Signalled, Handling
<1>12. ASSUME NEW c \in CThreads, Join(c) PROVE TokenInv'
  BY <1>12 DEF Join, IInv, TypeOK, TokenInv, Holding, Signalled, Handling
<1>13. ASSUME NEW c \in CThreads, LastProcessed(c) PROVE TokenInv'
  <2> SUFFICES ASSUME seen' = {} PROVE TokenInv'
    BY DEF TokenInv
  <2>1. seen = {} /\ c \in Closing
    BY <1>13 DEF LastProcessed, Closing
  <2>2. \A d \in CThreads : pc[d] # "live"
    BY <2>1, NotifyAssumption DEF IInv, HolderInv, OwnerInv
  <2>3. Holding = {} /\ Signalled = {} /\ Handling = {}
    BY <2>1, <2>2, NobodyHasIt
  <2>4. Holding' = {} /\ Signalled' = {} /\ Handling' = {}
    BY <1>13, <2>3 DEF LastProcessed, Holding, Signalled, Handling
  <2>5. QED
    BY <2>4 DEF TokenInv
<1>14. ASSUME NEW c \in CThreads, EventRead(c) PROVE TokenInv'
  BY <1>14 DEF EventRead, IInv, TypeOK, TokenInv, Holding, Signalled, Handling
<1>15. ASSUME NEW c \in CThreads, EventGetValue(c) PROVE TokenInv'
  BY <1>15
     DEF EventGetValue, IInv, TypeOK, TokenInv, Holding, Signalled, Handling
<1>16. ASSUME NEW c \in CThreads, EventUisr(c) PROVE TokenInv'
  BY <1>16 DEF EventUisr, IInv, TypeOK, TokenInv, Holding, Signalled, Handling
<1>17. ASSUME NEW c \in CThreads, EventProcessed(c) PROVE TokenInv'
  BY <1>17
     DEF EventProcessed, IInv, TypeOK, TokenInv, Holding, Signalled, Handling
<1>18. ASSUME NEW c \in CThreads, EventTerminate(c) PROVE TokenInv'
  BY <1>18
     DEF EventTerminate, IInv, TypeOK, TokenInv, Holding, Signalled, Handling
<1>19. QED
  BY <1>1, <1>2, <1>3, <1>4, <1>5, <1>6, <1>7, <1>8, <1>9,
     <1>10, <1>11, <1>12, <1>13, <1>14, <1>15, <1>16, <1>17, <1>18
     DEF Next, Worker, EventThread, Destructor

\* Only the owner of the token replaces interrupt_value.
LEMMA NextValueInv ==
  ASSUME IInv, Next
  PROVE  ValueInv'
<1>1. CASE Raise
  <2> SUFFICES ASSUME seen' = {} PROVE ValueInv'
    BY DEF ValueInv
  <2>1. seen = {} /\ raised + 1 \in Values
    BY <1>1, NotifyAssumption DEF Raise, IInv, TypeOK, Values
  <2>2. work[raised + 1] = "none"
    BY <1>1, <2>1 DEF IInv, RaisedInv, TypeOK, Values
  <2>3. QED
    BY <1>1, <2>1, <2>2 DEF Raise, IInv, TypeOK, ValueInv, Fresh
<1>2. ASSUME NEW v \in Values, NotifyLock(v) PROVE ValueInv'
  BY <1>2 DEF NotifyLock, IInv, TypeOK, ValueInv, Fresh
<1>3. ASSUME NEW v \in Values, NotifyCheck(v) PROVE ValueInv'
  BY <1>3
     DEF NotifyCheck, IInv, TypeOK, HolderInv, OwnerInv, TokenInv, ValueInv,
         Fresh, Holding, Signalled, Outstanding, Handling
<1>4. ASSUME NEW v \in Values, NotifySignal(v) PROVE ValueInv'
  <2> SUFFICES ASSUME seen' = {} PROVE ValueInv'
    BY DEF ValueInv
  <2>1. seen = {} /\ user_notifier \in CThreads /\ user_notifier # None
    BY <1>4, Recipient, NotifyAssumption DEF NotifySignal
  <2>2. v \in Holding /\ interrupt_value = v
    BY <1>4, <2>1 DEF NotifySignal, Holding, IInv, ValueInv
  <2>3. Handling = {} /\ (\A w \in Holding : v = w)
    BY <2>1, <2>2 DEF IInv, TokenInv
  <2>4. /\ work' = [work EXCEPT ![v] = "signalled"]
        /\ UNCHANGED <<interrupt_value, handler, calls>>
    BY <1>4, <2>1 DEF NotifySignal
  <2>5. \A c \in CThreads : calls[c][v] = 0
    BY <1>4, <2>1 DEF NotifySignal, IInv, TypeOK, ValueInv
  <2>6. Fresh(v)'
    BY <2>2, <2>4, <2>5 DEF Fresh, IInv, TypeOK
  <2>7. QED
    BY <2>1, <2>2, <2>3, <2>4, <2>6
       DEF ValueInv, Handling, Holding, IInv, TypeOK
<1>5. ASSUME NEW c \in CThreads, RegisterCtid(c) PROVE ValueInv'
  BY <1>5 DEF RegisterCtid, IInv, TypeOK, ValueInv, Fresh
<1>6. ASSUME NEW c \in CThreads, StartEventThread(c) PROVE ValueInv'
  BY <1>6 DEF StartEventThread, IInv, TypeOK, ValueInv, Fresh
<1>7. ASSUME NEW c \in CThreads, RegisterEventfdMutex(c) PROVE ValueInv'
  BY <1>7 DEF RegisterEventfdMutex, IInv, TypeOK, ValueInv, Fresh
<1>8. ASSUME NEW c \in CThreads, RegisterEventfd(c) PROVE ValueInv'
  BY <1>8 DEF RegisterEventfd, IInv, TypeOK, ValueInv, Fresh
<1>9. ASSUME NEW c \in CThreads, UnregisterCtid(c) PROVE ValueInv'
  BY <1>9 DEF UnregisterCtid, IInv, TypeOK, ValueInv, Fresh
<1>10. ASSUME NEW c \in CThreads, UnregisterEventfd(c) PROVE ValueInv'
  BY <1>10 DEF UnregisterEventfd, IInv, TypeOK, ValueInv, Fresh
<1>11. ASSUME NEW c \in CThreads, WriteTerminateEfd(c) PROVE ValueInv'
  BY <1>11 DEF WriteTerminateEfd, IInv, TypeOK, ValueInv, Fresh
<1>12. ASSUME NEW c \in CThreads, Join(c) PROVE ValueInv'
  BY <1>12 DEF Join, IInv, TypeOK, ValueInv, Fresh
<1>13. ASSUME NEW c \in CThreads, LastProcessed(c) PROVE ValueInv'
  BY <1>13 DEF LastProcessed, IInv, TypeOK, ValueInv, Fresh
<1>14. ASSUME NEW c \in CThreads, EventRead(c) PROVE ValueInv'
  BY <1>14 DEF EventRead, IInv, TypeOK, ValueInv, Fresh
<1>15. ASSUME NEW c \in CThreads, EventGetValue(c) PROVE ValueInv'
  BY <1>15 DEF EventGetValue, IInv, TypeOK, ValueInv, Fresh
<1>16. ASSUME NEW c \in CThreads, EventUisr(c) PROVE ValueInv'
  BY <1>16
     DEF EventUisr, IInv, TypeOK, HolderInv, OwnerInv, TokenInv, ValueInv,
         Fresh, Holding, Signalled, Outstanding, Handling
<1>17. ASSUME NEW c \in CThreads, EventProcessed(c) PROVE ValueInv'
  BY <1>17 DEF EventProcessed, IInv, TypeOK, ValueInv, Fresh
<1>18. ASSUME NEW c \in CThreads, EventTerminate(c) PROVE ValueInv'
  BY <1>18 DEF EventTerminate, IInv, TypeOK, ValueInv, Fresh
<1>19. QED
  BY <1>1, <1>2, <1>3, <1>4, <1>5, <1>6, <1>7, <1>8, <1>9,
     <1>10, <1>11, <1>12, <1>13, <1>14, <1>15, <1>16, <1>17, <1>18
     DEF Next, Worker, EventThread, Destructor

\* A value in flight stays in flight until the routine is called with it.
LEMMA NextDeliveredOnce ==
  ASSUME IInv, Next
  PROVE  DeliveredOnce'
<1>1. CASE Raise
  BY <1>1 DEF Raise, IInv, TypeOK, DeliveredOnce, InFlight, Called
<1>2. ASSUME NEW v \in Values, NotifyLock(v) PROVE DeliveredOnce'
  BY <1>2 DEF NotifyLock, IInv, TypeOK, DeliveredOnce, InFlight, Called
<1>3. ASSUME NEW v \in Values, NotifyCheck(v) PROVE DeliveredOnce'
  <2> SUFFICES ASSUME seen' = {} PROVE DeliveredOnce'
    BY DEF DeliveredOnce
  <2>1. seen = {} /\ user_notifier # None
    BY <1>3, Recipient, NotifyAssumption DEF NotifyCheck
  <2>2. v \in Holding
    BY <1>3 DEF NotifyCheck, Holding
  <2>3. Signalled = {} /\ Handling = {}
    BY <2>1, <2>2 DEF IInv, TokenInv
  <2>4. \A w \in Values : ~InFlight(w)
    BY <2>3 DEF InFlight, Signalled, Handling
  <2>5. QED
    BY <1>3, <2>1, <2>4 DEF NotifyCheck, IInv, TypeOK, DeliveredOnce, Called
<1>4. ASSUME NEW v \in Values, NotifySignal(v) PROVE DeliveredOnce'
  <2> SUFFICES ASSUME seen' = {} PROVE DeliveredOnce'
    BY DEF DeliveredOnce
  <2>1. seen = {} /\ user_notifier \in CThreads /\ user_notifier # None
    BY <1>4, Recipient, NotifyAssumption DEF NotifySignal
  <2>2. v \in Holding /\ interrupt_value = v
    BY <1>4, <2>1 DEF NotifySignal, Holding, IInv, ValueInv
  <2>3. user_notifier_lock /\ Signalled = {} /\ Handling = {}
    BY <2>1, <2>2 DEF IInv, TokenInv
  <2>4. \A w \in Values : ~InFlight(w)
    BY <2>3 DEF InFlight, Signalled, Handling
  <2>5. InFlight(v)'
    BY <1>4, <2>1, <2>2, <2>3
       DEF NotifySignal, InFlight, Signalled, IInv, TypeOK
  <2>6. QED
    BY <1>4, <2>1, <2>4, <2>5
       DEF NotifySignal, IInv, TypeOK, DeliveredOnce, Called
<1>5. ASSUME NEW c \in CThreads, RegisterCtid(c) PROVE DeliveredOnce'
  BY <1>5 DEF RegisterCtid, IInv, TypeOK, DeliveredOnce, InFlight, Called
<1>6. ASSUME NEW c \in CThreads, StartEventThread(c) PROVE DeliveredOnce'
  BY <1>6
     DEF StartEventThread, IInv, TypeOK, HolderInv, OwnerInv, TokenInv,
         ValueInv, Fresh, Holding, Signalled, Outstanding, Handling,
         DeliveredOnce, InFlight, Called
<1>7. ASSUME NEW c \in CThreads, RegisterEventfdMutex(c) PROVE DeliveredOnce'
  BY <1>7
     DEF RegisterEventfdMutex, IInv, TypeOK, HolderInv, OwnerInv, TokenInv,
         ValueInv, Fresh, Holding, Signalled, Outstanding, Handling,
         DeliveredOnce, InFlight, Called
<1>8. ASSUME NEW c \in CThreads, RegisterEventfd(c) PROVE DeliveredOnce'
  BY <1>8 DEF RegisterEventfd, IInv, TypeOK, DeliveredOnce, InFlight, Called
<1>9. ASSUME NEW c \in CThreads, UnregisterCtid(c) PROVE DeliveredOnce'
  BY <1>9 DEF UnregisterCtid, IInv, TypeOK, DeliveredOnce, InFlight, Called
<1>10. ASSUME NEW c \in CThreads, UnregisterEventfd(c) PROVE DeliveredOnce'
  BY <1>10 DEF UnregisterEventfd, IInv, TypeOK, DeliveredOnce, InFlight, Called
<1>11. ASSUME NEW c \in CThreads, WriteTerminateEfd(c) PROVE DeliveredOnce'
  BY <1>11 DEF WriteTerminateEfd, IInv, TypeOK, DeliveredOnce, InFlight, Called
<1>12. ASSUME NEW c \in CThreads, Join(c) PROVE DeliveredOnce'
  BY <1>12 DEF Join, IInv, TypeOK, DeliveredOnce, InFlight, Called
<1>13. ASSUME NEW c \in CThreads, LastProcessed(c) PROVE DeliveredOnce'
  <2> SUFFICES ASSUME seen' = {} PROVE DeliveredOnce'
    BY DEF DeliveredOnce
  <2>1. seen = {} /\ c \in Closing
    BY <1>13 DEF LastProcessed, Closing
  <2>2. \A d \in CThreads : pc[d] # "live"
    BY <2>1, NotifyAssumption DEF IInv, HolderInv, OwnerInv
  <2>3. Signalled = {} /\ Handling = {}
    BY <2>1, <2>2, NobodyHasIt
  <2>4. \A w \in Values : ~InFlight(w)
    BY <2>3 DEF InFlight, Signalled, Handling
  <2>5. QED
    BY <1>13, <2>1, <2>4 DEF LastProcessed, IInv, DeliveredOnce, Called
<1>14. ASSUME NEW c \in CThreads, EventRead(c) PROVE DeliveredOnce'
  BY <1>14 DEF EventRead, IInv, TypeOK, DeliveredOnce, InFlight, Called
<1>15. ASSUME NEW c \in CThreads, EventGetValue(c) PROVE DeliveredOnce'
  BY <1>15 DEF EventGetValue, IInv, TypeOK, DeliveredOnce, InFlight, Called
<1>16. ASSUME NEW c \in CThreads, EventUisr(c) PROVE DeliveredOnce'
  BY <1>16
     DEF EventUisr, IInv, TypeOK, HolderInv, OwnerInv, TokenInv, ValueInv,
         Fresh, Holding, Signalled, Outstanding, Handling, DeliveredOnce,
         InFlight, Called
<1>17. ASSUME NEW c \in CThreads, EventProcessed(c) PROVE DeliveredOnce'
  <2> SUFFICES ASSUME seen' = {} PROVE DeliveredOnce'
    BY DEF DeliveredOnce
  <2>1. seen = {} /\ c \in Handling
    BY <1>17 DEF EventProcessed, Handling
  <2>2. Signalled = {} /\ (\A d \in Handling : c = d)
    BY <2>1 DEF IInv, TokenInv
  <2>3. \A w \in Values : ~InFlight(w)
    BY <1>17, <2>2 DEF EventProcessed, InFlight, Signalled, Handling
  <2>4. QED
    BY <1>17, <2>1, <2>3 DEF EventProcessed, IInv, DeliveredOnce, Called
<1>18. ASSUME NEW c \in CThreads, EventTerminate(c) PROVE DeliveredOnce'
  BY <1>18
     DEF EventTerminate, IInv, TypeOK, HolderInv, OwnerInv, TokenInv, ValueInv,
         Fresh, Holding, Signalled, Outstanding, Handling, DeliveredOnce,
         InFlight, Called
<1>19. QED
  BY <1>1, <1>2, <1>3, <1>4, <1>5, <1>6, <1>7, <1>8, <1>9,
     <1>10, <1>11, <1>12, <1>13, <1>14, <1>15, <1>16, <1>17, <1>18
     DEF Next, Worker, EventThread, Destructor

\* Only Raise changes raised, and it queues the next value.
LEMMA NextRaisedInv ==
  ASSUME IInv, Next
  PROVE  RaisedInv'
<1>1. CASE Raise
  BY <1>1 DEF Raise, IInv, TypeOK, RaisedInv, Values
<1>2. ASSUME NEW v \in Values, NotifyLock(v) PROVE RaisedInv'
  BY <1>2 DEF NotifyLock, IInv, TypeOK, RaisedInv, Values
<1>3. ASSUME NEW v \in Values, NotifyCheck(v) PROVE RaisedInv'
  BY <1>3 DEF NotifyCheck, IInv, TypeOK, RaisedInv, Values
<1>4. ASSUME NEW v \in Values, NotifySignal(v) PROVE RaisedInv'
  BY <1>4 DEF NotifySignal, IInv, TypeOK, RaisedInv, Values
<1>5. ASSUME NEW c \in CThreads, RegisterCtid(c) PROVE RaisedInv'
  BY <1>5 DEF RegisterCtid, IInv, TypeOK, RaisedInv, Values
<1>6. ASSUME NEW c \in CThreads, StartEventThread(c) PROVE RaisedInv'
  BY <1>6 DEF StartEventThread, IInv, TypeOK, RaisedInv, Values
<1>7. ASSUME NEW c \in CThreads, RegisterEventfdMutex(c) PROVE RaisedInv'
  BY <1>7 DEF RegisterEventfdMutex, IInv, TypeOK, RaisedInv, Values
<1>8. ASSUME NEW c \in CThreads, RegisterEventfd(c) PROVE RaisedInv'
  BY <1>8 DEF RegisterEventfd, IInv, TypeOK, RaisedInv, Values
<1>9. ASSUME NEW c \in CThreads, UnregisterCtid(c) PROVE RaisedInv'
  BY <1>9 DEF UnregisterCtid, IInv, TypeOK, RaisedInv, Values
<1>10. ASSUME NEW c \in CThreads, UnregisterEventfd(c) PROVE RaisedInv'
  BY <1>10 DEF UnregisterEventfd, IInv, TypeOK, RaisedInv, Values
<1>11. ASSUME NEW c \in CThreads, WriteTerminateEfd(c) PROVE RaisedInv'
  BY <1>11 DEF WriteTerminateEfd, IInv, TypeOK, RaisedInv, Values
<1>12. ASSUME NEW c \in CThreads, Join(c) PROVE RaisedInv'
  BY <1>12 DEF Join, IInv, TypeOK, RaisedInv, Values
<1>13. ASSUME NEW c \in CThreads, LastProcessed(c) PROVE RaisedInv'
  BY <1>13 DEF LastProcessed, IInv, TypeOK, RaisedInv, Values
<1>14. ASSUME NEW c \in CThreads, EventRead(c) PROVE RaisedInv'
  BY <1>14 DEF EventRead, IInv, TypeOK, RaisedInv, Values
<1>15. ASSUME NEW c \in CThreads, EventGetValue(c) PROVE RaisedInv'
  BY <1>15 DEF EventGetValue, IInv, TypeOK, RaisedInv, Values
<1>16. ASSUME NEW c \in CThreads, EventUisr(c) PROVE RaisedInv'
  BY <1>16 DEF EventUisr, IInv, TypeOK, RaisedInv, Values
<1>17. ASSUME NEW c \in CThreads, EventProcessed(c) PROVE RaisedInv'
  BY <1>17 DEF EventProcessed, IInv, TypeOK, RaisedInv, Values
<1>18. ASSUME NEW c \in CThreads, EventTerminate(c) PROVE RaisedInv'
  BY <1>18 DEF EventTerminate, IInv, TypeOK, RaisedInv, Values
<1>19. QED
  BY <1>1, <1>2, <1>3, <1>4, <1>5, <1>6, <1>7, <1>8, <1>9,
     <1>10, <1>11, <1>12, <1>13, <1>14, <1>15, <1>16, <1>17, <1>18
     DEF Next, Worker, EventThread, Destructor

\* Initially nothing is registered, raised or held.
LEMMA InitIInv == Init => IInv
<1> SUFFICES ASSUME Init PROVE IInv
  OBVIOUS
<1>1. TypeOK /\ RaisedInv
  <2>1. 0 \in 0 .. Last
    BY NotifyAssumption
  <2>2. QED
    BY <2>1 DEF Init, TypeOK, RaisedInv
<1>2. HolderInv
  BY NotifyAssumption DEF Init, HolderInv
<1>3. Closing = {} /\ ~Outstanding /\ Handling = {} /\ Holding = {} /\ Signalled = {}
  BY DEF Init, Closing, Outstanding, Handling, Holding, Signalled
<1>4. OwnerInv /\ TokenInv
  BY <1>3 DEF Init, OwnerInv, TokenInv
<1>5. ValueInv
  BY DEF Init, ValueInv
<1>6. DeliveredOnce
  BY DEF Init, DeliveredOnce
<1>7. QED
  BY <1>1, <1>2, <1>4, <1>5, <1>6 DEF IInv

\* The invariant is inductive.
LEMMA NextIInv == IInv /\ [Next]_vars => IInv'
<1>1. ASSUME IInv, Next PROVE IInv'
  BY <1>1, NextRaisedInv, NextTypeOK, NextHolderInv, NextOwnerInv, NextTokenInv,
     NextValueInv, NextDeliveredOnce DEF IInv
<1>2. ASSUME IInv, UNCHANGED vars PROVE IInv'
  BY <1>2
     DEF vars, IInv, RaisedInv, TypeOK, HolderInv, OwnerInv, TokenInv, ValueInv, Fresh,
         DeliveredOnce, InFlight, Called, Closing, Outstanding, Handling, Holding,
         Signalled
<1>3. QED
  BY <1>1, <1>2

\* The state of the notification path keeps its type, for any number of
\* cThreads and notifications.
THEOREM NotifyTypeCorrect == Spec => []TypeOK
BY InitIInv, NextIInv, PTL DEF Spec, IInv

\* Without strays and reuse every notification value is delivered once: the
\* mutex that vfpga_notify_handler takes and the user's process gives back is
\* one token, and interrupt_value belongs to whoever has it.
THEOREM ValuesAreDeliveredOnce == Spec => []DeliveredOnce
BY InitIInv, NextIInv, PTL DEF Spec, IInv
=============================================================================
