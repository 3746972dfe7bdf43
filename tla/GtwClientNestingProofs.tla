----------------------- MODULE GtwClientNestingProofs -----------------------
(***************************************************************************)
(* What the client of GtwClient promises of an application whose callbacks *)
(* do not call connect(): then the waits nest in one way only, and the     *)
(* user data of the connection is what libmosquitto's callbacks cast it    *)
(* to where it matters, the queue is that of the session, and nothing but  *)
(* disconnect() makes the client forget a reconnect.                       *)
(***************************************************************************)
EXTENDS GtwClientConnectionProofs

CallbacksDoNotConnect == "connect" \notin CallbackCalls

(***************************************************************************)
(* The shape of the call stack.                                            *)
(***************************************************************************)

\* A wait runs a handler, and a callback may wait for a response.
Follows(a, b) == \/ a \in Waits /\ b \in Handlers
                 \/ a \in Callbacks /\ b = "response"

NestedIn(s) == \A i \in DOMAIN s : i > 1 => Follows(s[i - 1].at, s[i].at)

\* connect() waits for the CONNACK at the bottom of the stack, with its context as the
\* user data of a connection that is subscribed to nothing.  The handler that brought
\* the CONNACK has dispatched what was queued before.
Connecting ==
  ~Idle /\ stack[1].at = "connack" =>
    /\ client.userData = "context" /\ topics = {}
    /\ stack[1].done /\ stack[1].error = "none" =>
         /\ accepted
         /\ Len(stack) = 1 /\ Open(client) => client.mMessageQueue = <<>>

\* connect() waits for the login at the bottom of the stack: every message is taken as
\* its response, so that nothing is queued and no callback runs.
LoggingIn ==
  ~Idle /\ stack[1].at = "login" =>
    /\ client.userData = "self" /\ accepted /\ topics = {"client"}
    /\ client.mExpectedResponse = 1
    /\ client.mMessageQueue = <<>>
    /\ \A i \in DOMAIN stack : i > 1 => i = 2 /\ stack[i].at \in {"read", "next"}
    /\ client.sock # NoFd => client.mConnected

SelfAccepted == Open(client) /\ client.userData = "self" => accepted

NestingInv ==
  /\ NestedIn(stack)
  /\ Connecting
  /\ LoggingIn
  /\ SelfAccepted
  /\ MessageFindsClient
  /\ QueueFresh

\* The stack as a sequence that is not empty.
LEMMA StackOK ==
  ASSUME TypeOK
  PROVE  /\ Len(stack) \in Nat /\ DOMAIN stack = 1 .. Len(stack)
         /\ Idle <=> Len(stack) = 0
         /\ ~Idle => 1 \in DOMAIN stack /\ Len(stack) \in DOMAIN stack
<1>1. Len(stack) \in Nat /\ DOMAIN stack = 1 .. Len(stack)
  BY DEF TypeOK
<1>2. Idle <=> Len(stack) = 0
  BY EmptySeq DEF TypeOK, Idle
<1>3. QED
  BY <1>1, <1>2

\* connect() waits only at the bottom.
LEMMA ConnectsAtTheBottom ==
  ASSUME IInv, NestedIn(stack), ~Idle, Top.at \in {"connack", "login"}
  PROVE  Len(stack) = 1 /\ Top = stack[1]
<1>1. Len(stack) \in Nat \ {0} /\ DOMAIN stack = 1 .. Len(stack)
  BY StackOK DEF IInv
<1>2. ASSUME Len(stack) > 1 PROVE FALSE
  <2>1. Follows(stack[Len(stack) - 1].at, Top.at)
    BY <1>1, <1>2 DEF NestedIn, Top
  <2>2. QED
    BY <2>1 DEF Follows, Handlers, Callbacks
<1>3. QED
  BY <1>1, <1>2 DEF Top

\* Above a wait of connect() there is a handler, and above that of a login no callback.
LEMMA AboveTheBottom ==
  ASSUME IInv, NestingInv, ~Idle, Top.at \in Handlers \cup {"response"},
         stack[1].at \in {"connack", "login"}
  PROVE  /\ Len(stack) > 1
         /\ Top.at = "response" => Len(stack) > 2
         /\ stack[1].at = "login" => Len(stack) = 2 /\ Top.at \in {"read", "next"}
<1>1. Len(stack) \in Nat \ {0} /\ DOMAIN stack = 1 .. Len(stack)
  BY StackOK DEF IInv
<1>2. Len(stack) > 1
  BY <1>1 DEF Top, Handlers, Callbacks
<1>3. Len(stack) = 2 => Follows(stack[1].at, Top.at)
  BY <1>1 DEF NestingInv, NestedIn, Top
<1>4. Top.at = "response" => Len(stack) > 2
  BY <1>1, <1>2, <1>3 DEF Follows, Handlers, Callbacks
<1>5. stack[1].at = "login" => Len(stack) = 2 /\ Top.at \in {"read", "next"}
  BY <1>1, <1>2 DEF NestingInv, LoggingIn, Top
<1>6. QED
  BY <1>2, <1>4, <1>5

\* Returning keeps the nesting.
LEMMA NestedRest ==
  ASSUME IInv, NestedIn(stack), ~Idle
  PROVE  /\ NestedIn(Rest) /\ Len(Rest) = Len(stack) - 1
         /\ Rest # <<>> => Len(stack) > 1 /\ Rest[1] = stack[1]
<1> DEFINE r == Rest
<1>1. Len(stack) \in Nat \ {0} /\ DOMAIN stack = 1 .. Len(stack)
  BY StackOK DEF IInv
<1>2. /\ r \in Seq(Frame) /\ DOMAIN r = DOMAIN stack \ {Len(stack)}
      /\ \A i \in DOMAIN r : r[i] = stack[i]
  BY RestOK DEF IInv
<1>3. Len(r) = Len(stack) - 1
  BY <1>1, SubSeqProperties DEF Rest, IInv, TypeOK
<1> HIDE DEF r
<1>4. NestedIn(r)
  BY <1>1, <1>2 DEF NestedIn
<1>5. r # <<>> => Len(stack) > 1 /\ r[1] = stack[1]
  BY <1>1, <1>2, <1>3, EmptySeq
<1>6. QED
  BY <1>3, <1>4, <1>5 DEF r

\* A handler is pushed by the loop or by a wait, a wait for a response by the
\* application or by a callback.
LEMMA NestedPush ==
  ASSUME IInv, NestedIn(stack), NEW f \in Frame, ~Idle => Follows(Top.at, f.at)
  PROVE  LET s == Append(stack, f)
         IN  /\ NestedIn(s) /\ Len(s) = Len(stack) + 1 /\ s # <<>>
             /\ s[1] = IF Idle THEN f ELSE stack[1]
             /\ s[Len(stack) + 1] = f
             /\ \A i \in DOMAIN stack : s[i] = stack[i]
<1> DEFINE s == Append(stack, f)
<1>1. Len(stack) \in Nat /\ DOMAIN stack = 1 .. Len(stack) /\ (Idle <=> Len(stack) = 0)
  BY StackOK DEF IInv
<1>2. /\ DOMAIN s = DOMAIN stack \cup {Len(stack) + 1} /\ Len(s) = Len(stack) + 1
      /\ \A i \in DOMAIN stack : s[i] = stack[i]
      /\ s[Len(stack) + 1] = f
  BY Pushed DEF IInv
<1>3. s # <<>>
  BY DEF IInv, TypeOK
<1> HIDE DEF s
<1>4. NestedIn(s)
  <2> SUFFICES ASSUME NEW i \in DOMAIN s, i > 1
               PROVE  Follows(s[i - 1].at, s[i].at)
    BY DEF NestedIn
  <2>1. CASE i = Len(stack) + 1
    <3>1. ~Idle /\ i - 1 = Len(stack) /\ i - 1 \in DOMAIN stack
      BY <1>1, <2>1
    <3>2. s[i - 1] = Top /\ s[i] = f
      BY <1>2, <2>1, <3>1 DEF Top
    <3>3. QED
      BY <3>1, <3>2
  <2>2. CASE i \in DOMAIN stack
    <3>1. i - 1 \in DOMAIN stack
      BY <1>1, <2>2
    <3>2. QED
      BY <1>2, <2>2, <3>1 DEF NestedIn
  <2>3. QED
    BY <1>2, <2>1, <2>2
<1>5. s[1] = IF Idle THEN f ELSE stack[1]
  BY <1>1, <1>2
<1>6. QED
  BY <1>2, <1>3, <1>4, <1>5 DEF s

\* A step that moves no frame keeps the nesting.
LEMMA NestedSame ==
  ASSUME IInv, NestedIn(stack), NEW s, DOMAIN s = DOMAIN stack,
         \A i \in DOMAIN stack : s[i].at = stack[i].at
  PROVE  NestedIn(s)
<1>1. Len(stack) \in Nat /\ DOMAIN stack = 1 .. Len(stack)
  BY StackOK DEF IInv
<1>2. QED
  BY <1>1 DEF NestedIn

\* The innermost handler moves among its places.
LEMMA NestedMove ==
  ASSUME IInv, NestedIn(stack), At(Handlers), NEW at \in Handlers,
         ReplaceTop([Top EXCEPT !.at = at])
  PROVE  /\ NestedIn(stack') /\ Len(stack') = Len(stack)
         /\ stack'[1] = IF Len(stack) = 1 THEN [Top EXCEPT !.at = at] ELSE stack[1]
         /\ [Top EXCEPT !.at = at].at = at
         /\ stack'[Len(stack)].at = at
<1> DEFINE f == [Top EXCEPT !.at = at]
<1>1. ~Idle /\ Top.at \in Handlers
  BY DEF At
<1>2. Len(stack) \in DOMAIN stack /\ Top \in Frame
  BY <1>1, RestOK DEF IInv
<1>3. f \in Frame /\ f.at = at
  BY <1>2 DEF Frame
<1>4. stack' = [stack EXCEPT ![Len(stack)] = f]
  BY DEF ReplaceTop
<1> HIDE DEF f
<1>5. /\ DOMAIN stack' = DOMAIN stack
      /\ \A j \in DOMAIN stack : stack'[j] = IF j = Len(stack) THEN f ELSE stack[j]
      /\ stack' \in Seq(Frame)
  BY <1>2, <1>3, <1>4, Replaced DEF IInv
<1>6. Len(stack) \in Nat \ {0} /\ DOMAIN stack = 1 .. Len(stack)
  BY <1>1, StackOK DEF IInv
<1>7. Len(stack') = Len(stack)
  BY <1>5, <1>6
<1>8. NestedIn(stack')
  <2> SUFFICES ASSUME NEW i \in DOMAIN stack, i > 1
               PROVE  Follows(stack'[i - 1].at, stack'[i].at)
    BY <1>5 DEF NestedIn
  <2>1. i - 1 \in DOMAIN stack /\ i - 1 # Len(stack)
    BY <1>6
  <2>2. Follows(stack[i - 1].at, stack[i].at) /\ stack'[i - 1] = stack[i - 1]
    BY <1>5, <2>1 DEF NestedIn
  <2>3. CASE i = Len(stack)
    <3>1. stack[i - 1].at \in Waits
      BY <1>1, <2>2, <2>3 DEF Follows, Top, Handlers, Callbacks
    <3>2. QED
      BY <1>3, <1>5, <2>2, <2>3, <3>1 DEF Follows
  <2>4. CASE i # Len(stack)
    BY <1>5, <2>2, <2>4
  <2>5. QED
    BY <2>3, <2>4
<1>9. stack'[1] = (IF Len(stack) = 1 THEN f ELSE stack[1]) /\ stack'[Len(stack)].at = at
  BY <1>2, <1>3, <1>5, <1>6
<1>10. QED
  BY <1>3, <1>7, <1>8, <1>9 DEF f

(***************************************************************************)
(* Each action keeps the invariant.                                        *)
(***************************************************************************)

\* A step that opens nothing and subscribes to nothing.
Tame ==
  /\ client'.userData = client.userData
  /\ client'.mConnected => client.mConnected
  /\ client'.sock \in {client.sock, NoFd}
  /\ topics' = topics
  /\ accepted => accepted'

\* Quiet functions make tame steps, and leave the queue to its session.
LEMMA QuietIsTame ==
  ASSUME Quiet(client, client'), topics' = topics, accepted => accepted'
  PROVE  Tame /\ (QueueFresh => QueueFresh')
BY DEF Quiet, Calm, Tame, QueueFresh

\* A tame step keeps the invariant if the bottom of the stack notices nothing of it.
LEMMA Undisturbed ==
  ASSUME IInv, NestingInv, Tame, NestedIn(stack'), QueueFresh',
         ~Idle' /\ stack'[1].at \in {"connack", "login"} => ~Idle /\ stack'[1].at = stack[1].at,
         ~Idle' /\ stack'[1].at = "connack" /\ stack'[1].done /\ stack'[1].error = "none" =>
           /\ accepted' \/ (stack[1].done /\ stack[1].error = "none")
           /\ Len(stack') = 1 /\ Open(client') => client'.mMessageQueue = <<>>,
         ~Idle' /\ stack'[1].at = "login" =>
           /\ client'.mExpectedResponse = client.mExpectedResponse
           /\ client'.mMessageQueue = client.mMessageQueue
           /\ \A i \in DOMAIN stack' : i > 1 => i = 2 /\ stack'[i].at \in {"read", "next"}
           /\ client'.sock # NoFd => client'.mConnected
  PROVE  NestingInv'
<1>1. Connecting'
  BY DEF NestingInv, Connecting, Tame, Open
<1>2. LoggingIn'
  BY DEF NestingInv, LoggingIn, Tame
<1>3. SelfAccepted' /\ MessageFindsClient'
  BY DEF NestingInv, SelfAccepted, MessageFindsClient, Tame, Open
<1>4. QED
  BY <1>1, <1>2, <1>3 DEF NestingInv

\* A handler or a wait for a response ends.
LEMMA PopUndisturbed ==
  ASSUME IInv, NestingInv, ~Idle, Top.at \in Handlers \cup {"response"}, stack' = Rest,
         Tame, QueueFresh',
         Top.at # "response" =>
           /\ Open(client') => client'.mMessageQueue = <<>>
           /\ client'.mExpectedResponse = client.mExpectedResponse
           /\ client'.mMessageQueue = client.mMessageQueue
           /\ client'.sock # NoFd => client'.mConnected = client.mConnected
  PROVE  NestingInv'
<1>1. /\ NestedIn(stack') /\ Len(stack') = Len(stack) - 1
      /\ ~Idle' => Len(stack) > 1 /\ stack'[1] = stack[1]
  BY NestedRest DEF NestingInv, Idle
<1>2. ~Idle' /\ stack'[1].at \in {"connack", "login"} => ~Idle /\ stack'[1].at = stack[1].at
  BY <1>1
<1>3. Len(stack) \in Nat
  BY DEF IInv, TypeOK
<1>4. ~Idle' /\ stack'[1].at = "connack" /\ stack'[1].done /\ stack'[1].error = "none" =>
        /\ accepted' \/ (stack[1].done /\ stack[1].error = "none")
        /\ Len(stack') = 1 /\ Open(client') => client'.mMessageQueue = <<>>
  BY <1>1, <1>3, AboveTheBottom
<1>5. ASSUME ~Idle', stack'[1].at = "login"
      PROVE  /\ client'.mExpectedResponse = client.mExpectedResponse
             /\ client'.mMessageQueue = client.mMessageQueue
             /\ \A i \in DOMAIN stack' : i > 1 => i = 2 /\ stack'[i].at \in {"read", "next"}
             /\ client'.sock # NoFd => client'.mConnected
  <2>1. Len(stack) = 2 /\ Top.at # "response" /\ stack[1].at = "login"
    BY <1>1, <1>5, AboveTheBottom
  <2>2. DOMAIN stack' = 1 .. Len(stack) - 1
    <3>1. DOMAIN Rest = DOMAIN stack \ {Len(stack)}
      BY RestOK DEF IInv
    <3>2. DOMAIN stack = 1 .. Len(stack)
      BY DEF IInv, TypeOK
    <3>3. QED
      BY <1>3, <3>1, <3>2
  <2>3. client.sock # NoFd => client.mConnected
    BY <2>1 DEF NestingInv, LoggingIn
  <2>4. QED
    BY <2>1, <2>2, <2>3 DEF Tame
<1>6. QED
  BY <1>1, <1>2, <1>4, <1>5, Undisturbed

\* connect() returns: the stack is empty.
LEMMA ConnectPops ==
  ASSUME IInv, NestingInv, ~Idle, Top.at \in {"connack", "login"}, stack' = Rest
  PROVE  stack' = <<>> /\ NestedIn(stack') /\ Idle' /\ stack[1] = Top
<1>1. Len(stack) = 1 /\ Top = stack[1]
  BY ConnectsAtTheBottom DEF NestingInv
<1>2. /\ NestedIn(Rest) /\ Len(Rest) = Len(stack) - 1
      /\ Rest # <<>> => Len(stack) > 1
  BY NestedRest DEF NestingInv
<1>3. QED
  BY <1>1, <1>2 DEF Idle

\* connect() that opens a socket starts with an empty stack.
LEMMA OpenUndisturbed ==
  ASSUME IInv, NestingInv, Idle, NEW c, Good(c), NEW fd \in Fds, NEW auto \in BOOLEAN, MayRequest,
         c.mSessionInfo = client.mSessionInfo, c.mMessageQueue = client.mMessageQueue,
         client' = open(c, fd),
         stack' = Append(stack, [NewFrame("connack", fd) EXCEPT !.auto = auto,
                                                                !.req  = nextReq]),
         topics' = {}
  PROVE  NestingInv'
<1>1. /\ client'.userData = "context" /\ client'.mSessionInfo = c.mSessionInfo
      /\ client'.mMessageQueue = c.mMessageQueue
  BY DEF open, Good, ClientState
<1> DEFINE f == [NewFrame("connack", fd) EXCEPT !.auto = auto, !.req = nextReq]
<1>2. f \in Frame /\ f.at = "connack"
  BY ConnackFrame DEF IInv
<1>3. f.done = FALSE
  BY DEF NewFrame
<1>4. stack' = Append(stack, f)
  OBVIOUS
<1> HIDE DEF f
<1>5. NestedIn(stack') /\ stack' # <<>> /\ stack'[1] = f
  BY <1>2, <1>4, NestedPush DEF NestingInv
<1>6. Connecting' /\ LoggingIn'
  BY <1>1, <1>2, <1>3, <1>5 DEF Connecting, LoggingIn
<1>7. SelfAccepted' /\ MessageFindsClient'
  BY <1>1 DEF SelfAccepted, MessageFindsClient
<1>8. QueueFresh'
  BY <1>1 DEF NestingInv, QueueFresh
<1>9. QED
  BY <1>5, <1>6, <1>7, <1>8 DEF NestingInv

\* A step of the loop, with an empty stack before and after.
LEMMA IdleUndisturbed ==
  ASSUME IInv, NestingInv, Idle, stack' = stack, Tame, QueueFresh'
  PROVE  NestingInv'
<1>1. Idle' /\ NestedIn(stack')
  BY DEF Idle, NestingInv
<1>2. QED
  BY <1>1, Undisturbed

\* connect() is not called from a callback.
LEMMA ConnectNested ==
  ASSUME CallbacksDoNotConnect, IInv, NestingInv, Connect
  PROVE  NestingInv'
<1>1. Idle
  BY DEF Connect, MayCall, CallbacksDoNotConnect
<1>2. CASE client' = client /\ stack' = stack /\ UNCHANGED <<accepted, topics>>
  <2>1. Tame /\ QueueFresh'
    BY <1>2, QuietReflexive, QuietIsTame DEF NestingInv
  <2>2. QED
    BY <1>1, <1>2, <2>1, IdleUndisturbed
<1>3. CASE client' = mosquittoClose(client) /\ stack' = stack /\ UNCHANGED <<accepted, topics>>
  <2>1. Tame /\ QueueFresh'
    BY <1>3, CloseIsQuiet, QuietIsTame DEF NestingInv, IInv, TypeOK
  <2>2. QED
    BY <1>1, <1>3, <2>1, IdleUndisturbed
<1>4. ASSUME MayRequest, NEW fd \in Fds, client' = open(client, fd),
             stack' = Append(stack, [NewFrame("connack", fd) EXCEPT !.auto = FALSE,
                                                                    !.req  = nextReq]),
             topics' = {}
      PROVE  NestingInv'
  BY <1>1, <1>4, OpenUndisturbed DEF IInv, ClientInv
<1>5. QED
  BY <1>2, <1>3, <1>4 DEF Connect, connect, ConnectReturns

\* reconnect() is called by the loop.
LEMMA FireReconnectNested ==
  ASSUME IInv, NestingInv, FireReconnect
  PROVE  NestingInv'
<1>1. PICK t \in TimerIds :
        /\ client.timers[t] = "reconnect"
        /\ IF client.mReconnecting THEN connect(stopTimer(client, t), TRUE)
           ELSE /\ client' = stopTimer(client, t)
                /\ result' = Nothing
                /\ UNCHANGED <<accepted, topics, nextReq, stack>>
  BY DEF FireReconnect
<1> DEFINE c == stopTimer(client, t)
<1>2. Good(c)
  BY StopKeeps DEF IInv, ClientInv, Kept
<1>3. ~Pending(c)
  BY <1>1, StopTimer DEF IInv, ClientInv, Good, SlotsOK, Pending
<1>4. client.mReconnecting
  BY <1>1 DEF IInv, ClientInv, Good, Pending
<1>5. SameElse(client, c)
  BY StopTimer DEF IInv, TypeOK
<1> HIDE DEF c
<1>6. connect(c, TRUE) /\ Idle
  BY <1>1, <1>4 DEF FireReconnect, c
<1>7. ASSUME NEW d, Good(d), d.mReconnecting, ~Pending(d), NEW ok \in BOOLEAN,
             d.userData = client.userData, d.mMessageQueue = client.mMessageQueue,
             d.mConnected = client.mConnected, d.sock \in {client.sock, NoFd},
             d.mSessionInfo = client.mSessionInfo,
             ConnectReturns(d, TRUE, ok), stack' = stack, UNCHANGED <<accepted, topics>>
      PROVE  NestingInv'
  <2>1. SameConnection(d, client')
    BY <1>7, ReconnectReturnsCalm DEF ConnectReturns
  <2>2. Tame /\ QueueFresh'
    BY <1>7, <2>1 DEF Tame, SameConnection, NestingInv, QueueFresh
  <2>3. QED
    BY <1>6, <1>7, <2>2, IdleUndisturbed
<1>8. CASE ConnectReturns(c, TRUE, TRUE) /\ stack' = stack /\ UNCHANGED <<accepted, topics>>
  BY <1>2, <1>3, <1>4, <1>5, <1>7, <1>8 DEF SameElse
<1>9. CASE ConnectReturns(mosquittoClose(c), TRUE, FALSE) /\ stack' = stack
           /\ UNCHANGED <<accepted, topics>>
  <2> DEFINE d == mosquittoClose(c)
  <2>1. Good(d)
    BY <1>2, MosquittoCloseKeeps DEF Kept
  <2>2. /\ d.mReconnecting = c.mReconnecting /\ d.timers = c.timers
        /\ d.userData = c.userData /\ d.mMessageQueue = c.mMessageQueue
        /\ d.mConnected = c.mConnected /\ d.sock = NoFd /\ d.mSessionInfo = c.mSessionInfo
    BY <1>2 DEF mosquittoClose, Good, ClientState
  <2> HIDE DEF d
  <2>3. d.mReconnecting /\ ~Pending(d)
    BY <1>3, <1>4, <1>5, <2>2 DEF Pending, SameElse
  <2>4. ConnectReturns(d, TRUE, FALSE)
    BY <1>9 DEF d
  <2>5. QED
    BY <1>5, <1>7, <1>9, <2>1, <2>2, <2>3, <2>4 DEF SameElse
<1>10. ASSUME MayRequest, NEW fd \in Fds, client' = open(c, fd),
              stack' = Append(stack, [NewFrame("connack", fd) EXCEPT !.auto = TRUE,
                                                                     !.req  = nextReq]),
              topics' = {}
       PROVE  NestingInv'
  BY <1>2, <1>5, <1>6, <1>10, OpenUndisturbed DEF SameElse
<1>11. QED
  BY <1>6, <1>8, <1>9, <1>10 DEF connect

\* A step that leaves the stack alone and is taken above a wait for the CONNACK leaves
\* that wait where it is.
LEMMA BottomStays ==
  ASSUME stack' = stack, Len(stack) \in Nat, Idle' <=> Idle,
         ~Idle /\ stack[1].at \in {"connack", "login"} =>
           Len(stack) > 1 /\ stack[1].at # "login"
  PROVE  ~Idle' /\ stack'[1].at \in {"connack", "login"} =>
           ~Idle /\ stack'[1] = stack[1] /\ stack'[1].at # "login" /\ Len(stack') # 1
<1>1. stack'[1] = stack[1]
  OBVIOUS
<1>2. Len(stack') = Len(stack)
  OBVIOUS
<1>3. ~Idle /\ stack[1].at \in {"connack", "login"} =>
        Len(stack) # 1 /\ stack[1].at # "login"
  <2>1. ASSUME NEW n \in Nat, n > 1 PROVE n # 1
    BY <2>1
  <2>2. QED
    BY <2>1
<1>4. QED
  BY <1>1, <1>2, <1>3

\* disconnect() may be called from a callback, which no login waits below.
LEMMA DisconnectNested ==
  ASSUME IInv, NestingInv, Disconnect
  PROVE  NestingInv'
<1>1. stack' = stack /\ client' = disconnect(client, FALSE) /\ UNCHANGED <<accepted, topics>>
  BY DEF Disconnect
<1>2. Tame /\ QueueFresh'
  BY <1>1, DisconnectIsQuiet, QuietIsTame DEF NestingInv, IInv, TypeOK
<1>3. Idle \/ (~Idle /\ Top.at \in Callbacks)
  BY DEF Disconnect, MayCall, At
<1>4. ~Idle /\ stack[1].at \in {"connack", "login"} => Len(stack) > 1 /\ stack[1].at # "login"
  BY <1>3, AboveTheBottom DEF Handlers, Callbacks
<1>5. NestedIn(stack') /\ (Idle' <=> Idle) /\ Len(stack) \in Nat
  BY <1>1 DEF NestingInv, Idle, IInv, TypeOK
<1>6. ~Idle' /\ stack'[1].at \in {"connack", "login"} =>
        ~Idle /\ stack'[1] = stack[1] /\ stack'[1].at # "login" /\ Len(stack') # 1
  BY <1>1, <1>4, <1>5, BottomStays
<1>7. QED
  BY <1>2, <1>5, <1>6, Undisturbed

\* A step that leaves alone the client and the stack.
LEMMA NothingNested ==
  ASSUME IInv, NestingInv, UNCHANGED <<client, stack, accepted, topics>>
  PROVE  NestingInv'
BY DEF NestingInv, Connecting, LoggingIn, SelfAccepted, MessageFindsClient, QueueFresh,
       Idle, Open

\* sendRequest() waits on top of a callback, or at the bottom.
LEMMA SendRequestNested ==
  ASSUME IInv, NestingInv, SendRequest
  PROVE  NestingInv'
<1>1. CASE UNCHANGED <<client, stack>>
  BY <1>1, NothingNested DEF SendRequest
<1>2. CASE CanSend /\ MayRequest /\ ~UNCHANGED <<client, stack>>
  <2>1. PICK t \in Types :
          stack' = Append(stack, [NewFrame("response", client.sock) EXCEPT
                                    !.type = t, !.req = nextReq, !.key = client.mSessionInfo])
    BY <1>2 DEF SendRequest
  <2>2. client' = expect(client, Len(stack) + 1) /\ UNCHANGED <<accepted, topics>>
    BY <1>2 DEF SendRequest
  <2> DEFINE f == [NewFrame("response", client.sock) EXCEPT
                     !.type = t, !.req = nextReq, !.key = client.mSessionInfo]
  <2>3. f \in Frame /\ f.at = "response"
    <3>1. client.sock \in Fds \cup {NoFd} /\ client.mSessionInfo \in Sessions
      BY DEF IInv, TypeOK, ClientState
    <3>2. NewFrame("response", client.sock) \in Frame
      BY <3>1, NewFrameOK DEF Waits, WaitsForResponse
    <3>3. NewFrame("response", client.sock).at = "response"
      BY DEF NewFrame
    <3>4. t \in MessageTypes /\ nextReq \in Sessions
      BY <1>2, BoundsAssumption DEF MessageTypes, IInv, TypeOK, MayRequest, Sessions
    <3>5. QED
      BY <3>1, <3>2, <3>3, <3>4 DEF Frame
  <2>4. stack' = Append(stack, f)
    BY <2>1
  <2> HIDE DEF f
  <2>5. Idle \/ (~Idle /\ Top.at \in Callbacks)
    BY DEF SendRequest, MayCall, At
  <2>6. ~Idle => Follows(Top.at, f.at)
    BY <2>3, <2>5 DEF Follows
  <2>7. /\ NestedIn(stack') /\ Len(stack') = Len(stack) + 1 /\ stack' # <<>>
        /\ stack'[1] = IF Idle THEN f ELSE stack[1]
    BY <2>3, <2>4, <2>6, NestedPush DEF NestingInv
  <2>8. ~Idle /\ stack[1].at \in {"connack", "login"} => Len(stack) > 1 /\ stack[1].at # "login"
    BY <2>5, AboveTheBottom DEF Handlers, Callbacks
  <2>9. Tame /\ QueueFresh'
    <3>1. /\ client'.userData = client.userData /\ client'.mConnected = client.mConnected
          /\ client'.sock = client.sock /\ client'.mSessionInfo = client.mSessionInfo
          /\ client'.mMessageQueue = client.mMessageQueue
      BY <2>2 DEF expect, IInv, TypeOK, ClientState
    <3>2. QED
      BY <2>2, <3>1 DEF Tame, NestingInv, QueueFresh
  <2>10. Len(stack) \in Nat
    BY DEF IInv, TypeOK
  <2>11. stack'[1].at \in {"connack", "login"} =>
           ~Idle /\ stack'[1] = stack[1] /\ stack'[1].at # "login" /\ Len(stack') # 1
    BY <2>3, <2>7, <2>8, <2>10
  <2>12. QED
    BY <2>7, <2>9, <2>11, Undisturbed
<1>3. QED
  BY <1>1, <1>2 DEF SendRequest

\* A handler is called by the loop or by the innermost wait.
LEMMA StartReadingNested ==
  ASSUME IInv, NestingInv, StartReading, Idle \/ At(Waits)
  PROVE  NestingInv'
<1> DEFINE f == NewFrame("read", client.sock)
<1>1. client.sock \in Fds \cup {NoFd}
  BY DEF IInv, TypeOK, ClientState
<1>2. f \in Frame /\ f.at = "read" /\ f.at \in Handlers
  BY <1>1, NewFrameOK DEF Handlers, NewFrame
<1>3. stack' = Append(stack, f) /\ client' = client /\ UNCHANGED <<accepted, topics>>
  BY DEF StartReading
<1> HIDE DEF f
<1>4. ~Idle => Follows(Top.at, f.at)
  BY <1>2 DEF Follows, At
<1>5. /\ NestedIn(stack') /\ Len(stack') = Len(stack) + 1 /\ stack' # <<>>
      /\ stack'[1] = IF Idle THEN f ELSE stack[1]
      /\ stack'[Len(stack) + 1] = f
      /\ \A i \in DOMAIN stack : stack'[i] = stack[i]
  BY <1>2, <1>3, <1>4, NestedPush DEF NestingInv
<1>6. Tame /\ QueueFresh'
  BY <1>3, QuietReflexive, QuietIsTame DEF NestingInv
<1>7. Len(stack) \in Nat /\ DOMAIN stack' = 1 .. Len(stack) + 1 /\ DOMAIN stack = 1 .. Len(stack)
  <2>1. DOMAIN stack' = DOMAIN stack \cup {Len(stack) + 1}
    BY <1>2, <1>3, Pushed DEF IInv
  <2>2. Len(stack) \in Nat /\ DOMAIN stack = 1 .. Len(stack)
    BY DEF IInv, TypeOK
  <2>3. QED
    BY <2>1, <2>2
<1>8. ~Idle => Len(stack) > 0
  BY StackOK DEF IInv
<1>9. ASSUME ~Idle, stack[1].at = "login"
      PROVE  Len(stack) = 1
  <2>1. Top.at \in Waits
    BY <1>9 DEF At
  <2>2. Len(stack) > 1 => Top.at \in {"read", "next"}
    BY <1>7, <1>9 DEF NestingInv, LoggingIn, Top
  <2>3. QED
    BY <1>7, <1>8, <1>9, <2>1, <2>2 DEF Waits, WaitsForResponse
<1>10. ~Idle' /\ stack'[1].at = "login" =>
         /\ client'.mExpectedResponse = client.mExpectedResponse
         /\ client'.mMessageQueue = client.mMessageQueue
         /\ \A i \in DOMAIN stack' : i > 1 => i = 2 /\ stack'[i].at \in {"read", "next"}
         /\ client'.sock # NoFd => client'.mConnected
  BY <1>2, <1>3, <1>5, <1>7, <1>9 DEF NestingInv, LoggingIn
<1>11. QED
  BY <1>2, <1>3, <1>5, <1>6, <1>7, <1>8, <1>10, Undisturbed

\* onConnectCallback() marks the wait at the bottom only when the broker accepts.
LEMMA ReadConnackNested ==
  ASSUME IInv, NestingInv, ReadConnack
  PROVE  NestingInv'
<1>1. ~Idle /\ Top.at = "read" /\ ~accepted /\ accepted' /\ UNCHANGED <<client, topics>>
  BY DEF ReadConnack, At
<1>2. /\ DOMAIN stack' = DOMAIN stack /\ Len(stack') = Len(stack)
      /\ \A i \in DOMAIN stack : stack'[i].at = stack[i].at
  BY OnConnectCallback DEF ReadConnack, IInv
<1>3. NestedIn(stack')
  BY <1>2, NestedSame DEF NestingInv
<1>4. 1 \in DOMAIN stack /\ Len(stack) \in Nat
  BY <1>1, StackOK DEF IInv
<1>5. stack[1].at = "connack" => Len(stack) > 1
  BY <1>1, AboveTheBottom DEF Handlers
<1>6. stack[1].at # "login"
  BY <1>1 DEF NestingInv, LoggingIn
<1>7. Tame /\ QueueFresh'
  BY <1>1, QuietReflexive, QuietIsTame DEF NestingInv
<1>8. QED
  BY <1>1, <1>2, <1>3, <1>4, <1>5, <1>6, <1>7, Undisturbed

\* A refused connection is closed.
LEMMA ReadRefusedNested ==
  ASSUME IInv, NestingInv, ReadRefused
  PROVE  NestingInv'
<1>1. ~Idle /\ Top.at = "read" /\ ~accepted /\ client' = lose(client)
      /\ UNCHANGED <<accepted, topics>>
  BY DEF ReadRefused, At
<1> PICK s \in onConnectCallback("refused") : stack' = SubSeq(s, 1, Len(stack) - 1)
  BY DEF ReadRefused
<1>2. /\ s \in Seq(Frame) /\ DOMAIN s = DOMAIN stack /\ Len(s) = Len(stack)
      /\ \A i \in DOMAIN stack : s[i].at = stack[i].at
  BY OnConnectCallback DEF IInv
<1>3. 1 \in DOMAIN stack /\ stack[1].at = "connack" => s[1] = stack[1] \/ s[1].error = "refused"
  <2> SUFFICES ASSUME 1 \in DOMAIN stack, stack[1].at = "connack"
               PROVE  s[1] = stack[1] \/ s[1].error = "refused"
    OBVIOUS
  <2>1. client.userData = "context"
    BY <1>1 DEF NestingInv, Connecting
  <2>2. s = [i \in DOMAIN stack |->
              IF /\ stack[i].at = "connack"
                 /\ \A j \in DOMAIN stack : j > i => stack[j].at # "connack"
              THEN [stack[i] EXCEPT !.done = TRUE, !.error = "refused"] ELSE stack[i]]
    BY <2>1 DEF onConnectCallback
  <2>3. s[1] = stack[1] \/ s[1] = [stack[1] EXCEPT !.done = TRUE, !.error = "refused"]
    BY <2>2
  <2>4. stack[1] \in Frame
    BY DEF IInv, TypeOK
  <2>5. QED
    BY <2>3, <2>4 DEF Frame
<1>4. Len(stack) \in Nat \ {0} /\ DOMAIN stack = 1 .. Len(stack)
  BY <1>1, StackOK DEF IInv
<1>5. /\ Len(stack') = Len(stack) - 1 /\ stack' \in Seq(Frame)
      /\ \A i \in 1 .. Len(stack) - 1 : stack'[i] = s[i]
  BY <1>2, <1>4, SubSeqProperties
<1>6. NestedIn(stack')
  <2>1. NestedIn(s)
    BY <1>2, NestedSame DEF NestingInv
  <2>2. DOMAIN stack' = 1 .. Len(stack) - 1
    BY <1>5
  <2>3. QED
    BY <1>2, <1>4, <1>5, <2>1, <2>2 DEF NestedIn
<1>7. ~Idle' => Len(stack) > 1 /\ stack'[1] = s[1]
  <2>1. ~Idle' => Len(stack') # 0
    BY <1>5, EmptySeq DEF Idle
  <2>2. QED
    BY <1>4, <1>5, <2>1
<1>8. stack[1].at # "login"
  BY <1>1 DEF NestingInv, LoggingIn
<1>9. /\ Tame /\ QueueFresh' /\ client'.sock = NoFd
  BY <1>1, LoseIsQuiet, QuietIsTame DEF NestingInv, IInv, ClientInv
<1>10. QED
  BY <1>1, <1>2, <1>3, <1>4, <1>6, <1>7, <1>8, <1>9, Undisturbed DEF Open

\* A message is taken as the response, or is queued for the session it is of.
LEMMA OnMessageNested ==
  ASSUME IInv, NestingInv, At({"read"}), NEW topic \in topics, NEW m \in Message,
         onMessage(topic, m), UNCHANGED <<accepted, topics>>
  PROVE  NestingInv'
<1>1. ~Idle /\ Top.at = "read" /\ Top.at \in Handlers
  BY DEF At, Handlers
<1>2. Len(stack) \in Nat \ {0} /\ DOMAIN stack = 1 .. Len(stack)
  BY <1>1, StackOK DEF IInv
<1>3. stack[1].at \in {"connack", "login"} => Len(stack) > 1
  BY <1>1, AboveTheBottom
<1>4. CASE /\ client.mExpectedResponse # 0
           /\ client' = client
           /\ stack' = [stack EXCEPT ![client.mExpectedResponse] = onExpectedResponse(@, m)]
  <2> DEFINE i == client.mExpectedResponse
             f == onExpectedResponse(stack[i], m)
  <2>1. i \in DOMAIN stack /\ stack[i] \in Frame /\ stack[i].at \in WaitsForResponse
    BY <1>4 DEF IInv, TypeOK, ClientInv, ExpectedResponseLive, Waiting
  <2>2. f \in Frame /\ f.at = stack[i].at
    BY <2>1, ResponseFrame
  <2>3. stack' = [stack EXCEPT ![i] = f]
    BY <1>4
  <2> HIDE DEF f
  <2>4. /\ DOMAIN stack' = DOMAIN stack /\ stack' \in Seq(Frame)
        /\ \A j \in DOMAIN stack : stack'[j] = IF j = i THEN f ELSE stack[j]
    BY <2>1, <2>2, <2>3, Replaced DEF IInv
  <2>5. \A j \in DOMAIN stack : stack'[j].at = stack[j].at
    BY <2>2, <2>4
  <2>6. NestedIn(stack') /\ Len(stack') = Len(stack)
    BY <1>2, <2>4, <2>5, NestedSame DEF NestingInv
  <2>7. stack[1].at = "connack" => stack'[1] = stack[1]
    BY <1>2, <2>1, <2>4 DEF WaitsForResponse
  <2>8. Tame /\ QueueFresh'
    BY <1>4, QuietReflexive, QuietIsTame DEF NestingInv
  <2>9. stack[1].at = "login" =>
          /\ client'.mExpectedResponse = client.mExpectedResponse
          /\ client'.mMessageQueue = client.mMessageQueue
          /\ \A j \in DOMAIN stack' : j > 1 => j = 2 /\ stack'[j].at \in {"read", "next"}
          /\ client'.sock # NoFd => client'.mConnected
    BY <1>1, <1>4, <2>4, <2>5 DEF NestingInv, LoggingIn
  <2>10. 1 \in DOMAIN stack
    BY <1>2
  <2>11. QED
    BY <1>1, <1>2, <1>3, <2>5, <2>6, <2>7, <2>8, <2>9, <2>10, Undisturbed
<1>5. CASE /\ client' = onGeneralMessage(client, m) /\ stack' = stack
           /\ ~(topic = "client" /\ client.mExpectedResponse # 0)
  <2>1. stack[1].at # "login"
    BY <1>1, <1>5 DEF NestingInv, LoggingIn
  <2>2. Idle' = Idle /\ NestedIn(stack')
    BY <1>5 DEF Idle, NestingInv
  <2>3. /\ Calm(client, client')
        /\ \/ Queues(client, client', m)
           \/ client' = client
           \/ client' = handleInvalidSession(client, TRUE)
        /\ client'.userData = client.userData
    BY <1>5, GeneralMessage DEF IInv, ClientInv
  <2>4. Tame
    BY <2>3 DEF Calm, Tame
  <2>5. QueueFresh'
    <3>1. CASE Queues(client, client', m)
      <4>1. QueuedFor(m).sess = client.mSessionInfo
        BY <3>1 DEF QueuedFor, Queues
      <4>2. client.mMessageQueue \in Seq(Queued)
        BY DEF IInv, TypeOK, ClientState
      <4>3. QueuedFor(m) \in Queued
        BY DEF QueuedFor, Message, Queued
      <4>4. \A j \in DOMAIN client'.mMessageQueue :
              \/ j \in DOMAIN client.mMessageQueue /\ client'.mMessageQueue[j] = client.mMessageQueue[j]
              \/ client'.mMessageQueue[j] = QueuedFor(m)
        BY <3>1, <4>2, <4>3 DEF Queues
      <4>5. QED
        BY <3>1, <4>1, <4>4 DEF Queues, NestingInv, QueueFresh
    <3>2. CASE client' = client
      BY <3>2 DEF NestingInv, QueueFresh
    <3>3. CASE client' = handleInvalidSession(client, TRUE)
      <4>1. Quiet(client, client')
        BY <3>3, InvalidSessionIsQuiet DEF IInv, ClientInv
      <4>2. QED
        BY <4>1, QuietIsTame DEF NestingInv
    <3>4. QED
      BY <2>3, <3>1, <3>2, <3>3
  <2>6. QED
    BY <1>1, <1>2, <1>3, <1>5, <2>1, <2>2, <2>4, <2>5, Undisturbed
<1>6. QED
  BY <1>4, <1>5 DEF onMessage

\* A message of the gateway is read.
LEMMA ReadMessageNested ==
  ASSUME IInv, NestingInv, ReadAnswer \/ ReadSessionEvent \/ ReadDeviceEvent
  PROVE  NestingInv'
<1>1. CASE ReadAnswer
  <2>1. PICK r \in owed : \E m \in AnswersTo(r) : onMessage("client", m)
    BY <1>1 DEF ReadAnswer
  <2>2. PICK m \in AnswersTo(r) : onMessage("client", m)
    BY <2>1
  <2>3. r \in OwedRequest
    BY DEF IInv, TypeOK
  <2>4. m \in Message
    BY <2>2, <2>3, AnswersAreMessages
  <2>5. QED
    BY <1>1, <2>2, <2>4, OnMessageNested DEF ReadAnswer
<1>2. CASE ReadSessionEvent
  <2>1. PICK kind \in {"expiring", "expired"} : onMessage("client", Event(kind))
    BY <1>2 DEF ReadSessionEvent
  <2>2. Event(kind) \in Message
    BY EventsAreMessages DEF IInv
  <2>3. QED
    BY <1>2, <2>1, <2>2, OnMessageNested DEF ReadSessionEvent
<1>3. CASE ReadDeviceEvent
  <2>1. Event("device") \in Message
    BY EventsAreMessages DEF IInv
  <2>2. Refusal \in Message
    BY MessageTypesOK DEF Refusal, Message, Kinds
  <2>3. QED
    BY <1>3, <2>1, <2>2, OnMessageNested DEF ReadDeviceEvent
<1>4. QED
  BY <1>1, <1>2, <1>3

\* handleSocketEvents() going on to dispatch.
LEMMA ReadEndsNested ==
  ASSUME IInv, NestingInv, ReadEnds
  PROVE  NestingInv'
<1>1. ~Idle /\ Top.at = "read" /\ At(Handlers) /\ "next" \in Handlers
  BY DEF ReadEnds, At, Handlers
<1>2. /\ NestedIn(stack') /\ Len(stack') = Len(stack)
      /\ stack'[1] = IF Len(stack) = 1 THEN [Top EXCEPT !.at = "next"] ELSE stack[1]
      /\ [Top EXCEPT !.at = "next"].at = "next"
      /\ stack'[Len(stack)].at = "next"
  BY <1>1, NestedMove DEF ReadEnds, NestingInv
<1>3. stack[1].at \in {"connack", "login"} => Len(stack) > 1 /\ (stack[1].at = "login" => Len(stack) = 2)
  BY <1>1, AboveTheBottom DEF At
<1>4. Tame /\ QueueFresh' /\ client' = client
  BY QuietReflexive, QuietIsTame DEF NestingInv, ReadEnds
<1>5. Len(stack) \in Nat /\ DOMAIN stack' = DOMAIN stack /\ DOMAIN stack = 1 .. Len(stack)
  <2>1. DOMAIN stack' = DOMAIN stack
    BY DEF ReadEnds, ReplaceTop
  <2>2. QED
    BY <2>1 DEF IInv, TypeOK
<1>6. stack'[1].at \in {"connack", "login"} => Len(stack) > 1 /\ stack'[1] = stack[1]
  BY <1>2, <1>3, <1>5
<1>7. stack'[1].at = "login" =>
         /\ client'.mExpectedResponse = client.mExpectedResponse
         /\ client'.mMessageQueue = client.mMessageQueue
         /\ \A i \in DOMAIN stack' : i > 1 => i = 2 /\ stack'[i].at \in {"read", "next"}
         /\ client'.sock # NoFd => client'.mConnected
  BY <1>1, <1>2, <1>3, <1>4, <1>5, <1>6 DEF NestingInv, LoggingIn
<1>8. QED
  BY <1>1, <1>2, <1>4, <1>6, <1>7, Undisturbed

\* The queue that is left after a failed read is of a session that is gone.
LEMMA ReadFailsNested ==
  ASSUME IInv, NestingInv, ReadFails
  PROVE  NestingInv'
<1>1. ~Idle /\ Top.at = "read" /\ stack' = Rest /\ client' = lose(client)
      /\ UNCHANGED <<accepted, topics>>
  BY DEF ReadFails, At
<1>2. Quiet(client, client') /\ client'.sock = NoFd
  BY <1>1, LoseIsQuiet DEF IInv, ClientInv
<1>3. Tame /\ QueueFresh'
  BY <1>1, <1>2, QuietIsTame DEF NestingInv
<1>4. client'.mExpectedResponse = client.mExpectedResponse
  BY <1>1, LoseKeeps DEF IInv, ClientInv, Kept
<1>5. client'.mMessageQueue = client.mMessageQueue
  BY <1>2 DEF Quiet
<1>6. QED
  BY <1>1, <1>2, <1>3, <1>4, <1>5, PopUndisturbed DEF Handlers, Open

\* Dispatching takes the first message, and a login that waits has none.
LEMMA DispatchNextNested ==
  ASSUME IInv, NestingInv, DispatchNext
  PROVE  NestingInv'
<1>1. ~Idle /\ Top.at = "next" /\ At(Handlers) /\ {"expiring", "subscriber"} \subseteq Handlers
      /\ Top.at \in Handlers
  BY DEF DispatchNext, At, Handlers, Callbacks
<1>2. client.mMessageQueue # <<>> /\ UNCHANGED <<accepted, topics>>
  BY DEF DispatchNext
<1>3. stack[1].at # "login"
  BY <1>1, <1>2 DEF NestingInv, LoggingIn
<1>4. stack[1].at = "connack" => Len(stack) > 1
  BY <1>1, AboveTheBottom
<1>5. Len(stack) \in Nat \ {0}
  BY <1>1, StackOK DEF IInv
<1>6. Calm(client, Popped) /\ Popped.userData = client.userData /\ Good(Popped)
      /\ Popped.mSessionInfo = client.mSessionInfo
      /\ Popped.mMessageQueue = Tail(client.mMessageQueue)
  BY PoppedIsCalm, PoppedKeeps DEF IInv, TypeOK, DispatchNext, Kept
<1>7. \A i \in DOMAIN Popped.mMessageQueue : client.mSessionInfo # 0 =>
        Popped.mMessageQueue[i].sess = client.mSessionInfo
  <2> DEFINE q == client.mMessageQueue
  <2>1. q \in Seq(Queued) /\ q # <<>>
    BY <1>2 DEF IInv, TypeOK, ClientState
  <2>2. \A i \in DOMAIN q : client.mSessionInfo # 0 => q[i].sess = client.mSessionInfo
    BY DEF NestingInv, QueueFresh
  <2> HIDE DEF q
  <2>3. \A i \in DOMAIN Tail(q) : i + 1 \in DOMAIN q /\ Tail(q)[i] = q[i + 1]
    <3>1. Len(q) \in Nat \ {0} /\ DOMAIN q = 1 .. Len(q)
      BY <2>1, EmptySeq
    <3>2. /\ Tail(q) \in Seq(Queued) /\ Len(Tail(q)) = Len(q) - 1
          /\ \A i \in 1 .. Len(Tail(q)) : Tail(q)[i] = q[i + 1]
      BY <2>1, HeadTailProperties
    <3>3. QED
      BY <3>1, <3>2
  <2>4. QED
    BY <1>6, <2>2, <2>3 DEF q
<1>8. CASE client' = Popped /\ \E at \in {"expiring", "subscriber"} : ReplaceTop([Top EXCEPT !.at = at])
  <2>1. PICK at \in {"expiring", "subscriber"} : ReplaceTop([Top EXCEPT !.at = at])
    BY <1>8
  <2>2. /\ NestedIn(stack') /\ Len(stack') = Len(stack)
        /\ stack'[1] = IF Len(stack) = 1 THEN [Top EXCEPT !.at = at] ELSE stack[1]
        /\ [Top EXCEPT !.at = at].at = at
    BY <1>1, <2>1, NestedMove DEF NestingInv
  <2>3. Tame
    BY <1>2, <1>6, <1>8 DEF Tame, Calm
  <2>4. QueueFresh'
    BY <1>6, <1>7, <1>8 DEF QueueFresh
  <2>5. stack'[1].at \in {"connack", "login"} => Len(stack) > 1 /\ stack'[1] = stack[1]
    BY <1>4, <1>5, <2>2
  <2>6. QED
    BY <1>1, <1>3, <1>5, <2>2, <2>3, <2>4, <2>5, Undisturbed
<1>9. CASE client' = handleInvalidSession(Popped, FALSE) /\ stack' = stack
  <2>1. Quiet(Popped, client')
    BY <1>6, <1>9, InvalidSessionIsQuiet
  <2>2. Tame
    BY <1>2, <1>6, <2>1 DEF Tame, Calm, Quiet
  <2>3. QueueFresh'
    BY <1>6, <1>7, <2>1 DEF Quiet, Calm, QueueFresh
  <2>4. NestedIn(stack') /\ (Idle' <=> Idle)
    BY <1>9 DEF NestingInv, Idle
  <2>5. ~Idle' /\ stack'[1].at \in {"connack", "login"} =>
          ~Idle /\ stack'[1] = stack[1] /\ stack'[1].at # "login" /\ Len(stack') # 1
    BY <1>1, <1>3, <1>4, <1>5, <1>9, <2>4, BottomStays
  <2>6. QED
    BY <2>2, <2>3, <2>4, <2>5, Undisturbed
<1>10. QED
  BY <1>8, <1>9 DEF DispatchNext

\* A callback returns.
LEMMA CallbackReturnsNested ==
  ASSUME IInv, NestingInv, CallbackReturns
  PROVE  NestingInv'
<1>1. ~Idle /\ Top.at \in Callbacks /\ At(Handlers) /\ "next" \in Handlers /\ Top.at \in Handlers
  BY DEF CallbackReturns, At, Handlers
<1>2. UNCHANGED <<client, accepted, topics>>
  BY DEF CallbackReturns
<1>3. stack[1].at # "login" /\ (stack[1].at = "connack" => Len(stack) > 1)
  BY <1>1, AboveTheBottom DEF Callbacks
<1>4. /\ NestedIn(stack') /\ Len(stack') = Len(stack)
      /\ stack'[1] = IF Len(stack) = 1 THEN [Top EXCEPT !.at = "next"] ELSE stack[1]
      /\ [Top EXCEPT !.at = "next"].at = "next"
  BY <1>1, NestedMove DEF CallbackReturns, NestingInv
<1>5. Tame /\ QueueFresh'
  BY <1>2, QuietReflexive, QuietIsTame DEF NestingInv
<1>6. Len(stack) \in Nat \ {0}
  BY <1>1, StackOK DEF IInv
<1>7. stack'[1].at \in {"connack", "login"} =>
        Len(stack') > 1 /\ stack'[1] = stack[1] /\ stack'[1].at # "login"
  BY <1>3, <1>4, <1>6
<1>8. QED
  BY <1>1, <1>4, <1>5, <1>6, <1>7, Undisturbed

\* A handler ends when the queue is empty.
LEMMA HandlerEndsNested ==
  ASSUME IInv, NestingInv, HandlerEnds
  PROVE  NestingInv'
<1>1. ~Idle /\ Top.at = "next" /\ Top.at \in Handlers /\ stack' = Rest
      /\ client.mMessageQueue = <<>> /\ UNCHANGED <<accepted, topics>>
  BY DEF HandlerEnds, At, Handlers
<1>2. CASE client' = client
  <2>1. Tame /\ QueueFresh'
    BY <1>1, <1>2, QuietReflexive, QuietIsTame DEF NestingInv
  <2>2. QED
    BY <1>1, <1>2, <2>1, PopUndisturbed
<1>3. CASE client' = lose(client)
  <2>1. Quiet(client, client') /\ client'.sock = NoFd
    BY <1>3, LoseIsQuiet DEF IInv, ClientInv
  <2>2. Tame /\ QueueFresh' /\ client'.mMessageQueue = client.mMessageQueue
    BY <1>1, <2>1, QuietIsTame DEF NestingInv, Quiet
  <2>3. client'.mExpectedResponse = client.mExpectedResponse
    BY <1>3, LoseKeeps DEF IInv, ClientInv, Kept
  <2>4. QED
    BY <1>1, <2>1, <2>2, <2>3, PopUndisturbed
<1>4. QED
  BY <1>2, <1>3 DEF HandlerEnds

\* sendRequest() returns.
LEMMA RequestEndsNested ==
  ASSUME IInv, NestingInv, RequestEnds
  PROVE  NestingInv'
<1> DEFINE a == answered(client)
<1>1. ~Idle /\ Top.at = "response" /\ stack' = Rest /\ UNCHANGED <<accepted, topics>>
  BY DEF RequestEnds, At
<1>2. /\ Good(a) /\ Calm(client, a) /\ PendingKept(client, a)
      /\ a.mMessageQueue = client.mMessageQueue /\ a.userData = client.userData
  BY AnsweredIsGood, AnsweredIsCalm DEF IInv, ClientInv, TypeOK
<1>3. client' = handleInvalidSession(a, FALSE) \/ client' = a
  BY DEF RequestEnds
<1> HIDE DEF a
<1>4. Quiet(client, client')
  BY <1>2, <1>3, InvalidSessionIsQuiet, QuietTransitive DEF Quiet
<1>5. Tame /\ QueueFresh'
  BY <1>1, <1>4, QuietIsTame DEF NestingInv
<1>6. QED
  BY <1>1, <1>5, PopUndisturbed

\* handleMisc() is called by the loop.
LEMMA FireMiscNested ==
  ASSUME IInv, NestingInv, FireMisc
  PROVE  NestingInv'
<1>1. Idle /\ stack' = stack /\ UNCHANGED <<accepted, topics>>
  BY DEF FireMisc
<1>2. PICK t \in TimerIds :
        \/ client' = stopTimer(client, t)
        \/ client' = lose(stopTimer(client, t))
        \/ client' = scheduleMisc(stopTimer(client, t))
  BY DEF FireMisc
<1> DEFINE c == stopTimer(client, t)
<1>3. Good(c) /\ SameElse(client, c)
  BY StopKeeps, StopTimer DEF IInv, ClientInv, Kept, TypeOK
<1> HIDE DEF c
<1>4. Tame /\ QueueFresh'
  <2>1. CASE client' = c
    BY <1>1, <1>3, <2>1 DEF Tame, SameElse, NestingInv, QueueFresh
  <2>2. CASE client' = lose(c)
    <3>1. Quiet(c, client')
      BY <1>3, <2>2, LoseIsQuiet
    <3>2. QED
      BY <1>1, <1>3, <3>1 DEF Tame, SameElse, Quiet, Calm, NestingInv, QueueFresh
  <2>3. CASE client' = scheduleMisc(c)
    <3>1. SameElse(c, client')
      BY <1>3, <2>3, ScheduleMisc DEF Good
    <3>2. QED
      BY <1>1, <1>3, <3>1 DEF Tame, SameElse, NestingInv, QueueFresh
  <2>4. QED
    BY <1>2, <2>1, <2>2, <2>3 DEF c
<1>5. QED
  BY <1>1, <1>4, IdleUndisturbed

\* connect() gives up, or returns to the application or to reconnect().
LEMMA ConnackMissingNested ==
  ASSUME IInv, NestingInv, ConnackMissing
  PROVE  NestingInv'
<1>1. ~Idle /\ Top.at = "connack" /\ stack' = Rest /\ UNCHANGED <<accepted, topics>>
  BY DEF ConnackMissing, At
<1>2. stack' = <<>> /\ NestedIn(stack') /\ Idle' /\ stack[1] = Top
  BY <1>1, ConnectPops
<1> DEFINE c == forgetContext(client)
<1>3. Calm(client, c) /\ c.mMessageQueue = client.mMessageQueue
      /\ c.userData = "dangling" /\ c.mSessionInfo = client.mSessionInfo
  <2>1. client.userData = "context"
    BY <1>1, <1>2 DEF NestingInv, Connecting
  <2>2. c.userData = "dangling"
    BY <2>1 DEF forgetContext, IInv, TypeOK, ClientState
  <2>3. QED
    BY <2>2, UserDataIsCalm DEF IInv, TypeOK
<1>4. Leaving = client /\ Kept(Leaving, c)
  BY <1>1, UserDataKeeps DEF Leaving, WaitsForResponse, IInv, ClientInv
<1>5. ConnectReturns(c, Top.auto, FALSE)
  BY DEF ConnackMissing
<1> HIDE DEF c
<1>6. SameConnection(c, client')
  BY <1>1, <1>4, <1>5, AutoReturns, ReconnectReturnsCalm DEF ConnectReturns, SameConnection
<1>7. topics = {}
  BY <1>1, <1>2 DEF NestingInv, Connecting
<1>8. QueueFresh'
  BY <1>3, <1>6 DEF SameConnection, NestingInv, QueueFresh
<1>9. Connecting' /\ LoggingIn'
  BY <1>2 DEF Connecting, LoggingIn
<1>10. SelfAccepted' /\ MessageFindsClient'
  BY <1>1, <1>3, <1>6, <1>7 DEF SameConnection, SelfAccepted, MessageFindsClient
<1>11. QED
  BY <1>2, <1>8, <1>9, <1>10 DEF NestingInv

\* The CONNACK came, and connect() logs in, or gives up on a connection that is gone.
LEMMA ConnackArrivedNested ==
  ASSUME IInv, NestingInv, ConnackArrived
  PROVE  NestingInv'
<1>1. ~Idle /\ Top.at = "connack" /\ Top.done /\ Top.error = "none" /\ accepted' = accepted
  BY DEF ConnackArrived, At
<1>2. Len(stack) = 1 /\ stack[1] = Top
  BY <1>1, ConnectsAtTheBottom DEF NestingInv
<1>3. /\ accepted /\ topics = {}
      /\ Open(client) => client.mMessageQueue = <<>>
  BY <1>1, <1>2 DEF NestingInv, Connecting
<1> DEFINE c == useSelf(client)
<1>4. /\ Calm(client, c) /\ c.mMessageQueue = client.mMessageQueue /\ c.userData = "self"
      /\ c.mSessionInfo = client.mSessionInfo
      /\ c.sock = client.sock /\ c.mConnected = client.mConnected
      /\ c \in ClientState /\ Kept(client, c)
  BY UserDataIsCalm, UserDataKeeps DEF IInv, ClientInv, TypeOK, Kept, Good
<1>5. CASE stack' = Rest /\ ConnectReturns(abandon(c), Top.auto, FALSE) /\ topics' = topics
  <2>1. stack' = <<>> /\ NestedIn(stack') /\ Idle'
    BY <1>1, <1>5, ConnectPops
  <2>2. Leaving = client /\ Kept(Leaving, abandon(c))
    BY <1>1, <1>4, AbandonKeeps, KeptTransitive DEF Leaving, WaitsForResponse, Kept
  <2>3. Quiet(c, abandon(c)) /\ ~abandon(c).mConnected
    BY <1>4, AbandonIsQuiet
  <2> DEFINE d == abandon(c)
  <2>4. ConnectReturns(d, Top.auto, FALSE)
    BY <1>5
  <2> HIDE DEF c, d
  <2>5. SameConnection(d, client')
    BY <1>1, <2>2, <2>4, AutoReturns, ReconnectReturnsCalm DEF ConnectReturns, SameConnection, d
  <2>6. ~client'.mConnected /\ QueueFresh'
    BY <1>4, <2>3, <2>5 DEF SameConnection, Quiet, Calm, NestingInv, QueueFresh, d
  <2>7. QED
    BY <2>1, <2>6 DEF NestingInv, Connecting, LoggingIn, SelfAccepted, MessageFindsClient, Open
<1>6. CASE /\ c.sock # NoFd /\ c.mConnected
           /\ topics' = topics \cup {"client"}
           /\ client' = expect(c, Len(stack))
           /\ ReplaceTop([NewFrame("login", c.sock) EXCEPT !.auto = Top.auto,
                                                           !.type = "login",
                                                           !.req  = Top.req])
  <2> DEFINE f == [NewFrame("login", c.sock) EXCEPT !.auto = Top.auto,
                                                    !.type = "login",
                                                    !.req  = Top.req]
  <2>1. f.at = "login"
    BY DEF NewFrame
  <2>2. stack' = [stack EXCEPT ![1] = f]
    BY <1>2, <1>6 DEF ReplaceTop
  <2> HIDE DEF f, c
  <2>3. 1 \in DOMAIN stack /\ DOMAIN stack = {1}
    BY <1>1, <1>2, StackOK DEF IInv
  <2>4. DOMAIN stack' = {1} /\ stack'[1].at = "login"
    BY <2>1, <2>2, <2>3
  <2>5. NestedIn(stack') /\ Connecting'
    BY <2>4 DEF NestedIn, Connecting
  <2>6. /\ client'.mExpectedResponse = 1 /\ client'.mMessageQueue = c.mMessageQueue
        /\ client'.userData = "self" /\ client'.mSessionInfo = c.mSessionInfo
        /\ client'.sock = c.sock /\ client'.mConnected = c.mConnected
    BY <1>2, <1>4, <1>6 DEF expect, ClientState
  <2>7. client.mMessageQueue = <<>>
    BY <1>3, <1>4, <1>6 DEF Open
  <2>8. LoggingIn'
    BY <1>1, <1>3, <1>4, <1>6, <2>4, <2>6, <2>7 DEF LoggingIn
  <2>9. SelfAccepted' /\ MessageFindsClient' /\ QueueFresh'
    BY <1>1, <1>3, <1>4, <2>6, <2>7 DEF SelfAccepted, MessageFindsClient, QueueFresh
  <2>10. QED
    BY <2>5, <2>8, <2>9 DEF NestingInv
<1>7. QED
  BY <1>5, <1>6 DEF ConnackArrived

\* connect() gives up after a login without a session.
LEMMA LoginFailsNested ==
  ASSUME IInv, NestingInv, LoginFails
  PROVE  NestingInv'
<1>1. ~Idle /\ Top.at = "login" /\ stack' = Rest /\ UNCHANGED <<accepted, topics>>
  BY DEF LoginFails, At
<1>2. stack' = <<>> /\ NestedIn(stack') /\ Idle' /\ stack[1] = Top
  BY <1>1, ConnectPops
<1> DEFINE a == answered(client)
           c == IF Top.error = "invalidSession" THEN handleInvalidSession(a, FALSE) ELSE a
           d == abandon(c)
<1>3. Leaving = a /\ Good(a) /\ Kept(a, a)
  BY <1>1, AnsweredIsGood DEF Leaving, WaitsForResponse, IInv, ClientInv, Kept
<1>4. Quiet(client, a)
  BY AnsweredIsCalm DEF Quiet, IInv, TypeOK
<1>5. ConnectReturns(d, Top.auto, FALSE)
  BY DEF LoginFails
<1> HIDE DEF a
<1>6. Kept(a, c) /\ Quiet(client, c)
  <2>1. Kept(a, handleInvalidSession(a, FALSE)) /\ Quiet(a, handleInvalidSession(a, FALSE))
    BY <1>3, HandleInvalidSessionKeeps, InvalidSessionIsQuiet
  <2>2. QED
    BY <1>3, <1>4, <2>1, QuietTransitive
<1> HIDE DEF c
<1>7. Kept(Leaving, d) /\ Quiet(client, d) /\ ~d.mConnected
  <2>1. Kept(c, d) /\ Quiet(c, d) /\ ~d.mConnected
    BY <1>6, AbandonKeeps, AbandonIsQuiet DEF Kept, Good
  <2>2. QED
    BY <1>3, <1>6, <2>1, QuietTransitive, KeptTransitive
<1> HIDE DEF d
<1>8. SameConnection(d, client')
  BY <1>1, <1>5, <1>7, AutoReturns, ReconnectReturnsCalm DEF ConnectReturns, SameConnection
<1>9. ~client'.mConnected /\ QueueFresh'
  BY <1>7, <1>8 DEF SameConnection, Quiet, Calm, NestingInv, QueueFresh
<1>10. QED
  BY <1>2, <1>9 DEF NestingInv, Connecting, LoggingIn, SelfAccepted, MessageFindsClient, Open

\* The new session starts with an empty queue, on a connection that finds the client.
LEMMA LoginSucceedsNested ==
  ASSUME IInv, NestingInv, LoginSucceeds
  PROVE  NestingInv'
<1>1. ~Idle /\ Top.at = "login" /\ stack' = Rest /\ accepted' = accepted
  BY DEF LoginSucceeds, At
<1>2. stack' = <<>> /\ NestedIn(stack') /\ Idle' /\ stack[1] = Top
  BY <1>1, ConnectPops
<1>3. client.userData = "self" /\ accepted /\ client.mMessageQueue = <<>>
  BY <1>1, <1>2 DEF NestingInv, LoggingIn
<1> DEFINE a == answered(client)
           c == [a EXCEPT !.mSessionInfo = Top.got]
<1>4. /\ Leaving = a /\ Good(a)
      /\ a.userData = client.userData /\ a.mMessageQueue = client.mMessageQueue
  BY <1>1, AnsweredIsGood, AnsweredIsCalm DEF Leaving, WaitsForResponse, IInv, ClientInv, TypeOK
<1>5. \/ ConnectReturns(abandon(c), Top.auto, FALSE)
      \/ ConnectReturns(scheduleMisc(c), Top.auto, TRUE)
  BY DEF LoginSucceeds
<1> HIDE DEF a
<1>6. Top.got \in Sessions
  BY <1>1, RestOK DEF IInv, Frame
<1>7. /\ c \in ClientState /\ SameTimers(a, c)
      /\ c.userData = a.userData /\ c.mMessageQueue = a.mMessageQueue
  BY <1>4, <1>6 DEF Good, ClientState, SameTimers
<1>8. Kept(a, c)
  BY <1>4, <1>7, SameTimersKeep
<1> HIDE DEF c
<1>9. ASSUME NEW d, Kept(c, d), NEW ok \in BOOLEAN, ConnectReturns(d, Top.auto, ok),
             d.userData = c.userData, d.mMessageQueue = c.mMessageQueue
      PROVE  client'.userData = "self" /\ client'.mMessageQueue = <<>>
  <2>1. Kept(Leaving, d)
    BY <1>4, <1>8, <1>9, KeptTransitive
  <2>2. SameConnection(d, client')
    BY <1>1, <1>9, <2>1, AutoReturns, ReconnectReturnsCalm DEF ConnectReturns, SameConnection
  <2>3. QED
    BY <1>3, <1>4, <1>7, <1>9, <2>2 DEF SameConnection
<1>10. client'.userData = "self" /\ client'.mMessageQueue = <<>>
  <2>1. CASE ConnectReturns(abandon(c), Top.auto, FALSE)
    <3>1. Kept(c, abandon(c)) /\ Quiet(c, abandon(c))
      BY <1>7, <1>8, AbandonKeeps, AbandonIsQuiet DEF Kept
    <3>2. QED
      BY <1>9, <2>1, <3>1 DEF Quiet
  <2>2. CASE ConnectReturns(scheduleMisc(c), Top.auto, TRUE)
    <3>1. Kept(c, scheduleMisc(c)) /\ SameElse(c, scheduleMisc(c))
      BY <1>7, <1>8, ScheduleMiscKeeps, ScheduleMisc DEF Kept
    <3>2. QED
      BY <1>9, <2>2, <3>1 DEF SameElse
  <2>3. QED
    BY <1>5, <2>1, <2>2
<1>11. SelfAccepted' /\ MessageFindsClient' /\ QueueFresh'
  BY <1>1, <1>3, <1>10 DEF SelfAccepted, MessageFindsClient, QueueFresh
<1>12. QED
  BY <1>2, <1>11 DEF NestingInv, Connecting, LoggingIn

\* Every step keeps the invariant.
LEMMA NextNestingInv ==
  ASSUME CallbacksDoNotConnect, IInv, NestingInv, [Next]_vars
  PROVE  NestingInv'
<1>1. CASE UNCHANGED vars
  BY <1>1, NothingNested DEF vars
<1>2. CASE Application
  <2>1. Send => UNCHANGED <<client, stack, accepted, topics>>
    BY DEF Send
  <2>2. QED
    BY <1>2, <2>1, ConnectNested, DisconnectNested, NothingNested, SendRequestNested
       DEF Application
<1>3. CASE WaitEnds
  BY <1>3, ConnackMissingNested, ConnackArrivedNested, LoginFailsNested, LoginSucceedsNested,
     RequestEndsNested DEF WaitEnds
<1>4. CASE WaitReads \/ LoopReads
  BY <1>4, StartReadingNested DEF WaitReads, LoopReads
<1>5. CASE Reads
  BY <1>5, ReadConnackNested, ReadRefusedNested, ReadMessageNested, ReadEndsNested,
     ReadFailsNested DEF Reads
<1>6. CASE DispatchNext \/ CallbackReturns \/ HandlerEnds
  BY <1>6, DispatchNextNested, CallbackReturnsNested, HandlerEndsNested
<1>7. CASE Timers
  BY <1>7, FireReconnectNested, FireMiscNested DEF Timers
<1>8. CASE SessionLapses
  <2>1. UNCHANGED <<client, stack, accepted, topics>>
    BY <1>8 DEF SessionLapses
  <2>2. QED
    BY <2>1, NothingNested
<1>9. QED
  BY <1>1, <1>2, <1>3, <1>4, <1>5, <1>6, <1>7, <1>8 DEF Next

\* It holds of a client that was just built.
LEMMA InitNestingInv == ASSUME Init PROVE NestingInv
<1>1. Idle /\ DOMAIN stack = {} /\ client.mSessionInfo = 0 /\ ~client.mConnected
  BY DEF Init, Idle
<1>2. QED
  BY <1>1 DEF NestingInv, NestedIn, Connecting, LoggingIn, SelfAccepted, MessageFindsClient,
              QueueFresh, Open

\* The waits of an application whose callbacks do not connect nest as NestedIn says, and
\* connect() is alone at the bottom of them.
THEOREM NestingInvariance ==
  ASSUME CallbacksDoNotConnect
  PROVE  Spec => [](IInv /\ NestingInv)
<1>1. Init => IInv /\ NestingInv
  BY InitIInv, InitNestingInv
<1>2. (IInv /\ NestingInv) /\ [Next]_vars => (IInv /\ NestingInv)'
  BY NextIInv, NextNestingInv
<1>3. QED
  BY <1>1, <1>2, PTL DEF Spec

\* onMessageCallback() finds the client in the user data of the connection.
THEOREM MessagesFindTheClient ==
  ASSUME CallbacksDoNotConnect
  PROVE  Spec => []MessageFindsClient
<1>1. NestingInv => MessageFindsClient
  BY DEF NestingInv
<1>2. QED
  BY <1>1, NestingInvariance, PTL

\* connect() waits at the bottom of the stack only.
LEMMA ConnectsOnlyAtTheBottom ==
  ASSUME IInv, NestingInv, NEW i \in DOMAIN stack, stack[i].at \in {"connack", "login"}
  PROVE  i = 1 /\ ~Idle
<1>1. Len(stack) \in Nat /\ DOMAIN stack = 1 .. Len(stack) /\ (Idle <=> Len(stack) = 0)
  BY StackOK DEF IInv
<1>2. ASSUME i > 1 PROVE FALSE
  <2>1. Follows(stack[i - 1].at, stack[i].at)
    BY <1>2 DEF NestingInv, NestedIn
  <2>2. QED
    BY <2>1 DEF Follows, Handlers, Callbacks
<1>3. QED
  BY <1>1, <1>2

\* The connect() that waits goes on only when its own connection was accepted, though a
\* late CONNACK of an earlier one may have written through a dangling pointer before; and
\* no CONNACK finds the client itself in the user data.
THEOREM ConnacksReachTheirConnect ==
  ASSUME CallbacksDoNotConnect
  PROVE  Spec => []ConnackReachesItsConnect
<1>1. IInv /\ NestingInv => ConnackReachesItsConnect
  <2> SUFFICES ASSUME IInv, NestingInv PROVE ConnackReachesItsConnect
    OBVIOUS
  <2>1. ASSUME NEW i \in DOMAIN stack, stack[i].at = "connack"
        PROVE  /\ client.userData = "context"
               /\ stack[i].done => accepted \/ stack[i].error # "none"
    <3>1. i = 1 /\ ~Idle
      BY <2>1, ConnectsOnlyAtTheBottom
    <3>2. QED
      BY <2>1, <3>1 DEF NestingInv, Connecting
  <2>2. Open(client) /\ ~accepted => client.userData # "self"
    BY DEF NestingInv, SelfAccepted
  <2>3. QED
    BY <2>1, <2>2 DEF ConnackReachesItsConnect, Open
<1>2. QED
  BY <1>1, NestingInvariance, PTL

\* No message of an earlier session is dispatched under a later one.
THEOREM QueueIsOfTheSession ==
  ASSUME CallbacksDoNotConnect
  PROVE  Spec => []QueueFresh
<1>1. NestingInv => QueueFresh
  BY DEF NestingInv
<1>2. QED
  BY <1>1, NestingInvariance, PTL

(***************************************************************************)
(* The background reconnect.  A client that is reconnecting has the next   *)
(* attempt scheduled or is in one, unless the application connected        *)
(* meanwhile; and only disconnect() takes this from it.                    *)
(***************************************************************************)

Connects == ~Idle /\ stack[1].at \in {"connack", "login"}

\* The client has a session, or the flag of one.
HasSession(c) == c.mConnected /\ c.mSessionInfo # 0

\* A connect() of the application that fails leaves the reconnect scheduled, one of
\* reconnect() schedules it when it returns.
Scheduled ==
  client.mReconnecting =>
    \/ Pending(client)
    \/ IF Connects THEN stack[1].auto ELSE HasSession(client)

\* What a function of the client may do to the reconnect: schedule it, or nothing.
Steady(c, d) ==
  \/ Pending(d)
  \/ /\ d.mReconnecting => c.mReconnecting
     /\ HasSession(c) => HasSession(d)
     /\ Pending(c) => Pending(d)

\* A function that returns early.
LEMMA StayIsSteady == ASSUME NEW c PROVE Steady(c, c)
BY DEF Steady

\* Losing the connection or the session.
LEMMA ReconnectsIsSteady ==
  ASSUME RoomForTwo, NEW c, NEW d, Reconnects(c, d)
  PROVE  Steady(c, d)
BY DEF Reconnects, Steady, Pending, HasSession

\* Functions that leave the timers and the connection alone.
LEMMA SameReconnectIsSteady ==
  ASSUME NEW c, NEW d, d.mReconnecting = c.mReconnecting, d.mConnected = c.mConnected,
         d.mSessionInfo = c.mSessionInfo, d.timers = c.timers
  PROVE  Steady(c, d)
BY DEF Steady, Pending, HasSession

\* The functions compose as the calls do.
LEMMA SteadyTransitive ==
  ASSUME NEW c, NEW d, NEW e, Steady(c, d), Steady(d, e)
  PROVE  Steady(c, e)
BY DEF Steady

\* A step in which no connect() begins or returns.
LEMMA SteadyStep ==
  ASSUME IInv, IInv', Scheduled, Steady(client, client'), FramesKept(stack'), Connects => ~Idle'
  PROVE  Scheduled'
<1>1. ~Idle' => 1 \in DOMAIN stack'
  BY EmptySeq DEF IInv, TypeOK, Idle
<1>2. Idle => 1 \notin DOMAIN stack
  BY DEF Idle
<1>3. Connects' => Connects
  BY <1>1, <1>2 DEF Connects, FramesKept, SameFrame, Waits, WaitsForResponse
<1>4. Connects => Connects' /\ stack'[1].auto = stack[1].auto
  <2> SUFFICES ASSUME Connects PROVE Connects' /\ stack'[1].auto = stack[1].auto
    OBVIOUS
  <2>1. ~Idle /\ ~Idle' /\ stack[1].at \in {"connack", "login"}
    BY DEF Connects
  <2>2. CASE 1 \in DOMAIN stack
    <3>1. SameFrame(stack[1], stack'[1]) /\ stack[1].at \in Waits
      BY <1>1, <2>1, <2>2 DEF FramesKept, Waits, WaitsForResponse
    <3>2. QED
      BY <2>1, <3>1 DEF SameFrame, Connects
  <2>3. CASE 1 \notin DOMAIN stack
    BY <2>1, <2>3, StackOK DEF IInv
  <2>4. QED
    BY <2>2, <2>3
<1>5. QED
  BY <1>3, <1>4 DEF Scheduled, Steady

\* A handler or a wait for a response ends, above every connect().
LEMMA PopSteady ==
  ASSUME IInv, IInv', NestingInv, Scheduled, ~Idle, Top.at \in Handlers \cup {"response"},
         Steady(client, client'), FramesKept(stack'), Len(stack') = Len(stack) - 1
  PROVE  Scheduled'
<1>1. Connects => Len(stack) > 1
  BY AboveTheBottom DEF Connects
<1>2. Len(stack) \in Nat
  BY DEF IInv, TypeOK
<1>3. Idle' => Len(stack') = 0
  BY DEF Idle
<1>4. ASSUME Connects PROVE ~Idle'
  <2>1. Len(stack) > 1
    BY <1>1, <1>4
  <2>2. Len(stack) - 1 # 0
    BY <1>2, <2>1
  <2>3. QED
    BY <1>3, <2>2
<1>5. QED
  BY <1>4, SteadyStep

\* A step that changes frames, but not their number.
LEMMA SameLengthSteady ==
  ASSUME IInv, IInv', Scheduled, Steady(client, client'), FramesKept(stack'),
         DOMAIN stack' = DOMAIN stack
  PROVE  Scheduled'
<1>1. ~Idle => 1 \in DOMAIN stack
  BY StackOK DEF IInv
<1>2. Connects => ~Idle'
  BY <1>1 DEF Connects, Idle
<1>3. QED
  BY <1>2, SteadyStep

\* Nothing happens to the client, nor to the stack.
LEMMA NothingScheduled ==
  ASSUME Scheduled, UNCHANGED <<client, stack>>
  PROVE  Scheduled'
BY DEF Scheduled, Connects, Idle, Pending, HasSession

\* connect() of the application: unless it is connected, an attempt is scheduled.
LEMMA ConnectScheduled ==
  ASSUME CallbacksDoNotConnect, IInv, IInv', Scheduled, Connect
  PROVE  Scheduled'
<1>1. Idle /\ ~Connects
  BY DEF Connect, MayCall, CallbacksDoNotConnect, Connects
<1>2. CASE client' = client /\ stack' = stack
  BY <1>2, NothingScheduled
<1>3. CASE client' = mosquittoClose(client) /\ stack' = stack
  <2>1. Steady(client, client')
    <3>1. /\ client'.mReconnecting = client.mReconnecting
          /\ client'.mConnected = client.mConnected /\ client'.timers = client.timers
          /\ client'.mSessionInfo = client.mSessionInfo
      BY <1>3 DEF mosquittoClose, IInv, TypeOK, ClientState
    <3>2. QED
      BY <3>1, SameReconnectIsSteady
  <2>2. QED
    BY <1>3, <2>1, SameFrames, SameLengthSteady
<1>4. CASE ~client.mConnected /\ \E fd \in Fds : client' = open(client, fd)
  <2>1. client'.mReconnecting = client.mReconnecting /\ client'.timers = client.timers
    BY <1>4 DEF open, IInv, TypeOK, ClientState
  <2>2. QED
    BY <1>1, <1>4, <2>1 DEF Scheduled, Pending, HasSession
<1>5. QED
  BY <1>2, <1>3, <1>4 DEF Connect, connect, ConnectReturns

\* reconnect() has fired: it is in its connect(), or schedules the next attempt.
LEMMA FireReconnectScheduled ==
  ASSUME RoomForTwo, IInv, IInv', FireReconnect
  PROVE  Scheduled'
<1>1. PICK t \in TimerIds :
        /\ client.timers[t] = "reconnect"
        /\ IF client.mReconnecting THEN connect(stopTimer(client, t), TRUE)
           ELSE /\ client' = stopTimer(client, t)
                /\ result' = Nothing
                /\ UNCHANGED <<accepted, topics, nextReq, stack>>
  BY DEF FireReconnect
<1> DEFINE c == stopTimer(client, t)
<1>2. Good(c) /\ SameElse(client, c)
  BY StopKeeps, StopTimer DEF IInv, ClientInv, Kept, TypeOK
<1>3. ~Pending(c)
  BY <1>1, StopTimer DEF IInv, ClientInv, Good, SlotsOK, Pending
<1>4. client.mReconnecting
  BY <1>1 DEF IInv, ClientInv, Good, Pending
<1> HIDE DEF c
<1>5. connect(c, TRUE) /\ Idle
  BY <1>1, <1>4 DEF FireReconnect, c
<1>6. ASSUME NEW d, Good(d), d.mReconnecting, ~Pending(d), NEW ok \in BOOLEAN,
             client' = reconnectReturns(d, ok)
      PROVE  Scheduled'
  <2>1. IF ok THEN ~client'.mReconnecting ELSE Pending(client')
    BY <1>6, ReconnectReturnsCalm
  <2>2. QED
    BY <2>1 DEF Scheduled, Pending
<1>7. CASE ConnectReturns(c, TRUE, TRUE)
  BY <1>2, <1>3, <1>4, <1>6, <1>7 DEF ConnectReturns, SameElse
<1>8. CASE ConnectReturns(mosquittoClose(c), TRUE, FALSE)
  <2> DEFINE d == mosquittoClose(c)
  <2>1. Good(d)
    BY <1>2, MosquittoCloseKeeps DEF Kept
  <2>2. d.mReconnecting = c.mReconnecting /\ d.timers = c.timers
    BY <1>2 DEF mosquittoClose, Good, ClientState
  <2>3. client' = reconnectReturns(d, FALSE)
    BY <1>8 DEF ConnectReturns
  <2> HIDE DEF d
  <2>4. d.mReconnecting /\ ~Pending(d)
    BY <1>2, <1>3, <1>4, <2>2 DEF Pending, SameElse
  <2>5. QED
    BY <1>6, <2>1, <2>3, <2>4
<1>9. ASSUME NEW fd \in Fds, MayRequest,
             stack' = Append(stack, [NewFrame("connack", fd) EXCEPT !.auto = TRUE,
                                                                    !.req  = nextReq])
      PROVE  Scheduled'
  <2> DEFINE f == [NewFrame("connack", fd) EXCEPT !.auto = TRUE, !.req = nextReq]
  <2>1. f \in Frame /\ f.at = "connack" /\ f.auto = TRUE
    <3>1. f \in Frame /\ f.at = "connack"
      BY <1>9, ConnackFrame DEF IInv
    <3>2. f.auto = TRUE
      BY DEF NewFrame
    <3>3. QED
      BY <3>1, <3>2
  <2>2. stack' = <<f>>
    BY <1>5, <1>9 DEF Idle
  <2> HIDE DEF f
  <2>3. stack'[1] = f /\ stack' # <<>>
    BY <2>2
  <2>4. Connects' /\ stack'[1].auto
    BY <2>1, <2>3 DEF Connects, Idle
  <2>5. QED
    BY <2>4 DEF Scheduled
<1>10. QED
  BY <1>5, <1>7, <1>8, <1>9 DEF connect

\* sendRequest() pushes a wait for a response.
LEMMA SendRequestScheduled ==
  ASSUME IInv, IInv', Scheduled, SendRequest
  PROVE  Scheduled'
<1>1. CASE UNCHANGED <<client, stack>>
  BY <1>1, NothingScheduled
<1>2. CASE client' = expect(client, Len(stack) + 1) /\ ~UNCHANGED <<client, stack>>
  <2>1. PICK t \in Types :
          stack' = Append(stack, [NewFrame("response", client.sock) EXCEPT
                                    !.type = t, !.req = nextReq, !.key = client.mSessionInfo])
    BY <1>2 DEF SendRequest
  <2> DEFINE f == [NewFrame("response", client.sock) EXCEPT
                     !.type = t, !.req = nextReq, !.key = client.mSessionInfo]
  <2>2. f.at = "response"
    BY DEF NewFrame
  <2>3. stack' = Append(stack, f)
    BY <2>1
  <2> HIDE DEF f
  <2>4. stack \in Seq(Frame) /\ Len(stack) \in Nat
    BY DEF IInv, TypeOK
  <2>5. stack' # <<>> /\ (stack'[1] = IF Idle THEN f ELSE stack[1])
    <3>1. Idle <=> Len(stack) = 0
      BY StackOK DEF IInv
    <3>2. CASE Len(stack) = 0
      BY <2>3, <2>4, <3>1, <3>2
    <3>3. CASE Len(stack) # 0
      BY <2>3, <2>4, <3>1, <3>3
    <3>4. QED
      BY <3>2, <3>3
  <2>6. (Connects' <=> Connects) /\ (Connects => stack'[1].auto = stack[1].auto)
    BY <2>2, <2>5 DEF Connects, Idle
  <2>7. /\ client'.mReconnecting = client.mReconnecting
        /\ client'.mConnected = client.mConnected /\ client'.timers = client.timers
        /\ client'.mSessionInfo = client.mSessionInfo
    BY <1>2 DEF expect, IInv, TypeOK, ClientState
  <2>8. QED
    BY <2>6, <2>7 DEF Scheduled, Pending, HasSession
<1>3. QED
  BY <1>1, <1>2 DEF SendRequest

\* handleSocketEvents() begins.
LEMMA StartReadingScheduled ==
  ASSUME IInv, IInv', Scheduled, StartReading
  PROVE  Scheduled'
<1> DEFINE f == NewFrame("read", client.sock)
<1>1. client.sock \in Fds \cup {NoFd}
  BY DEF IInv, TypeOK, ClientState
<1>2. f \in Frame /\ f.at \notin Waits
  BY <1>1, NewFrameOK DEF Handlers, NewFrame, Waits, WaitsForResponse
<1>3. stack' = Append(stack, f) /\ client' = client
  BY DEF StartReading
<1> HIDE DEF f
<1>4. FramesKept(stack') /\ ~Idle'
  BY <1>2, <1>3, PushedFrames DEF IInv, TypeOK, Idle
<1>5. QED
  BY <1>3, <1>4, StayIsSteady, SteadyStep

\* The CONNACK marks a wait.
LEMMA ReadConnackScheduled ==
  ASSUME IInv, IInv', Scheduled, ReadConnack
  PROVE  Scheduled'
<1>1. ~Idle /\ stack' \in onConnectCallback("none") /\ client' = client
  BY DEF ReadConnack, At
<1>2. FramesKept(stack')
  BY <1>1, CallbackFrames DEF IInv
<1>3. DOMAIN stack' = DOMAIN stack
  BY <1>1, OnConnectCallback DEF IInv
<1>4. QED
  BY <1>1, <1>2, <1>3, StayIsSteady, SameLengthSteady

\* A refused connection is lost while its connect() still waits.
LEMMA ReadRefusedScheduled ==
  ASSUME RoomForTwo, IInv, IInv', NestingInv, Scheduled, ReadRefused
  PROVE  Scheduled'
<1>1. ~Idle /\ Top.at = "read" /\ Top.at \in Handlers /\ client' = lose(client)
  BY DEF ReadRefused, At, Handlers
<1> PICK s \in onConnectCallback("refused") : stack' = SubSeq(s, 1, Len(stack) - 1)
  BY DEF ReadRefused
<1>2. FramesKept(stack')
  BY <1>1, CallbackFrames DEF IInv
<1>3. s \in Seq(Frame) /\ Len(s) = Len(stack)
  BY OnConnectCallback DEF IInv
<1>4. Len(stack) \in Nat \ {0}
  BY <1>1, StackOK DEF IInv
<1>5. Len(stack') = Len(stack) - 1
  BY <1>3, <1>4, SubSeqProperties
<1>6. Steady(client, client')
  BY <1>1, LoseIsQuiet, ReconnectsIsSteady DEF IInv, ClientInv
<1>7. QED
  BY <1>1, <1>2, <1>5, <1>6, PopSteady

\* A message is a response, is queued, or is found to be of an invalid session.
LEMMA OnMessageScheduled ==
  ASSUME RoomForTwo, IInv, IInv', Scheduled, NEW topic, NEW m \in Message, onMessage(topic, m)
  PROVE  Scheduled'
<1>1. CASE /\ client.mExpectedResponse # 0
           /\ client' = client
           /\ stack' = [stack EXCEPT ![client.mExpectedResponse] = onExpectedResponse(@, m)]
  <2> DEFINE i == client.mExpectedResponse
             f == onExpectedResponse(stack[i], m)
  <2>1. i \in DOMAIN stack /\ stack[i] \in Frame /\ stack[i].at \in WaitsForResponse
    BY <1>1 DEF IInv, TypeOK, ClientInv, ExpectedResponseLive, Waiting
  <2>2. f \in Frame /\ f.at = stack[i].at /\ f.auto = stack[i].auto
    BY <2>1, ResponseFrame
  <2>3. stack' = [stack EXCEPT ![i] = f]
    BY <1>1
  <2> HIDE DEF f
  <2>4. /\ DOMAIN stack' = DOMAIN stack
        /\ \A j \in DOMAIN stack : stack'[j] = IF j = i THEN f ELSE stack[j]
    BY <2>1, <2>2, <2>3, Replaced DEF IInv
  <2>5. \A j \in DOMAIN stack : stack'[j].at = stack[j].at /\ stack'[j].auto = stack[j].auto
    BY <2>2, <2>4
  <2>6. 1 \in DOMAIN stack <=> ~Idle
    BY StackOK DEF IInv
  <2>7. 1 \in DOMAIN stack' <=> ~Idle'
    BY EmptySeq DEF IInv, TypeOK, Idle
  <2>8. (Connects' <=> Connects) /\ (Connects => stack'[1].auto = stack[1].auto)
    BY <2>4, <2>5, <2>6, <2>7 DEF Connects
  <2>9. QED
    BY <1>1, <2>8 DEF Scheduled, Pending, HasSession
<1>2. CASE client' = onGeneralMessage(client, m) /\ stack' = stack
  <2>1. \/ Queues(client, client', m)
        \/ client' = client
        \/ client' = handleInvalidSession(client, TRUE)
    BY <1>2, GeneralMessage DEF IInv, ClientInv
  <2>2. Steady(client, client')
    <3>1. CASE Queues(client, client', m)
      BY <3>1, SameReconnectIsSteady DEF Queues
    <3>2. CASE client' = client
      BY <3>2, StayIsSteady
    <3>3. CASE client' = handleInvalidSession(client, TRUE)
      BY <3>3, InvalidSessionIsQuiet, ReconnectsIsSteady DEF IInv, ClientInv
    <3>4. QED
      BY <2>1, <3>1, <3>2, <3>3
  <2>3. QED
    BY <1>2, <2>2, SameFrames, SameLengthSteady
<1>3. QED
  BY <1>1, <1>2 DEF onMessage

\* The messages of the gateway.
LEMMA ReadMessageScheduled ==
  ASSUME RoomForTwo, IInv, IInv', Scheduled, ReadAnswer \/ ReadSessionEvent \/ ReadDeviceEvent
  PROVE  Scheduled'
<1>1. CASE ReadAnswer
  <2>1. PICK r \in owed : \E m \in AnswersTo(r) : onMessage("client", m)
    BY <1>1 DEF ReadAnswer
  <2>2. PICK m \in AnswersTo(r) : onMessage("client", m)
    BY <2>1
  <2>3. r \in OwedRequest
    BY DEF IInv, TypeOK
  <2>4. m \in Message
    BY <2>2, <2>3, AnswersAreMessages
  <2>5. QED
    BY <2>2, <2>4, OnMessageScheduled
<1>2. CASE ReadSessionEvent
  <2>1. PICK kind \in {"expiring", "expired"} : onMessage("client", Event(kind))
    BY <1>2 DEF ReadSessionEvent
  <2>2. Event(kind) \in Message
    BY EventsAreMessages DEF IInv
  <2>3. QED
    BY <2>1, <2>2, OnMessageScheduled
<1>3. CASE ReadDeviceEvent
  <2>1. Event("device") \in Message
    BY EventsAreMessages DEF IInv
  <2>2. Refusal \in Message
    BY MessageTypesOK DEF Refusal, Message, Kinds
  <2>3. QED
    BY <1>3, <2>1, <2>2, OnMessageScheduled DEF ReadDeviceEvent
<1>4. QED
  BY <1>1, <1>2, <1>3

\* handleSocketEvents() goes on, or a callback returns to it.
LEMMA MoveScheduled ==
  ASSUME IInv, IInv', Scheduled, ReadEnds \/ CallbackReturns
  PROVE  Scheduled'
<1>1. client' = client /\ At(Handlers) /\ "next" \in Handlers
      /\ ReplaceTop([Top EXCEPT !.at = "next"])
  BY DEF ReadEnds, CallbackReturns, At, Handlers
<1>2. FramesKept(stack')
  BY <1>1, MovedFrames DEF IInv
<1>3. DOMAIN stack' = DOMAIN stack
  BY <1>1 DEF ReplaceTop
<1>4. QED
  BY <1>1, <1>2, <1>3, StayIsSteady, SameLengthSteady

\* A message is taken from the queue, and may be that the session expired.
LEMMA DispatchNextScheduled ==
  ASSUME RoomForTwo, IInv, IInv', Scheduled, DispatchNext
  PROVE  Scheduled'
<1>1. /\ Popped.mReconnecting = client.mReconnecting
      /\ Popped.mConnected = client.mConnected /\ Popped.timers = client.timers
      /\ Popped.mSessionInfo = client.mSessionInfo
  BY PoppedIsCalm DEF IInv, TypeOK
<1>2. Steady(client, Popped)
  BY <1>1, SameReconnectIsSteady
<1>3. CASE client' = Popped /\ \E at \in {"expiring", "subscriber"} : ReplaceTop([Top EXCEPT !.at = at])
  <2>1. PICK at \in {"expiring", "subscriber"} : ReplaceTop([Top EXCEPT !.at = at])
    BY <1>3
  <2>2. At(Handlers) /\ at \in Handlers
    BY DEF DispatchNext, At, Handlers, Callbacks
  <2>3. FramesKept(stack')
    BY <2>1, <2>2, MovedFrames DEF IInv
  <2>4. DOMAIN stack' = DOMAIN stack
    BY <2>1 DEF ReplaceTop
  <2>5. QED
    BY <1>2, <1>3, <2>3, <2>4, SameLengthSteady
<1>4. CASE client' = handleInvalidSession(Popped, FALSE) /\ stack' = stack
  <2>1. Good(Popped)
    BY PoppedKeeps DEF IInv, ClientInv, Kept, DispatchNext
  <2>2. Steady(Popped, client')
    BY <1>4, <2>1, InvalidSessionIsQuiet, ReconnectsIsSteady
  <2>3. QED
    BY <1>2, <1>4, <2>2, SteadyTransitive, SameFrames, SameLengthSteady
<1>5. QED
  BY <1>3, <1>4 DEF DispatchNext

\* A handler ends, or finds the connection lost.
LEMMA HandlerScheduled ==
  ASSUME RoomForTwo, IInv, IInv', NestingInv, Scheduled, HandlerEnds \/ ReadFails
  PROVE  Scheduled'
<1>1. ~Idle /\ Top.at \in Handlers /\ stack' = Rest
  BY DEF HandlerEnds, ReadFails, At, Handlers
<1>2. client' = client \/ client' = lose(client)
  BY DEF HandlerEnds, ReadFails
<1>3. Steady(client, client')
  BY <1>2, StayIsSteady, LoseIsQuiet, ReconnectsIsSteady DEF IInv, ClientInv
<1>4. FramesKept(stack') /\ Len(stack') = Len(stack) - 1
  BY <1>1, RestFrames, NestedRest DEF IInv, NestingInv
<1>5. QED
  BY <1>1, <1>3, <1>4, PopSteady

\* sendRequest() returns.
LEMMA RequestEndsScheduled ==
  ASSUME RoomForTwo, IInv, IInv', NestingInv, Scheduled, RequestEnds
  PROVE  Scheduled'
<1> DEFINE a == answered(client)
<1>1. ~Idle /\ Top.at = "response" /\ stack' = Rest
  BY DEF RequestEnds, At
<1>2. /\ Good(a) /\ a.mReconnecting = client.mReconnecting
      /\ a.mConnected = client.mConnected /\ a.timers = client.timers
      /\ a.mSessionInfo = client.mSessionInfo
  BY AnsweredIsGood, AnsweredIsCalm DEF IInv, ClientInv, TypeOK
<1>3. client' = handleInvalidSession(a, FALSE) \/ client' = a
  BY DEF RequestEnds
<1> HIDE DEF a
<1>4. Steady(client, a) /\ Steady(a, client')
  BY <1>2, <1>3, SameReconnectIsSteady, StayIsSteady, InvalidSessionIsQuiet, ReconnectsIsSteady
<1>5. FramesKept(stack') /\ Len(stack') = Len(stack) - 1
  BY <1>1, RestFrames, NestedRest DEF IInv, NestingInv
<1>6. QED
  BY <1>1, <1>4, <1>5, SteadyTransitive, PopSteady

\* handleMisc() stops no timer but its own.
LEMMA FireMiscScheduled ==
  ASSUME RoomForTwo, IInv, IInv', Scheduled, FireMisc
  PROVE  Scheduled'
<1>1. PICK t \in TimerIds :
        LET c == stopTimer(client, t)
        IN  /\ client.timers[t] = "misc"
            /\ \/ ~c.mConnected /\ client' = c
               \/ c.mConnected /\ client' = lose(c)
               \/ c.mConnected /\ c.sock # NoFd /\ client' = scheduleMisc(c)
  BY DEF FireMisc
<1> DEFINE c == stopTimer(client, t)
<1>2. /\ Good(c) /\ SameElse(client, c)
      /\ c.mMiscTimerId = client.mMiscTimerId
      /\ \A u \in TimerIds : c.timers[u] = IF u = t THEN "free" ELSE client.timers[u]
  BY StopKeeps, StopTimer DEF IInv, ClientInv, Kept, TypeOK
<1>3. t = client.mMiscTimerId
  BY <1>1 DEF IInv, ClientInv, Good, SlotsOK
<1>4. client' = c \/ client' = lose(c) \/ client' = scheduleMisc(c)
  BY <1>1
<1> HIDE DEF c
<1>5. Steady(client, c)
  BY <1>1, <1>2 DEF Pending, Steady, SameElse, HasSession
<1>6. Steady(c, client')
  <2>1. CASE client' = c
    BY <2>1, StayIsSteady
  <2>2. CASE client' = lose(c)
    BY <1>2, <2>2, LoseIsQuiet, ReconnectsIsSteady
  <2>3. CASE client' = scheduleMisc(c)
    <3>1. SameElse(c, client') /\ (Pending(c) => Pending(client'))
      BY <1>2, <1>3, <2>3, ScheduleMiscTimers DEF Good
    <3>2. QED
      BY <3>1 DEF Steady, SameElse, HasSession
  <2>4. QED
    BY <1>4, <2>1, <2>2, <2>3
<1>7. QED
  BY <1>5, <1>6, SteadyTransitive, SameFrames, SameLengthSteady DEF FireMisc

\* connect() returns: reconnect() schedules the next attempt, and the application finds
\* the one that was scheduled before.
LEMMA ReturnScheduled ==
  ASSUME RoomForTwo, IInv, NestingInv, Scheduled,
         ~Idle, Top.at \in {"connack", "login"}, stack' = Rest,
         NEW c, Kept(Leaving, c),
         HasSession(c) \/ Pending(c)
           \/ ((c.mReconnecting => client.mReconnecting) /\ (Pending(client) => Pending(c))),
         NEW ok \in BOOLEAN, ConnectReturns(c, Top.auto, ok)
  PROVE  Scheduled'
<1>1. Idle' /\ stack[1] = Top
  BY ConnectPops
<1>2. Connects /\ ~Connects'
  BY <1>1 DEF Connects
<1>3. CASE Top.auto
  <2>1. Good(c) /\ c.mReconnecting /\ ~Pending(c)
    BY <1>3, AutoReturns
  <2>2. client' = reconnectReturns(c, ok)
    BY <1>3 DEF ConnectReturns
  <2>3. IF ok THEN ~client'.mReconnecting ELSE Pending(client')
    BY <2>1, <2>2, ReconnectReturnsCalm
  <2>4. QED
    BY <2>3 DEF Scheduled, Pending
<1>4. CASE ~Top.auto
  <2>1. client' = c
    BY <1>4 DEF ConnectReturns
  <2>2. client.mReconnecting => Pending(client)
    BY <1>1, <1>2, <1>4 DEF Scheduled
  <2>3. Pending(client) <=> \E t \in TimerIds : client.timers[t] = "reconnect"
    BY DEF Pending
  <2>4. c.mReconnecting => Pending(c) \/ HasSession(c)
    BY <2>2
  <2>5. QED
    BY <1>2, <2>1, <2>4 DEF Scheduled, Pending
<1>5. QED
  BY <1>3, <1>4

\* No CONNACK, or a refusal.
LEMMA ConnackMissingScheduled ==
  ASSUME RoomForTwo, IInv, NestingInv, Scheduled, ConnackMissing
  PROVE  Scheduled'
<1> DEFINE c == forgetContext(client)
<1>1. ~Idle /\ Top.at = "connack" /\ stack' = Rest
  BY DEF ConnackMissing, At
<1>2. Leaving = client /\ Kept(Leaving, c)
  BY <1>1, UserDataKeeps DEF Leaving, WaitsForResponse, IInv, ClientInv
<1>3. c.mReconnecting = client.mReconnecting /\ c.timers = client.timers
  BY DEF forgetContext, IInv, TypeOK, ClientState
<1>4. ConnectReturns(c, Top.auto, FALSE)
  BY DEF ConnackMissing
<1> HIDE DEF c
<1>5. QED
  BY <1>1, <1>2, <1>3, <1>4, ReturnScheduled DEF Pending

\* The connection is gone when the CONNACK is there, or the login follows.
LEMMA ConnackArrivedScheduled ==
  ASSUME RoomForTwo, IInv, NestingInv, Scheduled, ConnackArrived
  PROVE  Scheduled'
<1> DEFINE c == useSelf(client)
<1>1. ~Idle /\ Top.at = "connack"
  BY DEF ConnackArrived, At
<1>2. /\ c \in ClientState /\ Kept(client, c)
      /\ c.mReconnecting = client.mReconnecting /\ c.timers = client.timers
  <2>1. Kept(client, c)
    BY UserDataKeeps DEF IInv, ClientInv
  <2>2. QED
    BY <2>1 DEF useSelf, IInv, TypeOK, ClientState, Kept, Good
<1>3. CASE stack' = Rest /\ ConnectReturns(abandon(c), Top.auto, FALSE)
  <2> DEFINE d == abandon(c)
  <2>1. ConnectReturns(d, Top.auto, FALSE)
    BY <1>3
  <2>2. d.mReconnecting = c.mReconnecting /\ d.timers = c.timers
    BY <1>2 DEF abandon, mosquittoClose, ClientState
  <2>3. Kept(Leaving, d)
    BY <1>1, <1>2, AbandonKeeps, KeptTransitive DEF Leaving, WaitsForResponse, Kept
  <2> HIDE DEF c, d
  <2>4. QED
    BY <1>1, <1>2, <1>3, <2>1, <2>2, <2>3, ReturnScheduled DEF Pending
<1>4. CASE /\ client' = expect(c, Len(stack))
           /\ ReplaceTop([NewFrame("login", c.sock) EXCEPT !.auto = Top.auto,
                                                           !.type = "login",
                                                           !.req  = Top.req])
  <2> DEFINE f == [NewFrame("login", c.sock) EXCEPT !.auto = Top.auto,
                                                    !.type = "login",
                                                    !.req  = Top.req]
  <2>1. f.at = "login" /\ f.auto = Top.auto
    BY DEF NewFrame
  <2>2. Len(stack) = 1 /\ stack[1] = Top /\ 1 \in DOMAIN stack
    BY <1>1, ConnectsAtTheBottom, StackOK DEF NestingInv, IInv
  <2>3. stack' = [stack EXCEPT ![1] = f]
    BY <1>4, <2>2 DEF ReplaceTop
  <2>4. /\ client'.mReconnecting = c.mReconnecting /\ client'.timers = c.timers
    BY <1>2, <1>4 DEF expect, ClientState
  <2> HIDE DEF f, c
  <2>5. stack'[1] = f /\ 1 \in DOMAIN stack'
    BY <2>2, <2>3
  <2>6. stack' # <<>>
    BY <2>5
  <2>7. Connects' /\ (stack'[1].auto <=> stack[1].auto) /\ Connects
    BY <1>1, <2>1, <2>2, <2>5, <2>6 DEF Connects, Idle
  <2>8. QED
    BY <1>2, <2>4, <2>7 DEF Scheduled, Pending
<1>5. QED
  BY <1>3, <1>4 DEF ConnackArrived

\* The login is refused, or not answered.
LEMMA LoginFailsScheduled ==
  ASSUME RoomForTwo, IInv, NestingInv, Scheduled, LoginFails
  PROVE  Scheduled'
<1>1. ~Idle /\ Top.at = "login" /\ stack' = Rest
  BY DEF LoginFails, At
<1> DEFINE a == answered(client)
           c == IF Top.error = "invalidSession" THEN handleInvalidSession(a, FALSE) ELSE a
           d == abandon(c)
<1>2. /\ Leaving = a /\ Good(a) /\ Kept(a, a)
      /\ a.mReconnecting = client.mReconnecting /\ a.timers = client.timers
  BY <1>1, AnsweredIsGood, AnsweredIsCalm
     DEF Leaving, WaitsForResponse, IInv, ClientInv, TypeOK, Kept
<1>3. ConnectReturns(d, Top.auto, FALSE)
  BY DEF LoginFails
<1> HIDE DEF a
<1>4. Kept(a, c) /\ Steady(a, c)
  BY <1>2, HandleInvalidSessionKeeps, InvalidSessionIsQuiet, ReconnectsIsSteady, StayIsSteady
<1> HIDE DEF c
<1>5. /\ Kept(Leaving, d)
      /\ d.mReconnecting = c.mReconnecting /\ d.timers = c.timers
  <2>1. d.mReconnecting = c.mReconnecting /\ d.timers = c.timers
    BY <1>4 DEF abandon, mosquittoClose, ClientState, Kept, Good
  <2>2. QED
    BY <1>2, <1>4, <2>1, AbandonKeeps, KeptTransitive DEF Kept
<1> HIDE DEF d
<1>6. \/ Pending(d)
      \/ (d.mReconnecting => client.mReconnecting) /\ (Pending(client) => Pending(d))
  BY <1>2, <1>4, <1>5 DEF Steady, Pending
<1>7. QED
  BY <1>1, <1>3, <1>5, <1>6, ReturnScheduled

\* The session is open.  Even where scheduleMisc() stopped the reconnect by an id that
\* outlived its timer, the client is connected.
LEMMA LoginSucceedsScheduled ==
  ASSUME RoomForTwo, IInv, NestingInv, Scheduled, LoginSucceeds
  PROVE  Scheduled'
<1>1. ~Idle /\ Top.at = "login" /\ stack' = Rest /\ Top.got # 0
  BY DEF LoginSucceeds, At
<1> DEFINE a == answered(client)
           c == [a EXCEPT !.mSessionInfo = Top.got]
<1>2. /\ Leaving = a /\ Good(a)
      /\ a.mReconnecting = client.mReconnecting /\ a.timers = client.timers
      /\ a.sock = client.sock /\ a.mConnected = client.mConnected
  BY <1>1, AnsweredIsGood, AnsweredIsCalm DEF Leaving, WaitsForResponse, IInv, ClientInv, TypeOK
<1>3. \/ ConnectReturns(abandon(c), Top.auto, FALSE)
      \/ c.sock # NoFd /\ ConnectReturns(scheduleMisc(c), Top.auto, TRUE)
  BY DEF LoginSucceeds
<1> HIDE DEF a
<1>4. Top.got \in Sessions
  BY <1>1, RestOK DEF IInv, Frame
<1>5. /\ c \in ClientState /\ SameTimers(a, c)
      /\ c.sock = a.sock /\ c.mConnected = a.mConnected
      /\ c.mSessionInfo = Top.got
  BY <1>2, <1>4 DEF Good, ClientState, SameTimers
<1>6. Kept(a, c)
  BY <1>2, <1>5, SameTimersKeep
<1> HIDE DEF c
<1>7. client.sock # NoFd => client.mConnected
  BY <1>1, ConnectPops DEF NestingInv, LoggingIn
<1>8. CASE ConnectReturns(abandon(c), Top.auto, FALSE)
  <2> DEFINE d == abandon(c)
  <2>1. ConnectReturns(d, Top.auto, FALSE)
    BY <1>8
  <2>2. d.mReconnecting = c.mReconnecting /\ d.timers = c.timers
    BY <1>5 DEF abandon, mosquittoClose, ClientState
  <2>3. Kept(Leaving, d)
    BY <1>2, <1>6, AbandonKeeps, KeptTransitive DEF Kept
  <2> HIDE DEF d
  <2>4. (d.mReconnecting => client.mReconnecting) /\ (Pending(client) => Pending(d))
    BY <1>2, <1>5, <2>2 DEF Pending, SameTimers
  <2>5. QED
    BY <1>1, <2>1, <2>3, <2>4, ReturnScheduled
<1>9. CASE c.sock # NoFd /\ ConnectReturns(scheduleMisc(c), Top.auto, TRUE)
  <2> DEFINE d == scheduleMisc(c)
  <2>1. ConnectReturns(d, Top.auto, TRUE)
    BY <1>9
  <2>2. Kept(Leaving, d) /\ SameElse(c, d)
    BY <1>2, <1>6, ScheduleMisc, ScheduleMiscKeeps, KeptTransitive DEF Kept, Good
  <2> HIDE DEF d
  <2>3. HasSession(d)
    BY <1>1, <1>2, <1>5, <1>7, <1>9, <2>2 DEF SameElse, HasSession
  <2>4. QED
    BY <1>1, <2>1, <2>2, <2>3, ReturnScheduled
<1>10. QED
  BY <1>3, <1>8, <1>9

\* Every step but disconnect() keeps the next attempt scheduled.
LEMMA NextScheduled ==
  ASSUME RoomForTwo, CallbacksDoNotConnect, IInv, NestingInv, Scheduled, [Next]_vars
  PROVE  Scheduled' \/ Disconnect
<1>1. IInv'
  BY NextIInv
<1>2. CASE UNCHANGED vars \/ Send \/ SessionLapses
  <2>1. UNCHANGED <<client, stack>>
    BY <1>2 DEF vars, Send, SessionLapses
  <2>2. QED
    BY <2>1, NothingScheduled
<1>3. CASE Connect \/ SendRequest
  BY <1>1, <1>3, ConnectScheduled, SendRequestScheduled
<1>4. CASE WaitEnds
  BY <1>1, <1>4, ConnackMissingScheduled, ConnackArrivedScheduled, LoginFailsScheduled,
     LoginSucceedsScheduled, RequestEndsScheduled DEF WaitEnds
<1>5. CASE WaitReads \/ LoopReads
  BY <1>1, <1>5, StartReadingScheduled DEF WaitReads, LoopReads
<1>6. CASE Reads
  BY <1>1, <1>6, ReadConnackScheduled, ReadRefusedScheduled, ReadMessageScheduled,
     MoveScheduled, HandlerScheduled DEF Reads
<1>7. CASE DispatchNext \/ CallbackReturns \/ HandlerEnds
  BY <1>1, <1>7, DispatchNextScheduled, MoveScheduled, HandlerScheduled
<1>8. CASE Timers
  BY <1>1, <1>8, FireReconnectScheduled, FireMiscScheduled DEF Timers
<1>9. QED
  BY <1>2, <1>3, <1>4, <1>5, <1>6, <1>7, <1>8 DEF Next, Application

\* What the property says of any connect() on the stack is said of the bottom.
LEMMA RecoversIsScheduled ==
  ASSUME IInv, NestingInv
  PROVE  Recovers <=> Scheduled
<1>1. (ReconnectTimers # {}) <=> Pending(client)
  BY DEF ReconnectTimers, Pending
<1>2. (\E i \in DOMAIN stack : stack[i].at \in {"connack", "login"}) <=> Connects
  <2>1. ~Idle => 1 \in DOMAIN stack
    BY StackOK DEF IInv
  <2>2. QED
    BY <2>1, ConnectsOnlyAtTheBottom DEF Connects
<1>3. ASSUME Connects
      PROVE  (\E i \in DOMAIN stack : stack[i].auto) <=> stack[1].auto
  <2>1. 1 \in DOMAIN stack
    BY <1>3, StackOK DEF IInv, Connects
  <2>2. QED
    BY <2>1 DEF IInv, ClientInv, Autos
<1>4. QED
  BY <1>1, <1>2, <1>3 DEF Recovers, Scheduled, HasSession

\* With room for the client's two timers, and an application whose callbacks do not call
\* connect(): whatever fails, in an attempt to reconnect or in calls that are nested in
\* each other, the client keeps its next attempt scheduled until it has a session again;
\* only disconnect() makes it forget.
THEOREM OnlyDisconnectForgetsTheReconnect ==
  ASSUME TimerCount >= 2, CallbacksDoNotConnect
  PROVE  Spec => OnlyDisconnectForgets
<1>1. ASSUME IInv, NestingInv, [Next]_vars
      PROVE  [Recovers /\ ~Recovers' => result'.call = "disconnect"]_vars
  <2> SUFFICES ASSUME Recovers, ~Recovers' PROVE result'.call = "disconnect"
    OBVIOUS
  <2>1. IInv' /\ NestingInv'
    BY <1>1, NextIInv, NextNestingInv
  <2>2. Recovers' <=> Scheduled'
    BY <2>1, RecoversIsScheduled, PTL
  <2>3. Scheduled /\ ~Scheduled'
    BY <1>1, <2>2, RecoversIsScheduled
  <2>4. Disconnect
    BY <1>1, <2>3, NextScheduled DEF RoomForTwo
  <2>5. QED
    BY <2>4 DEF Disconnect, Returned
<1>2. QED
  BY <1>1, NestingInvariance, PTL DEF Spec, OnlyDisconnectForgets
=============================================================================
