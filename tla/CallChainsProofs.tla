--------------------------- MODULE CallChainsProofs ---------------------------
(***************************************************************************)
(* Proofs about the chains of calls: which chain can hold which mutex, and *)
(* from that the shape of every circular wait.                             *)
(*                                                                         *)
(* The argument: an application thread holds mutexes of its own process    *)
(* only (OwnerInv) and, while it holds one, waits for the two of the       *)
(* server, which only the IOT thread holds over a call.  So a circle goes  *)
(* through the IOT thread, which waits for somebody only in a callback     *)
(* (CallbackInv).                                                          *)
(***************************************************************************)
EXTENDS CallChains, TLAPS

HoldingProxy == {"sendEvent", "sendProperty", "createClient", "registCommandCB",
                 "registPropertyCB", "clientActive"}

\* What the holder of each mutex is doing.
ProxyInv ==
  \A p \in Process :
    owner[Proxy(p)] # None =>
      pc[owner[Proxy(p)]] \in HoldingProxy /\ Where(owner[Proxy(p)]) = p
ListInv ==
  \A p \in Process :
    /\ owner[PropertyList(p)] # None =>
         /\ owner[PropertyList(p)] \in App
         /\ ProcessOf[owner[PropertyList(p)]] = p
         /\ pc[owner[PropertyList(p)]] \in {"addFollowing", "addProperty"}
    /\ owner[CommandList(p)] # None =>
         /\ owner[CommandList(p)] \in App
         /\ ProcessOf[owner[CommandList(p)]] = p
         /\ pc[owner[CommandList(p)]] = "addCommand"
ServerInv ==
  /\ owner[Attrs] = IF iot \in {"poll", "get"} THEN Iot ELSE None
  /\ owner[Clis] = IF iot \in {"get", "dispatch"} THEN Iot ELSE None

\* The IOT thread is in a callback only inside a dispatch, and calls back only
\* from there.
CallbackInv ==
  /\ inside # None \/ todo # {} => iot \in {"get", "dispatch"}
  /\ pc[Iot] # "idle" =>
       /\ inside # None
       /\ style # {}
       /\ pc[Iot] \in Body \cup {"sendEvent", "sendProperty"}

ChInv == TypeOK /\ ProxyInv /\ ListInv /\ ServerInv /\ CallbackInv

-----------------------------------------------------------------------------
\* The mutexes are distinct, and each is one.
LEMMA MutexFacts ==
  /\ Attrs \in Mutex /\ Clis \in Mutex /\ Attrs # Clis
  /\ \A p \in Process :
       /\ Proxy(p) \in Mutex /\ PropertyList(p) \in Mutex /\ CommandList(p) \in Mutex
       /\ Proxy(p) \notin {Attrs, Clis}
       /\ PropertyList(p) \notin {Attrs, Clis}
       /\ CommandList(p) \notin {Attrs, Clis}
       /\ \A r \in Process :
            /\ Proxy(p) # PropertyList(r) /\ Proxy(p) # CommandList(r)
            /\ PropertyList(p) # CommandList(r)
            /\ p # r => /\ Proxy(p) # Proxy(r)
                        /\ PropertyList(p) # PropertyList(r)
                        /\ CommandList(p) # CommandList(r)
BY DEF Mutex, Attrs, Clis, Proxy, PropertyList, CommandList

\* The constants are as declared.
LEMMA ChainFacts ==
  /\ \A t \in App : ProcessOf[t] \in Process /\ t \in Chain /\ t # Iot /\ t # None
  /\ Iot \in Chain /\ Iot # None /\ None \notin Process \cup Chain
BY ChainsAssumption DEF ChainsAssumption, Chain

\* The initial states satisfy the invariant.
LEMMA InitChInv == Init => ChInv
BY MutexFacts, ChainFacts
   DEF Init, ChInv, TypeOK, ProxyInv, ListInv, ServerInv, CallbackInv, CallState, Body

-----------------------------------------------------------------------------
\* Every step keeps the types.
LEMMA TypeStep == ChInv /\ [Next]_vars => TypeOK'
<1> SUFFICES ASSUME ChInv, [Next]_vars PROVE TypeOK'
  OBVIOUS
<1> USE MutexFacts, ChainFacts DEF ChInv, TypeOK
<1>0. /\ Body \subseteq CallState
      /\ "idle" \in CallState /\ "sendEvent" \in CallState /\ "sendProperty" \in CallState
      /\ "connect" \in CallState /\ "createClient" \in CallState /\ "post" \in CallState
      /\ "addFollowing" \in CallState /\ "addProperty" \in CallState
      /\ "postCommands" \in CallState /\ "addCommand" \in CallState
      /\ "regist" \in CallState /\ "registCommandCB" \in CallState
      /\ "registPropertyCB" \in CallState /\ "clientActive" \in CallState
  BY DEF CallState
<1>1. ASSUME NEW c \in Chain, NEW what \in Body, Begin(c, what) PROVE TypeOK'
  BY <1>0, <1>1 DEF Begin, Goto, server, sessions
<1>2. ASSUME NEW t \in App, ConnService(t) PROVE TypeOK'
  BY <1>0, <1>2 DEF ConnService, Goto, server, sessions
<1>3. ASSUME NEW c \in Chain, CallSteps(c) PROVE TypeOK'
  <2>1. pc[c] # "idle" => Where(c) \in Process
    BY DEF Where, CallbackInv, Chain
  <2> QED
    BY <1>0, <1>3, <2>1 DEF CallSteps, ReportEvent, ReportProperty, SendEvent, SendProperty,
         FollowProperty, FollowCommand, Enlist, Lock, Acquire,
         Release, Return, Goto, server, sessions
<1>4. ASSUME NEW t \in App, ConnSteps(t) PROVE TypeOK'
  BY <1>0, <1>4 DEF ConnSteps, Connect, CreateClient, PostFollow, AddFollowing, AddProperty,
       PostCommands, AddCommand, Regist, RegistCommandCB, RegistPropertyCB,
       ClientActive, Lock, Acquire, Release, Goto, server, sessions
<1>5. CASE PollBegin \/ DispatchBegin \/ GetBegin \/ DispatchEnd
  BY <1>5 DEF PollBegin, DispatchBegin, GetBegin, DispatchEnd, Acquire, sessions
<1>6. ASSUME NEW p \in Process, CallFollower(p) PROVE TypeOK'
  BY <1>6 DEF CallFollower, sessions
<1>7. CASE CallbackReturns
  BY <1>7 DEF CallbackReturns, sessions
<1>8. CASE UNCHANGED vars
  BY <1>8 DEF vars, server, sessions
<1> QED
  BY <1>1, <1>2, <1>3, <1>4, <1>5, <1>6, <1>7, <1>8 DEF Next, IotSteps

\* A chain in the client library works in a process, and holds the mutex its
\* place says only if that is the mutex of its own process.
LEMMA InsideProcess ==
  ASSUME ChInv, NEW c \in Chain, pc[c] # "idle"
  PROVE  /\ Where(c) \in Process
         /\ c = Iot => inside = Where(c)
BY ChainFacts DEF ChInv, TypeOK, CallbackInv, Where, Chain

\* Every step keeps what is known of the holders.
LEMMA OwnerStep ==
  ChInv /\ [Next]_vars => ProxyInv' /\ ListInv' /\ ServerInv' /\ CallbackInv'
<1> SUFFICES ASSUME ChInv, [Next]_vars
             PROVE  ProxyInv' /\ ListInv' /\ ServerInv' /\ CallbackInv'
  OBVIOUS
<1> USE MutexFacts, ChainFacts
    DEF ChInv, TypeOK, ProxyInv, ListInv, ServerInv, CallbackInv, HoldingProxy, Where, Chain
<1> DEFINE Goal == ProxyInv' /\ ListInv' /\ ServerInv' /\ CallbackInv'
<1>1. ASSUME NEW c \in Chain, NEW what \in Body, Begin(c, what) PROVE Goal
  BY <1>1 DEF Begin, Goto, Body, Report, server, sessions
<1>2. ASSUME NEW t \in App, ConnService(t) PROVE Goal
  BY <1>2 DEF ConnService, Goto, server, sessions
<1>3. ASSUME NEW c \in Chain, CallSteps(c) PROVE Goal
  <2>1. CASE ReportEvent(c) \/ ReportProperty(c)
    BY <2>1, InsideProcess DEF ReportEvent, ReportProperty, Lock, Acquire, Free, Goto, Body, Report,
         server, sessions
  <2>2. CASE SendEvent(c) \/ SendProperty(c)
    BY <2>2, InsideProcess DEF SendEvent, SendProperty, Release, Return, Goto, sessions
  <2>3. CASE FollowProperty(c) \/ FollowCommand(c)
    BY <2>3, InsideProcess DEF FollowProperty, FollowCommand, Enlist, Return, Goto, sessions
  <2> QED
    BY <1>3, <2>1, <2>2, <2>3 DEF CallSteps
<1>4. ASSUME NEW t \in App, ConnSteps(t) PROVE Goal
  <2>1. CASE Connect(t) \/ PostFollow(t) \/ PostCommands(t) \/ Regist(t)
    BY <2>1 DEF Connect, PostFollow, PostCommands, Regist, Lock, Acquire, Free, Goto,
         server, sessions
  <2>2. CASE CreateClient(t) \/ ClientActive(t) \/ RegistPropertyCB(t)
    BY <2>2 DEF CreateClient, ClientActive, RegistPropertyCB, Release, Goto, server, sessions
  <2>3. CASE AddFollowing(t) \/ RegistCommandCB(t)
    BY <2>3 DEF AddFollowing, RegistCommandCB, Goto, server, sessions
  <2>4. CASE AddProperty(t) \/ AddCommand(t)
    BY <2>4 DEF AddProperty, AddCommand, Release, Goto, server, sessions
  <2> QED
    BY <1>4, <2>1, <2>2, <2>3, <2>4 DEF ConnSteps
<1>5. CASE PollBegin \/ DispatchBegin \/ GetBegin \/ DispatchEnd
  BY <1>5 DEF PollBegin, DispatchBegin, GetBegin, DispatchEnd, Acquire, Free, sessions
<1>6. ASSUME NEW p \in Process, CallFollower(p) PROVE Goal
  BY <1>6 DEF CallFollower, sessions
<1>7. CASE CallbackReturns
  BY <1>7 DEF CallbackReturns, sessions
<1>8. CASE UNCHANGED vars
  BY <1>8 DEF vars, server, sessions
<1> QED
  BY <1>1, <1>2, <1>3, <1>4, <1>5, <1>6, <1>7, <1>8 DEF Next, IotSteps

\* The inductive invariant.
THEOREM ChainsInvariant == Spec => []ChInv
<1>1. Init => ChInv
  BY InitChInv
<1>2. ChInv /\ [Next]_vars => ChInv'
  BY TypeStep, OwnerStep DEF ChInv
<1> QED
  BY <1>1, <1>2, PTL DEF Spec

\* Every variable stays in its range.
THEOREM ChainsTypeCorrect == Spec => []TypeOK
<1>1. ChInv => TypeOK
  BY DEF ChInv
<1> QED
  BY <1>1, ChainsInvariant, PTL

-----------------------------------------------------------------------------
\* An application thread that holds a mutex others wait for can itself be
\* waiting only for a mutex of the server, which the IOT thread holds.
LEMMA HolderWaitsForIot ==
  ASSUME ChInv, NEW c \in Chain, NEW l \in Needs(c), owner[l] \in App,
         NEW m \in Needs(owner[l]), owner[m] \in Chain
  PROVE  /\ owner[m] = Iot
         /\ ProcessOf[owner[l]] = Where(c)
         /\ \/ /\ l = Proxy(Where(c))
               /\ \/ pc[owner[l]] \in {"createClient", "clientActive"}
                  \/ pc[owner[l]] = "sendProperty" /\ iot \in {"poll", "get"}
            \/ /\ l = PropertyList(Where(c))
               /\ pc[owner[l]] \in {"addFollowing", "addProperty"}
            \/ l = CommandList(Where(c)) /\ pc[owner[l]] = "addCommand"
<1> DEFINE d == owner[l]
<1> USE MutexFacts, ChainFacts DEF ChInv, ServerInv
<1>1. l \notin {Attrs, Clis}
  OBVIOUS
<1>2. pc[c] # "idle" /\ Where(c) \in Process
  <2>1. pc[c] # "idle"
    BY <1>1 DEF Needs, Report
  <2> QED
    BY <2>1, InsideProcess
<1>3. l \in {Proxy(Where(c)), PropertyList(Where(c)), CommandList(Where(c))}
  BY <1>1 DEF Needs, Report
<1>4. CASE l = Proxy(Where(c))
  <2>1. pc[d] \in HoldingProxy /\ Where(d) = Where(c)
    BY <1>2, <1>4 DEF ProxyInv
  <2>2. /\ m \in {Attrs, Clis}
        /\ pc[d] \in {"sendProperty", "createClient", "clientActive"}
        /\ m = Attrs => pc[d] = "sendProperty"
    BY <2>1 DEF Needs, HoldingProxy, Report
  <2>3. Where(d) = ProcessOf[d]
    BY DEF Where
  <2>4. owner[m] = Iot /\ (m = Attrs => iot \in {"poll", "get"})
    BY <2>2
  <2>5. m = Clis => pc[d] \in {"createClient", "clientActive"}
    BY <2>1 DEF Needs, HoldingProxy, Report
  <2> QED
    BY <1>4, <2>1, <2>2, <2>3, <2>4, <2>5
<1>5. CASE l = PropertyList(Where(c))
  <2>1. pc[d] \in {"addFollowing", "addProperty"} /\ ProcessOf[d] = Where(c)
    BY <1>2, <1>5 DEF ListInv
  <2>2. m \in {Attrs, Clis}
    BY <2>1 DEF Needs, Report
  <2> QED
    BY <1>5, <2>1, <2>2
<1>6. CASE l = CommandList(Where(c))
  <2>1. pc[d] = "addCommand" /\ ProcessOf[d] = Where(c)
    BY <1>2, <1>6 DEF ListInv
  <2>2. m = Clis
    BY <2>1 DEF Needs, Report
  <2> QED
    BY <1>6, <2>1, <2>2
<1> QED
  BY <1>3, <1>4, <1>5, <1>6

\* The invariant gives the shape of every circular wait.
LEMMA CircleShape ==
  ASSUME ChInv, NEW S \in SUBSET Chain, CircularWait(S)
  PROVE  /\ Iot \in S
         /\ inside # None
         /\ \/ iot = "get" /\ pc[Iot] = "sendProperty"
            \/ HeldByOwnProcess(S)
<1> USE MutexFacts, ChainFacts DEF ChInv
<1>1. Iot \in S
  <2>1. PICK c \in S : \E l \in Needs(c) : owner[l] \in S
    BY DEF CircularWait
  <2>2. PICK l \in Needs(c) : owner[l] \in S
    BY <2>1
  <2>3. CASE owner[l] \in App
    <3>1. PICK m \in Needs(owner[l]) : owner[m] \in S
      BY <2>2 DEF CircularWait
    <3>2. c \in Chain /\ owner[m] \in Chain
      BY <3>1
    <3>3. owner[m] = Iot
      BY <2>3, <3>1, <3>2, HolderWaitsForIot
    <3> QED
      BY <3>1, <3>3
  <2> QED
    BY <2>2, <2>3 DEF Chain
<1>2. PICK l \in Needs(Iot) : owner[l] \in S
  BY <1>1 DEF CircularWait
<1>3. pc[Iot] # "idle"
  <2>1. CASE pc[Iot] = "idle"
    <3>1. iot = "poll" /\ l = Clis
      BY <2>1, <1>2 DEF Needs, Report
    <3>2. owner[l] = None
      BY <3>1 DEF ServerInv
    <3> QED
      BY <3>2, <1>2
  <2> QED
    BY <2>1
<1>4. /\ inside # None
      /\ iot \in {"get", "dispatch"}
      /\ pc[Iot] \in Body \cup {"sendEvent", "sendProperty"}
  BY <1>3 DEF CallbackInv
<1>5. CASE owner[l] = Iot
  <2>1. l \notin {Proxy(Where(Iot)), PropertyList(Where(Iot)), CommandList(Where(Iot))}
    <3>1. Where(Iot) \in Process
      BY <1>3, InsideProcess
    <3>2. l = Proxy(Where(Iot)) => pc[Iot] \in Report
      BY <1>2, <1>4, <3>1 DEF Needs, Body, Report
    <3> QED
      BY <1>5, <3>1, <3>2 DEF ProxyInv, ListInv, HoldingProxy, Report
  <2>2. pc[Iot] = "sendProperty" /\ l = Attrs
    BY <1>2, <1>4, <2>1 DEF Needs, Body, Report
  <2> QED
    BY <1>1, <1>4, <1>5, <2>2 DEF ServerInv
<1>6. CASE owner[l] \in App
  <2>1. PICK m \in Needs(owner[l]) : owner[m] \in S
    BY <1>2 DEF CircularWait
  <2>2. owner[m] \in Chain
    BY <2>1
  <2>3. /\ ProcessOf[owner[l]] = inside
        /\ \/ /\ l = Proxy(inside)
              /\ \/ pc[owner[l]] \in {"createClient", "clientActive"}
                 \/ pc[owner[l]] = "sendProperty" /\ iot = "get"
           \/ /\ l = PropertyList(inside)
              /\ pc[owner[l]] \in {"addFollowing", "addProperty"}
           \/ l = CommandList(inside) /\ pc[owner[l]] = "addCommand"
    BY <1>2, <1>4, <1>6, <2>1, <2>2, HolderWaitsForIot DEF Where
  <2>4. /\ l = Proxy(inside) => pc[Iot] \in Report
        /\ l = PropertyList(inside) => pc[Iot] = "followProperty"
        /\ l = CommandList(inside) => pc[Iot] = "followCommand"
    <3>1. inside \in Process /\ Where(Iot) = inside
      BY <1>3, InsideProcess
    <3> QED
      BY <1>2, <1>4, <3>1 DEF Needs, Body, Report
  <2> QED
    BY <1>1, <1>2, <1>4, <1>6, <2>3, <2>4 DEF HeldByOwnProcess
<1> QED
  BY <1>1, <1>2, <1>4, <1>5, <1>6 DEF Chain

\* Every circle of waiting calls goes through a callback that calls back.
THEOREM CirclesNeedCallbacks == Spec => []CircularWaitNeedsCallback
<1>1. ChInv => CircularWaitNeedsCallback
  BY CircleShape DEF CircularWaitNeedsCallback
<1> QED
  BY <1>1, ChainsInvariant, PTL

\* Callbacks that only answer cannot deadlock.
THEOREM LeafCallbacks == Spec => []LeafCallbacksSafe
<1>1. ChInv => LeafCallbacksSafe
  <2> SUFFICES ASSUME ChInv, style = {}, NEW S \in SUBSET Chain, CircularWait(S)
               PROVE  FALSE
    BY DEF LeafCallbacksSafe
  <2>1. pc[Iot] = "idle"
    BY DEF ChInv, CallbackInv
  <2> QED
    BY <2>1, CircleShape DEF HeldByOwnProcess, Report
<1> QED
  BY <1>1, ChainsInvariant, PTL
=============================================================================
