------------------------------ MODULE CallChains ------------------------------
(***************************************************************************)
(* The mutexes a chain of calls holds across processes, between the threads*)
(* of the applications and the IOT thread of iot_server.                   *)
(*                                                                         *)
(* A thread that calls another process waits for the answer, and binder    *)
(* gives a call that comes back to the thread that waits: a callback of an *)
(* application that calls iot_server again runs on the IOT thread itself,  *)
(* and the mutexes are not recursive.  So the chain, not the thread, is    *)
(* what owns a mutex.                                                      *)
(*                                                                         *)
(* A mutex taken and released with no other mutex and no call in between   *)
(* is one step that needs it free (addFollowing, clientActive,             *)
(* doReportProperty, ...); the others are acquired in one step and         *)
(* released in a later one.  pushProperties and binderDied take one mutex  *)
(* for one such step while they hold none, and are left out.  One property *)
(* and one command stand for the lists, one attribute for a polling round; *)
(* the sessions of a process are not told apart.                           *)
(***************************************************************************)
EXTENDS FiniteSets

CONSTANTS
  Process,    \* the application processes
  App,        \* their threads
  ProcessOf,  \* the process of each thread
  Iot,        \* the IOT thread and whatever it calls
  None        \* no process; no owner

Chain == App \cup {Iot}

\* What an application may call in a callback before it returns; connService
\* would find m_proxy set.
Report == {"reportEvent", "reportProperty"}
Body == Report \cup {"followProperty", "followCommand"}

ASSUME ChainsAssumption ==
  /\ ProcessOf \in [App -> Process]
  /\ Iot \notin App
  /\ None \notin Process \cup Chain

VARIABLES
  style,      \* what callbacks do in this behaviour, a subset of Body
  pc,         \* where each chain is in the client library and beyond it
  iot,        \* what the IOT thread is doing in the server
  todo,       \* the processes the dispatch has still to call
  inside,     \* the process whose callback the IOT thread is in
  owner,      \* the chain that holds each mutex, or None
  m_proxy,    \* the processes whose m_proxy is not NULL
  m_command, m_property  \* the processes that have registered the callback

server == <<iot, todo, inside>>
sessions == <<m_proxy, m_command, m_property>>
vars == <<style, pc, server, owner, sessions>>

Attrs == <<"m_lockAttrs", None>>
Clis == <<"m_lockClis", None>>
Proxy(p) == <<"m_lockProxy", p>>
PropertyList(p) == <<"m_lockPropertyList", p>>
CommandList(p) == <<"m_lockCommandList", p>>

Mutex == {Attrs, Clis} \cup
         ({"m_lockProxy", "m_lockPropertyList", "m_lockCommandList"} \X Process)

CallState == Body \cup
             {"idle", "sendEvent", "sendProperty", "connect", "createClient", "post",
              "addFollowing", "addProperty", "postCommands", "addCommand", "regist",
              "registCommandCB", "registPropertyCB", "clientActive"}

Init ==
  /\ style \in SUBSET Body
  /\ pc = [c \in Chain |-> "idle"]
  /\ iot = "yield"
  /\ todo = {}
  /\ inside = None
  /\ owner = [l \in Mutex |-> None]
  /\ m_proxy = {} /\ m_command = {} /\ m_property = {}

-----------------------------------------------------------------------------
(* Helpers.                                                                *)

\* The process in which a chain runs: a callback runs in the client's.
Where(c) == IF c = Iot THEN inside ELSE ProcessOf[c]

Free(l) == owner[l] = None

\* A mutex that belonged to the process, not to the chain.
AcquireByProcess(l, c) == Free(l) /\ owner' = [owner EXCEPT ![l] = Where(c)]

Acquire(l, c) == Free(l) /\ owner' = [owner EXCEPT ![l] = c]
Release(l) == owner' = [owner EXCEPT ![l] = None]
Goto(c, s) == pc' = [pc EXCEPT ![c] = s]

\* The mutex l is acquired, on the way from state from to state to.
Lock(c, from, l, to) ==
  /\ pc[c] = from
  /\ Acquire(l, c)
  /\ Goto(c, to)
  /\ UNCHANGED <<style, server, sessions>>

\* A call of the client library has returned to the application; a callback
\* that called back has nothing more to do and returns to the server.
Return(c) ==
  /\ Goto(c, "idle")
  /\ inside' = IF c = Iot THEN None ELSE inside

-----------------------------------------------------------------------------
(* Reports and follows, on a thread of the application or in a callback.   *)

\* reportEvent and reportProperty past the test of m_proxy, or a follow.
Begin(c, what) ==
  /\ pc[c] = "idle"
  /\ c = Iot => inside # None /\ what \in style
  /\ what \in Report => Where(c) \in m_proxy
  /\ Goto(c, what)
  /\ UNCHANGED <<style, server, owner, sessions>>

ReportEvent(c) == Lock(c, "reportEvent", Proxy(Where(c)), "sendEvent")
ReportProperty(c) == Lock(c, "reportProperty", Proxy(Where(c)), "sendProperty")

\* doReportEvent takes no mutex; m_lockProxy is released when it is back.
SendEvent(c) ==
  /\ pc[c] = "sendEvent"
  /\ Release(Proxy(Where(c)))
  /\ Return(c)
  /\ UNCHANGED <<style, iot, todo, sessions>>

\* doReportProperty takes m_lockAttrs for a step, under m_lockProxy.
SendProperty(c) ==
  /\ pc[c] = "sendProperty"
  /\ Free(Attrs)
  /\ Release(Proxy(Where(c)))
  /\ Return(c)
  /\ UNCHANGED <<style, iot, todo, sessions>>

\* followProperty and followCommand of the library: the list, under its mutex.
Enlist(c, what, l) ==
  /\ pc[c] = what
  /\ Free(l)
  /\ Return(c)
  /\ UNCHANGED <<style, iot, todo, owner, sessions>>

FollowProperty(c) == Enlist(c, "followProperty", PropertyList(Where(c)))
FollowCommand(c) == Enlist(c, "followCommand", CommandList(Where(c)))

-----------------------------------------------------------------------------
(* connService, on a thread of the application.                            *)

ConnService(t) ==
  /\ pc[t] = "idle"
  /\ ProcessOf[t] \notin m_proxy
  /\ Goto(t, "connect")
  /\ UNCHANGED <<style, server, owner, sessions>>

Connect(t) == Lock(t, "connect", Proxy(ProcessOf[t]), "createClient")

\* createClient at the server takes m_lockClis for a step, under m_lockProxy.
CreateClient(t) ==
  /\ pc[t] = "createClient"
  /\ Free(Clis)
  /\ m_proxy' = m_proxy \cup {ProcessOf[t]}
  /\ Release(Proxy(ProcessOf[t]))
  /\ Goto(t, "post")
  /\ UNCHANGED <<style, server, m_command, m_property>>

PostFollow(t) == Lock(t, "post", PropertyList(ProcessOf[t]), "addFollowing")

AddFollowingNested(t) ==
  /\ pc[t] = "addFollowing"
  /\ Acquire(Clis, t)
  /\ Goto(t, "addProperty")
  /\ UNCHANGED <<style, server, sessions>>

\* IOTClient::followProperty takes m_lockClis, releases it ...
AddFollowing(t) ==
  /\ pc[t] = "addFollowing"
  /\ Free(Clis)
  /\ Goto(t, "addProperty")
  /\ UNCHANGED <<style, server, owner, sessions>>

\* ... and takes m_lockAttrs; m_lockPropertyList is released at the end.
AddProperty(t) ==
  /\ pc[t] = "addProperty"
  /\ Free(Attrs)
  /\ Release(PropertyList(ProcessOf[t]))
  /\ Goto(t, "postCommands")
  /\ UNCHANGED <<style, server, sessions>>

PostCommands(t) == Lock(t, "postCommands", CommandList(ProcessOf[t]), "addCommand")

\* IOTClient::followCommand takes m_lockClis, under m_lockCommandList.
AddCommand(t) ==
  /\ pc[t] = "addCommand"
  /\ Free(Clis)
  /\ Release(CommandList(ProcessOf[t]))
  /\ Goto(t, "regist")
  /\ UNCHANGED <<style, server, sessions>>

Regist(t) == Lock(t, "regist", Proxy(ProcessOf[t]), "registCommandCB")

\* registCommandCB takes no mutex of the server.
RegistCommandCB(t) ==
  /\ pc[t] = "registCommandCB"
  /\ m_command' = m_command \cup {ProcessOf[t]}
  /\ Goto(t, "registPropertyCB")
  /\ UNCHANGED <<style, server, owner, m_proxy, m_property>>

RegistPropertyCBLeavingLock(t) ==
  /\ pc[t] = "registPropertyCB"
  /\ m_property' = m_property \cup {ProcessOf[t]}
  /\ \/ Goto(t, "clientActive")
     \/ ProcessOf[t] \in m_property /\ Goto(t, "idle")
  /\ UNCHANGED <<style, server, owner, m_proxy, m_command>>

\* registPropertyCB stores the callback, then clientActive; on a session that
\* has its callback already it returns at once.
RegistPropertyCB(t) ==
  /\ pc[t] = "registPropertyCB"
  /\ m_property' = m_property \cup {ProcessOf[t]}
  /\ \/ Goto(t, "clientActive") /\ UNCHANGED owner
     \/ /\ ProcessOf[t] \in m_property
        /\ Goto(t, "idle")
        /\ Release(Proxy(ProcessOf[t]))
  /\ UNCHANGED <<style, server, m_proxy, m_command>>

\* clientActive takes m_lockClis for a step, under the client's m_lockProxy.
ClientActive(t) ==
  /\ pc[t] = "clientActive"
  /\ Free(Clis)
  /\ Release(Proxy(ProcessOf[t]))
  /\ Goto(t, "idle")
  /\ UNCHANGED <<style, server, sessions>>

-----------------------------------------------------------------------------
(* The IOT thread.                                                         *)

\* updateProperties takes m_lockAttrs for the whole round ...
PollBegin ==
  /\ iot = "yield"
  /\ Acquire(Attrs, Iot)
  /\ iot' = "poll"
  /\ UNCHANGED <<style, pc, todo, inside, sessions>>

\* ... and callPropertyGet m_lockClis inside it, over all the get callbacks.
GetBegin ==
  /\ iot = "poll"
  /\ Acquire(Clis, Iot)
  /\ iot' = "get"
  /\ todo' = m_property
  /\ UNCHANGED <<style, pc, inside, sessions>>

\* callCommandCB and callPropertySet, from inside IOT_Shadow_Yield, hold
\* m_lockClis only.
DispatchBegin ==
  /\ iot = "yield"
  /\ Acquire(Clis, Iot)
  /\ iot' = "dispatch"
  /\ todo' \in {m_command, m_property}
  /\ UNCHANGED <<style, pc, inside, sessions>>

\* The call into the application of process p ...
CallFollower(p) ==
  /\ p \in todo
  /\ inside = None
  /\ inside' = p
  /\ todo' = todo \ {p}
  /\ UNCHANGED <<style, pc, iot, owner, sessions>>

\* ... which answers.
CallbackReturns ==
  /\ inside # None
  /\ pc[Iot] = "idle"
  /\ inside' = None
  /\ UNCHANGED <<style, pc, iot, todo, owner, sessions>>

\* The loop is over: the mutexes of the round are released.
DispatchEnd ==
  /\ iot \in {"get", "dispatch"}
  /\ todo = {}
  /\ inside = None
  /\ iot' = "yield"
  /\ owner' = [owner EXCEPT ![Clis] = None,
                            ![Attrs] = IF iot = "get" THEN None ELSE @]
  /\ UNCHANGED <<style, pc, todo, inside, sessions>>

-----------------------------------------------------------------------------
CallSteps(c) ==
  \/ ReportEvent(c) \/ ReportProperty(c)
  \/ SendEvent(c) \/ SendProperty(c)
  \/ FollowProperty(c) \/ FollowCommand(c)

ConnSteps(t) ==
  \/ Connect(t) \/ CreateClient(t)
  \/ PostFollow(t) \/ AddFollowing(t) \/ AddProperty(t)
  \/ PostCommands(t) \/ AddCommand(t)
  \/ Regist(t) \/ RegistCommandCB(t) \/ RegistPropertyCB(t) \/ ClientActive(t)

IotSteps ==
  \/ GetBegin
  \/ \E p \in Process : CallFollower(p)
  \/ CallbackReturns
  \/ DispatchEnd
  \/ CallSteps(Iot)

Next ==
  \/ \E c \in Chain, what \in Body : Begin(c, what)
  \/ \E t \in App : ConnService(t) \/ CallSteps(t) \/ ConnSteps(t)
  \/ PollBegin
  \/ DispatchBegin
  \/ IotSteps

Spec == Init /\ [][Next]_vars

(* Fairness.  A thread that can go on does, and a thread that waits for a   *)
(* mutex gets it if it is free again and again: its holders make a few      *)
(* calls each and the IOT thread sleeps in IOT_Shadow_Yield between rounds. *)
(* Nobody has to begin anything.                                            *)
Fairness ==
  /\ \A t \in App : SF_vars(CallSteps(t) \/ ConnSteps(t))
  /\ SF_vars(IotSteps)

FairSpec == Spec /\ Fairness

-----------------------------------------------------------------------------
(* Properties.                                                             *)

\* Every variable stays in its range.
TypeOK ==
  /\ style \subseteq Body
  /\ pc \in [Chain -> CallState]
  /\ iot \in {"yield", "poll", "get", "dispatch"}
  /\ todo \subseteq Process
  /\ inside \in Process \cup {None}
  /\ owner \in [Mutex -> Chain \cup {None}]
  /\ m_proxy \subseteq Process
  /\ m_command \subseteq Process
  /\ m_property \subseteq Process

\* The mutexes without which a chain cannot go on.
Needs(c) ==
  (IF pc[c] \in Report \cup {"connect", "regist"}
     THEN {Proxy(Where(c))} ELSE {}) \cup
  (IF pc[c] \in {"followProperty", "post"} THEN {PropertyList(Where(c))} ELSE {}) \cup
  (IF pc[c] \in {"followCommand", "postCommands"} THEN {CommandList(Where(c))} ELSE {}) \cup
  (IF pc[c] \in {"sendProperty", "addProperty"} THEN {Attrs} ELSE {}) \cup
  (IF pc[c] \in {"createClient", "addFollowing", "addCommand", "clientActive"} \/
      (c = Iot /\ iot = "poll")
     THEN {Clis} ELSE {})

CircularWait(S) == S # {} /\ \A c \in S : \E l \in Needs(c) : owner[l] \in S

\* A thread of the process the callback is in holds the mutex the callback
\* wants, and waits for one the IOT thread holds.
HeldByOwnProcess(S) ==
  \E t \in S \cap App :
    /\ ProcessOf[t] = inside
    /\ \/ pc[Iot] = "followProperty" /\ pc[t] \in {"addFollowing", "addProperty"}
       \/ pc[Iot] = "followCommand" /\ pc[t] = "addCommand"
       \/ /\ pc[Iot] \in Report
          /\ \/ pc[t] \in {"createClient", "clientActive"}
             \/ pc[t] = "sendProperty" /\ iot = "get"

\* The ways in which calls can wait for each other in a circle: a callback
\* that calls back is always one of them, and it either reports a property
\* while it is polled, or meets a thread of its own process that connects
\* or, during a poll, reports.  Applications never block each other.
CircularWaitNeedsCallback ==
  \A S \in SUBSET Chain :
    CircularWait(S) =>
      /\ Iot \in S
      /\ inside # None
      /\ \/ iot = "get" /\ pc[Iot] = "sendProperty"
         \/ HeldByOwnProcess(S)

\* Callbacks that only answer cannot deadlock, whatever the threads do.
LeafCallbacksSafe == style = {} => \A S \in SUBSET Chain : ~CircularWait(S)

Deadlocked == \E S \in SUBSET Chain : CircularWait(S)

\* Every call and every dispatch returns unless there is a circular wait: no
\* mutex is left locked, and none is waited for for ever otherwise.
CallsReturn ==
  /\ \A t \in App : pc[t] # "idle" ~> pc[t] = "idle" \/ Deadlocked
  /\ iot # "yield" ~> iot = "yield" \/ Deadlocked
=============================================================================
