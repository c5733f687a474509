---------------------------- MODULE IOTClientJNI ----------------------------
(***************************************************************************)
(* The client library of one application process                           *)
(* (jni/client/IOT_ClientJNI.cpp): it waits for iot_server, opens a        *)
(* session, posts what the application follows, registers the callbacks,   *)
(* and does it again when the server has died and init has restarted it.   *)
(*                                                                         *)
(* connService runs on the application's threads and, from serviceDied, on *)
(* a binder thread.  One step per call into the server and per unlocked    *)
(* access of m_proxy and m_listen.  m_lockPropertyList, m_lockCommandList  *)
(* and m_lockProxy are held exactly in the states "postKeys", "postCmds"   *)
(* and "registProperty"; every other critical section is one step.         *)
(* serviceDied clears m_proxy and m_listen twice each, without a lock; a   *)
(* call through a null pointer ends the process.  A clear that tears an    *)
(* sp<> another thread is copying is not modelled.                         *)
(*                                                                         *)
(* The server is external: an incarnation boots, answers CONNECTED, dies.  *)
(***************************************************************************)
EXTENDS Naturals, FiniteSets

CONSTANTS
  Key,          \* names of properties
  Cmd,          \* names of commands
  App,          \* threads of the application
  Binder,       \* binder threads of the process, which run serviceDied
  Session,      \* the IOTClient objects createClient may return
  NULL,         \* no session
  MaxRestarts,  \* bound on the deaths of the server
  MayRefuse     \* whether createClient may find the registry full

Thread == App \cup Binder
Topic == Key \cup Cmd

ASSUME ClientAssumption ==
  /\ Key \cap Cmd = {}
  /\ App \cap Binder = {}
  /\ NULL \notin Session
  /\ MaxRestarts \in Nat
  /\ MayRefuse \in BOOLEAN

VARIABLES
  m_propertyList, m_commandList,  \* what the application follows
  m_proxy,    \* the session in use, or NULL
  m_listen,   \* whether there is a DeathObserver
  linked,     \* the incarnations whose death it is to be told of
  pc,         \* where each thread is
  service,    \* the incarnation behind each thread's IIOTService handle, or 0
  todo,       \* what each thread has still to post
  crashed,    \* the process has called through a null m_proxy
  server, up, \* the incarnation of iot_server and its state
  host,       \* the incarnation each session was created at, 0 before
  followed,   \* the pairs of a session and a topic it follows at the server, and
  active,     \* the sessions whose property callback is registered: what has been
              \* done since createClient was last called
  listed,     \* history: what the lists held when the session in use was created
  reported,   \* history: the incarnations whose death serviceDied was told of
              \* since m_proxy was last assigned
  gaveUp      \* history: a binder thread has given up, and there was no report
              \* of a death and no new session since

lists == <<m_propertyList, m_commandList>>
observer == <<m_listen, linked, reported, gaveUp>>
local == <<pc, service, todo>>
remote == <<host, followed, active, listed>>
vars == <<lists, m_proxy, observer, local, crashed, server, up, remote>>

Posting == {"post", "postKeys", "postCmds", "registCommand", "registProperty"}

\* The four assignments of serviceDied, each to be made.
Dying == {"clearProxy", "clearListen", "nullProxy", "nullListen"}
ThreadState ==
  {"idle", "connect", "get", "poll", "observe", "link", "create", "report"} \cup Posting \cup Dying

Init ==
  /\ m_propertyList = {} /\ m_commandList = {}
  /\ m_proxy = NULL
  /\ m_listen = FALSE /\ linked = {}
  /\ pc = [t \in Thread |-> "idle"]
  /\ service = [t \in Thread |-> 0]
  /\ todo = [t \in Thread |-> {}]
  /\ crashed = FALSE
  /\ server = 1 /\ up = "booting"
  /\ host = [s \in Session |-> 0]
  /\ followed = {} /\ active = {}
  /\ listed = {}
  /\ reported = {} /\ gaveUp = FALSE

-----------------------------------------------------------------------------
(* Helpers.                                                                *)

Goto(t, s) == pc' = [pc EXCEPT ![t] = s]

\* The incarnation i is the one that runs.
Runs(i) == i = server /\ up # "down"
Alive(s) == s # NULL /\ Runs(host[s])

SameAgain == CHOOSE s \in Session : TRUE

\* A session that does not exist yet; which one does not matter.
Fresh == CHOOSE s \in Session : host[s] = 0

\* The mutex held in state s can be taken.
Free(s) == \A t \in Thread : pc[t] # s

\* A use of a null pointer.
Crash ==
  /\ crashed' = TRUE
  /\ UNCHANGED <<lists, m_proxy, observer, local, server, up, remote>>

\* A call through a null m_proxy.
NullCall(t) == m_proxy = NULL /\ Crash

\* Thread t has no session to show for its connService.
GivesUp(t) == gaveUp' = (gaveUp \/ t \in Binder)

-----------------------------------------------------------------------------
(* What the application calls.                                             *)

\* followProperty only adds to the list: a session that is open already does
\* not learn of it.
FollowProperty(k) ==
  /\ Free("postKeys")
  /\ k \notin m_propertyList
  /\ m_propertyList' = m_propertyList \cup {k}
  /\ UNCHANGED <<m_commandList, m_proxy, observer, local, crashed, server, up, remote>>

FollowCommand(k) ==
  /\ Free("postCmds")
  /\ k \notin m_commandList
  /\ m_commandList' = m_commandList \cup {k}
  /\ UNCHANGED <<m_propertyList, m_proxy, observer, local, crashed, server, up, remote>>

\* reportEvent and reportProperty: the test of m_proxy, without the mutex ...
ReportCheck(t) ==
  /\ pc[t] = "idle"
  /\ m_proxy # NULL
  /\ Goto(t, "report")
  /\ UNCHANGED <<lists, m_proxy, observer, service, todo, crashed, server, up, remote>>

\* ... and the call, under m_lockProxy.
ReportCall(t) ==
  /\ pc[t] = "report"
  /\ Free("registProperty")
  /\ \/ NullCall(t)
     \/ /\ m_proxy # NULL
        /\ Goto(t, "idle")
        /\ UNCHANGED <<lists, m_proxy, observer, service, todo, crashed, server, up, remote>>

\* connService: called with a session in use, it returns at once.
ConnService(t) ==
  /\ pc[t] = "idle"
  /\ m_proxy = NULL
  /\ Goto(t, "get")
  /\ UNCHANGED <<lists, m_proxy, observer, service, todo, crashed, server, up, remote>>

-----------------------------------------------------------------------------
(* connService, on any thread; the test of m_proxy is without the mutex.   *)

\* The test when serviceDied has called it.
TestProxy(t) ==
  /\ pc[t] = "connect"
  /\ Goto(t, IF m_proxy = NULL THEN "get" ELSE "idle")
  /\ UNCHANGED <<lists, m_proxy, observer, service, todo, crashed, server, up, remote>>

\* getService, once: the handle is kept for all later tries.
GetService(t) ==
  /\ pc[t] = "get"
  /\ up # "down"
  /\ service' = [service EXCEPT ![t] = server]
  /\ Goto(t, "poll")
  /\ UNCHANGED <<lists, m_proxy, observer, todo, crashed, server, up, remote>>

\* getServiceStatus answers CONNECTED; a dead handle never does.
StatusConnected(t) ==
  /\ pc[t] = "poll"
  /\ service[t] = server /\ up = "connected"
  /\ Goto(t, "observe")
  /\ UNCHANGED <<lists, m_proxy, observer, service, todo, crashed, server, up, remote>>

\* The last try fails: on a dead handle, or because the server is not there or
\* has not got as far as CONNECTED.
OutOfTries(t) ==
  /\ pc[t] \in {"get", "poll"}
  /\ up = "connected" => pc[t] = "poll" /\ service[t] # server
  /\ Goto(t, "idle")
  /\ service' = [service EXCEPT ![t] = 0]
  /\ GivesUp(t)
  /\ UNCHANGED <<lists, m_proxy, m_listen, linked, reported, todo, crashed, server, up, remote>>

\* A new DeathObserver replaces the one m_listen kept alive ...
NewObserver(t) ==
  /\ pc[t] = "observe"
  /\ m_listen' = TRUE /\ linked' = {}
  /\ Goto(t, "link")
  /\ UNCHANGED <<lists, m_proxy, reported, gaveUp, service, todo, crashed, server, up, remote>>

\* ... and whatever m_listen is by then is linked to the handle's process;
\* linkToDeath may fail on one that is dead, and the result is not looked at.
LinkToDeath(t) ==
  /\ pc[t] = "link"
  /\ \/ ~m_listen /\ Crash
     \/ /\ m_listen
        /\ \/ linked' = linked \cup {service[t]}
           \/ ~Runs(service[t]) /\ UNCHANGED linked
        /\ Goto(t, "create")
        /\ UNCHANGED <<lists, m_proxy, m_listen, reported, gaveUp, service, todo, crashed,
                       server, up, remote>>

\* createClient under m_lockProxy: a new session, or NULL from a dead server
\* and from a full registry.  The handle, a local of _connect, is gone then.
CreateClient(t) ==
  /\ pc[t] = "create"
  /\ Free("registProperty")
  /\ \/ /\ Runs(service[t])
        /\ \E s \in Session : host[s] = 0
        /\ host' = [host EXCEPT ![Fresh] = server]
        /\ listed' = m_propertyList \cup m_commandList
        /\ m_proxy' = Fresh
        /\ gaveUp' = FALSE
        /\ Goto(t, "post")
     \/ /\ MayRefuse \/ ~Runs(service[t])
        /\ m_proxy' = NULL
        /\ GivesUp(t)
        /\ Goto(t, "idle")
        /\ listed' = {}
        /\ UNCHANGED host
  /\ service' = [service EXCEPT ![t] = 0]
  /\ reported' = {} /\ followed' = {} /\ active' = {}
  /\ UNCHANGED <<lists, m_listen, linked, todo, crashed, server, up>>

-----------------------------------------------------------------------------
(* _postFollow.                                                            *)

\* The test of m_proxy, without the mutex, then m_lockPropertyList.
PostFollow(t) ==
  /\ pc[t] = "post"
  /\ \/ /\ m_proxy = NULL
        /\ Goto(t, "idle")
        /\ UNCHANGED todo
     \/ /\ m_proxy # NULL
        /\ Free("postKeys")
        /\ Goto(t, "postKeys")
        /\ todo' = [todo EXCEPT ![t] = m_propertyList]
  /\ UNCHANGED <<lists, m_proxy, observer, service, crashed, server, up, remote>>

\* followProperty or followCommand at the server, for one element; an error
\* is only logged.
Follow(t, k) ==
  \/ NullCall(t)
  \/ /\ m_proxy # NULL
     /\ todo' = [todo EXCEPT ![t] = @ \ {k}]
     /\ followed' = IF Alive(m_proxy) THEN followed \cup {<<m_proxy, k>>} ELSE followed
     /\ UNCHANGED <<lists, m_proxy, observer, pc, service, crashed, server, up, host,
                    active, listed>>

PostKey(t, k) ==
  /\ pc[t] = "postKeys"
  /\ k \in todo[t]
  /\ Follow(t, k)

PostCommandsEarly(t) ==
  /\ pc[t] = "postKeys"
  /\ Free("postCmds")
  /\ Goto(t, "postCmds")
  /\ todo' = [todo EXCEPT ![t] = m_commandList]
  /\ UNCHANGED <<lists, m_proxy, observer, service, crashed, server, up, remote>>

\* From m_lockPropertyList to m_lockCommandList.
PostCommands(t) ==
  /\ pc[t] = "postKeys"
  /\ todo[t] = {}
  /\ Free("postCmds")
  /\ Goto(t, "postCmds")
  /\ todo' = [todo EXCEPT ![t] = m_commandList]
  /\ UNCHANGED <<lists, m_proxy, observer, service, crashed, server, up, remote>>

PostCommand(t, k) ==
  /\ pc[t] = "postCmds"
  /\ k \in todo[t]
  /\ Follow(t, k)

PostEnd(t) ==
  /\ pc[t] = "postCmds"
  /\ todo[t] = {}
  /\ Goto(t, "registCommand")
  /\ UNCHANGED <<lists, m_proxy, observer, service, todo, crashed, server, up, remote>>

\* registCommandCB under m_lockProxy ...
RegistCommandCB(t) ==
  /\ pc[t] = "registCommand"
  /\ Free("registProperty")
  /\ \/ NullCall(t)
     \/ /\ m_proxy # NULL
        /\ Goto(t, "registProperty")
        /\ UNCHANGED <<lists, m_proxy, observer, service, todo, crashed, server, up, remote>>

RegistUnchecked(t) ==
  /\ pc[t] = "registProperty"
  /\ active' = active \cup {m_proxy}
  /\ Goto(t, "idle")
  /\ UNCHANGED <<lists, m_proxy, observer, service, todo, crashed, server, up,
                 host, followed, listed>>

\* ... and registPropertyCB, m_lockProxy still held.
RegistPropertyCB(t) ==
  /\ pc[t] = "registProperty"
  /\ \/ NullCall(t)
     \/ /\ m_proxy # NULL
        /\ active' = IF Alive(m_proxy) THEN active \cup {m_proxy} ELSE active
        /\ Goto(t, "idle")
        /\ UNCHANGED <<lists, m_proxy, observer, service, todo, crashed, server, up,
                       host, followed, listed>>

-----------------------------------------------------------------------------
(* DeathObserver::binderDied -> serviceDied, on a binder thread, without a *)
(* lock; connService follows.                                              *)

BinderDied(t) ==
  /\ pc[t] = "idle"
  /\ \E i \in linked :
       /\ ~Runs(i)
       /\ linked' = linked \ {i}
       /\ reported' = reported \cup {i}
  /\ gaveUp' = FALSE
  /\ Goto(t, "clearProxy")
  /\ UNCHANGED <<lists, m_proxy, m_listen, service, todo, crashed, server, up, remote>>

ClearProxyForgotten(t) ==
  /\ pc[t] \in {"clearProxy", "nullProxy"}
  /\ Goto(t, IF pc[t] = "clearProxy" THEN "clearListen" ELSE "nullListen")
  /\ UNCHANGED <<lists, m_proxy, observer, service, todo, crashed, server, up, remote>>

\* m_proxy.clear(), and later m_proxy = NULL.
ClearProxy(t) ==
  /\ pc[t] \in {"clearProxy", "nullProxy"}
  /\ m_proxy' = NULL /\ reported' = {} /\ listed' = {}
  /\ Goto(t, IF pc[t] = "clearProxy" THEN "clearListen" ELSE "nullListen")
  /\ UNCHANGED <<lists, m_listen, linked, gaveUp, service, todo, crashed, server, up,
                 host, followed, active>>

\* m_listen.clear(), and later m_listen = NULL: an observer another thread has
\* stored meanwhile goes with it, and is told of no death.
ClearListen(t) ==
  /\ pc[t] \in {"clearListen", "nullListen"}
  /\ m_listen' = FALSE /\ linked' = {}
  /\ Goto(t, IF pc[t] = "clearListen" THEN "nullProxy" ELSE "connect")
  /\ UNCHANGED <<lists, m_proxy, reported, gaveUp, service, todo, crashed, server, up, remote>>

ServiceDied(t) == ClearProxy(t) \/ ClearListen(t)

-----------------------------------------------------------------------------
(* iot_server, as the library sees it.                                     *)

\* main has called addService and setupShadow has gone through, if it ever does.
ServerConnected ==
  /\ up = "booting"
  /\ up' = "connected"
  /\ UNCHANGED <<lists, m_proxy, observer, local, crashed, server, remote>>

\* What it knew of its sessions is gone with it.
ServerDies ==
  /\ up # "down"
  /\ server <= MaxRestarts
  /\ up' = "down"
  /\ followed' = {} /\ active' = {}
  /\ listed' = {}
  /\ UNCHANGED <<lists, m_proxy, observer, local, crashed, server, host>>

\* README: init restarts a service that has died.
ServerRestarts ==
  /\ up = "down"
  /\ server' = server + 1
  /\ up' = "booting"
  /\ UNCHANGED <<lists, m_proxy, observer, local, crashed, remote>>

-----------------------------------------------------------------------------
ConnSteps(t) ==
  \/ TestProxy(t)
  \/ GetService(t)
  \/ StatusConnected(t)
  \/ OutOfTries(t)
  \/ NewObserver(t)
  \/ LinkToDeath(t)
  \/ CreateClient(t)
  \/ PostFollow(t)
  \/ \E k \in Key : PostKey(t, k)
  \/ PostCommands(t)
  \/ \E k \in Cmd : PostCommand(t, k)
  \/ PostEnd(t)
  \/ RegistCommandCB(t)
  \/ RegistPropertyCB(t)

AppNext ==
  \/ \E k \in Key : FollowProperty(k)
  \/ \E k \in Cmd : FollowCommand(k)
  \/ \E t \in App : ConnService(t) \/ ReportCheck(t) \/ ReportCall(t)

LibraryNext ==
  \/ AppNext
  \/ \E t \in Thread : ConnSteps(t)
  \/ \E t \in Binder : BinderDied(t) \/ ServiceDied(t)

ServerNext == ServerConnected \/ ServerDies \/ ServerRestarts

\* What the server does when the process has ended is of no interest.
Next == ~crashed /\ (LibraryNext \/ ServerNext)

Spec == Init /\ [][Next]_vars

(* Fairness.  A thread inside connService or serviceDied keeps running and  *)
(* gets the mutex it waits for (they are held for a few calls into the      *)
(* server only, which return, with an error when it is dead); binder reports*)
(* a death that is observed; init restarts the server.  The server need not *)
(* get as far as CONNECTED: setupShadow may fail, or try for ever.          *)
Fairness ==
  /\ \A t \in Thread : SF_vars(~crashed /\ (ConnSteps(t) \/ ServiceDied(t)))
  /\ WF_vars(~crashed /\ \E t \in Binder : BinderDied(t))
  /\ WF_vars(~crashed /\ ServerRestarts)

FairSpec == Spec /\ Fairness

-----------------------------------------------------------------------------
(* Properties.                                                             *)

\* Every variable stays in its range.
TypeOK ==
  /\ m_propertyList \subseteq Key
  /\ m_commandList \subseteq Cmd
  /\ m_proxy \in Session \cup {NULL}
  /\ m_listen \in BOOLEAN
  /\ linked \subseteq Nat
  /\ pc \in [Thread -> ThreadState]
  /\ service \in [Thread -> Nat]
  /\ todo \in [Thread -> SUBSET Topic]
  /\ crashed \in BOOLEAN
  /\ server \in Nat \ {0}
  /\ up \in {"down", "booting", "connected"}
  /\ host \in [Session -> Nat]
  /\ followed \subseteq Session \X Topic
  /\ active \subseteq Session
  /\ listed \subseteq Topic
  /\ reported \subseteq Nat
  /\ gaveUp \in BOOLEAN

\* s, the session in use, follows what it is to follow and gets callbacks.
Complete(s) == {s} \X listed \subseteq followed /\ s \in active

\* When no thread is posting, the session in use follows everything the
\* application had asked for when it was created, and gets callbacks - however
\* many threads connect at once and however often the server dies.
QuietSessionComplete ==
  (\A t \in Thread : pc[t] \notin Posting) /\ Alive(m_proxy) => Complete(m_proxy)

Outlived == m_proxy # NULL /\ ~Alive(m_proxy)

\* The session in use has outlived its server and nobody was or will be told:
\* linkToDeath came too late, another observer has replaced the one that was
\* linked, or a serviceDied of an earlier death has dropped it.
Unobserved == Outlived /\ host[m_proxy] \notin linked \cup reported

\* A death is dealt with: when the session in use has outlived its server, or
\* serviceDied has been told of a death, then a session of a living server is in
\* use again - whatever the threads of the application do meanwhile, and however
\* often they lose that session again - unless serviceDied gives up since its
\* server died or never got CONNECTED, the observer was lost, or the process has
\* used a null pointer.
DeathsDealtWith ==
  Outlived \/ (\E t \in Binder : pc[t] \in Dying)
    ~> crashed \/ Alive(m_proxy) \/ gaveUp \/ Unobserved

-----------------------------------------------------------------------------
(* The library implements a connection.                                    *)

\* The session calls get through to.
Connected == IF Alive(m_proxy) /\ ~crashed THEN m_proxy ELSE NULL

Conn == INSTANCE Connection WITH
  session <- Connected,
  complete <- Connected # NULL /\ Complete(Connected),
  used <- {s \in Session : host[s] # 0}

\* connService and serviceDied, on any threads: a session that gets in use is a
\* new one, and once it follows its lists and has its callbacks it does so as
\* long as it is the one in use and its server lives.
ImplementsConnection == Conn!Spec

\* A session in use does not stay incomplete for ever: whoever posts through it
\* ends doing so, or it is lost or replaced.
SessionsFinish == Conn!Fairness

-----------------------------------------------------------------------------
(* What the sources say and the code does not do.                          *)

\* A binder thread waits for a server that is not there or not CONNECTED yet.
Awaits(t) == pc[t] \in {"get", "poll"} /\ (service[t] # 0 => Runs(service[t])) /\ up # "connected"

\* IOT_ClientJNI.cpp: "iot service die, call serviceDied for reconnect"; null
\* pointers, lost observers and servers that do not connect aside.
Reconnects ==
  Outlived ~> \/ crashed
              \/ Alive(m_proxy)
              \/ Unobserved
              \/ \E t \in Binder : Awaits(t)

\* IOT_ClientJNI.cpp: "must put it after proxy->followxxx()".
CallbacksAfterFollows ==
  m_proxy \in active => {m_proxy} \X listed \subseteq followed
=============================================================================
