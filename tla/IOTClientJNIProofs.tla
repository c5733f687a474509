------------------------- MODULE IOTClientJNIProofs -------------------------
(***************************************************************************)
(* Proofs about the client library: type correctness, and that a session   *)
(* in use that nobody is posting to any more is complete.                  *)
(*                                                                         *)
(* The argument: whoever stored m_proxy posts both lists through it and    *)
(* registers the callbacks.  While m_proxy stays, what that thread has     *)
(* posted and what it has still to post cover the lists as they were when  *)
(* the session was created (PostInv); another thread that stores m_proxy   *)
(* takes the duty over, and a dead incarnation never runs again (HostInv). *)
(***************************************************************************)
EXTENDS IOTClientJNI, TLAPS

\* The topics session s follows at its server.
FollowedBy(s) == {k \in Topic : <<s, k>> \in followed}

\* No session is of an incarnation still to come.
HostInv == \A s \in Session : host[s] <= server

\* The lists only grow.
ListedInv == listed \subseteq m_propertyList \cup m_commandList

\* Thread t is on its way to complete the session s.
OnDuty(t, s) ==
  \/ pc[t] = "post"
  \/ /\ pc[t] = "postKeys"
     /\ listed \cap Key \subseteq todo[t] \cup FollowedBy(s)
  \/ /\ pc[t] = "postCmds"
     /\ listed \subseteq todo[t] \cup FollowedBy(s)
  \/ /\ pc[t] \in {"registCommand", "registProperty"}
     /\ listed \subseteq FollowedBy(s)

Done(s) == listed \subseteq FollowedBy(s) /\ s \in active

PostInv == Alive(m_proxy) => Done(m_proxy) \/ \E t \in Thread : OnDuty(t, m_proxy)

CInv == TypeOK /\ HostInv /\ ListedInv /\ PostInv

-----------------------------------------------------------------------------
LEMMA NullNotSession == NULL \notin Session
BY ClientAssumption DEF ClientAssumption

\* When some session is left, Fresh is one.
LEMMA FreshIsNew ==
  ASSUME NEW s \in Session, host[s] = 0
  PROVE  Fresh \in Session /\ host[Fresh] = 0
BY DEF Fresh

\* The initial states satisfy the invariant.
LEMMA InitCInv == Init => CInv
<1> SUFFICES ASSUME Init PROVE CInv
  OBVIOUS
<1>1. TypeOK
  <2>1. /\ pc \in [Thread -> ThreadState] /\ service \in [Thread -> Nat]
        /\ todo \in [Thread -> SUBSET Topic] /\ host \in [Session -> Nat]
    BY DEF Init, ThreadState
  <2>2. /\ m_propertyList \subseteq Key /\ m_commandList \subseteq Cmd
        /\ followed \subseteq Session \X Topic /\ active \subseteq Session
        /\ listed \subseteq Topic /\ linked \subseteq Nat /\ reported \subseteq Nat
    BY Zenon DEF Init
  <2>3. /\ server \in Nat \ {0}
        /\ m_proxy \in Session \cup {NULL} /\ up \in {"down", "booting", "connected"}
    BY DEF Init
  <2>4. crashed \in BOOLEAN /\ m_listen \in BOOLEAN /\ gaveUp \in BOOLEAN
    BY DEF Init
  <2> QED
    BY <2>1, <2>2, <2>3, <2>4 DEF TypeOK
<1>2. HostInv
  BY DEF Init, HostInv
<1>3. ListedInv
  BY DEF Init, ListedInv
<1>4. PostInv
  BY DEF Init, PostInv, Alive
<1> QED
  BY <1>1, <1>2, <1>3, <1>4 DEF CInv

-----------------------------------------------------------------------------
\* Following one topic at the server keeps the types.
LEMMA FollowType ==
  ASSUME TypeOK, NEW t \in Thread, NEW k \in Topic, Follow(t, k)
  PROVE  TypeOK'
<1>1. CASE NullCall(t)
  BY <1>1 DEF NullCall, Crash, TypeOK, lists, observer, local, remote
<1>2. CASE ~NullCall(t)
  <2>1. /\ m_proxy # NULL
        /\ todo' = [todo EXCEPT ![t] = @ \ {k}]
        /\ followed' = IF Alive(m_proxy) THEN followed \cup {<<m_proxy, k>>} ELSE followed
        /\ UNCHANGED <<lists, m_proxy, observer, pc, service, crashed, server, up, host,
                       active, listed>>
    BY <1>2 DEF Follow
  <2>2. <<m_proxy, k>> \in Session \X Topic
    BY <2>1 DEF TypeOK
  <2>3. followed' \subseteq Session \X Topic
    BY <2>1, <2>2 DEF TypeOK
  <2>4. todo' \in [Thread -> SUBSET Topic]
    BY <2>1 DEF TypeOK
  <2> QED
    BY <2>1, <2>3, <2>4 DEF TypeOK, lists, observer
<1> QED
  BY <1>1, <1>2

\* Every step preserves the type invariant.
LEMMA NextType == TypeOK /\ [Next]_vars => TypeOK'
<1> SUFFICES ASSUME TypeOK, [Next]_vars PROVE TypeOK'
  OBVIOUS
<1> USE DEF TypeOK, ThreadState, Posting, Dying, Goto, lists, observer, local, remote
<1>1. CASE UNCHANGED vars
  BY <1>1 DEF vars
<1>2. CASE ServerNext
  <2>1. CASE ServerConnected
    BY <2>1 DEF ServerConnected
  <2>2. CASE ServerDies
    BY <2>2 DEF ServerDies
  <2>3. CASE ServerRestarts
    BY <2>3 DEF ServerRestarts
  <2> QED
    BY <1>2, <2>1, <2>2, <2>3 DEF ServerNext
<1>3. CASE AppNext
  <2>1. CASE \E k \in Key : FollowProperty(k)
    BY <2>1 DEF FollowProperty
  <2>2. CASE \E k \in Cmd : FollowCommand(k)
    BY <2>2 DEF FollowCommand
  <2>3. CASE \E t \in App : ConnService(t) \/ ReportCheck(t) \/ ReportCall(t)
    BY <2>3 DEF ConnService, ReportCheck, ReportCall, NullCall, Crash
  <2> QED
    BY <1>3, <2>1, <2>2, <2>3 DEF AppNext
<1>4. ASSUME NEW t \in Thread, ConnSteps(t) PROVE TypeOK'
  <2>1. CASE TestProxy(t)
    BY <2>1 DEF TestProxy
  <2>2. CASE GetService(t)
    BY <2>2 DEF GetService
  <2>3. CASE StatusConnected(t) \/ PostEnd(t)
    BY <2>3 DEF StatusConnected, PostEnd
  <2>4. CASE NewObserver(t) \/ LinkToDeath(t)
    BY <2>4 DEF NewObserver, LinkToDeath, Crash
  <2>5. CASE CreateClient(t)
    <3>1. (\E s \in Session : host[s] = 0) => Fresh \in Session
      BY FreshIsNew
    <3> QED
      BY <2>5, <3>1 DEF CreateClient, GivesUp, Topic
  <2>6. CASE PostFollow(t)
    BY <2>6 DEF PostFollow, Topic
  <2>7. CASE \E k \in Key : PostKey(t, k)
    BY <2>7, FollowType DEF PostKey, Topic
  <2>8. CASE PostCommands(t)
    BY <2>8 DEF PostCommands, Topic
  <2>9. CASE \E k \in Cmd : PostCommand(t, k)
    BY <2>9, FollowType DEF PostCommand, Topic
  <2>10. CASE RegistCommandCB(t)
    BY <2>10 DEF RegistCommandCB, NullCall, Crash
  <2>11. CASE RegistPropertyCB(t)
    BY <2>11 DEF RegistPropertyCB, NullCall, Crash, Alive
  <2>12. CASE OutOfTries(t)
    BY <2>12 DEF OutOfTries, GivesUp
  <2> QED
    BY <1>4, <2>1, <2>2, <2>3, <2>4, <2>5, <2>6, <2>7, <2>8, <2>9, <2>10, <2>11, <2>12
    DEF ConnSteps
<1>5. ASSUME NEW t \in Binder, BinderDied(t) \/ ServiceDied(t) PROVE TypeOK'
  <2>1. CASE BinderDied(t)
    BY <2>1 DEF BinderDied
  <2>2. CASE ServiceDied(t)
    BY <2>2 DEF ServiceDied, ClearProxy, ClearListen
  <2> QED
    BY <1>5, <2>1, <2>2
<1> QED
  BY <1>1, <1>2, <1>3, <1>4, <1>5 DEF Next, LibraryNext

-----------------------------------------------------------------------------
\* No step but CreateClient and the server's own touches what HostInv and
\* ListedInv speak of, other than to let the lists grow.
LEMMA NextHostListed ==
  TypeOK /\ HostInv /\ ListedInv /\ [Next]_vars => HostInv' /\ ListedInv'
<1> SUFFICES ASSUME TypeOK, HostInv, ListedInv, [Next]_vars
             PROVE  HostInv' /\ ListedInv'
  OBVIOUS
<1> USE DEF TypeOK, HostInv, ListedInv, lists, observer, local, remote
<1>1. CASE UNCHANGED vars
  BY <1>1 DEF vars
<1>2. CASE ServerNext
  BY <1>2 DEF ServerNext, ServerConnected, ServerDies, ServerRestarts
<1>3. CASE AppNext
  BY <1>3 DEF AppNext, FollowProperty, FollowCommand, ConnService, ReportCheck, ReportCall,
              NullCall, Crash
<1>4. ASSUME NEW t \in Thread, ConnSteps(t) PROVE HostInv' /\ ListedInv'
  <2>1. CASE CreateClient(t)
    <3>1. (\E s \in Session : host[s] = 0) => Fresh \in Session
      BY FreshIsNew
    <3> QED
      BY <2>1, <3>1 DEF CreateClient
  <2>2. CASE ~CreateClient(t)
    <3>1. UNCHANGED <<m_propertyList, m_commandList, host, listed, server>>
      BY <1>4, <2>2
      DEF ConnSteps, TestProxy, GetService, StatusConnected, OutOfTries, NewObserver,
          LinkToDeath, PostFollow, PostKey, PostCommands, PostCommand, PostEnd, Follow,
          RegistCommandCB, RegistPropertyCB, NullCall, Crash
    <3> QED
      BY <3>1
  <2> QED
    BY <2>1, <2>2
<1>5. ASSUME NEW t \in Binder, BinderDied(t) \/ ServiceDied(t)
      PROVE  HostInv' /\ ListedInv'
  BY <1>5 DEF BinderDied, ServiceDied, ClearProxy, ClearListen
<1> QED
  BY <1>1, <1>2, <1>3, <1>4, <1>5 DEF Next, LibraryNext

-----------------------------------------------------------------------------
\* A step of thread t that leaves m_proxy alone and at most adds to what the
\* server knows preserves PostInv when t, if on duty, stays on duty or is done.
LEMMA DutyKept ==
  ASSUME PostInv, NEW t \in Thread,
         m_proxy' = m_proxy, listed' = listed,
         Alive(m_proxy)' => Alive(m_proxy),
         followed \subseteq followed', active \subseteq active',
         \A u \in Thread \ {t} : pc'[u] = pc[u] /\ todo'[u] = todo[u],
         Alive(m_proxy)' /\ OnDuty(t, m_proxy) => OnDuty(t, m_proxy)' \/ Done(m_proxy)'
  PROVE  PostInv'
<1> SUFFICES ASSUME Alive(m_proxy)'
             PROVE  Done(m_proxy)' \/ \E u \in Thread : OnDuty(u, m_proxy)'
  BY DEF PostInv
<1>1. FollowedBy(m_proxy) \subseteq FollowedBy(m_proxy)'
  BY DEF FollowedBy
<1>2. CASE Done(m_proxy)
  BY <1>1, <1>2 DEF Done
<1>3. ASSUME NEW u \in Thread \ {t}, OnDuty(u, m_proxy) PROVE OnDuty(u, m_proxy)'
  BY <1>1, <1>3 DEF OnDuty
<1>4. CASE OnDuty(t, m_proxy)
  BY <1>4
<1> QED
  BY <1>2, <1>3, <1>4 DEF PostInv

\* The same when nothing but the crash flag and the server's state changes.
LEMMA DutyUntouched ==
  ASSUME PostInv, UNCHANGED <<m_proxy, pc, todo, followed, active, listed>>,
         Alive(m_proxy)' => Alive(m_proxy)
  PROVE  PostInv'
BY DEF PostInv, OnDuty, Done, FollowedBy

\* Calling the server for one element keeps the thread on duty.
LEMMA FollowDuty ==
  ASSUME TypeOK, PostInv, NEW t \in Thread, NEW k \in Topic,
         pc[t] \in {"postKeys", "postCmds"}, Follow(t, k)
  PROVE  PostInv'
<1>1. CASE NullCall(t)
  BY <1>1, DutyUntouched DEF NullCall, Crash, local, remote, Alive, Runs
<1>2. CASE ~NullCall(t)
  <2>1. /\ UNCHANGED <<m_proxy, listed, pc, server, up, host, active>>
        /\ todo' = [todo EXCEPT ![t] = @ \ {k}]
        /\ followed' = IF Alive(m_proxy) THEN followed \cup {<<m_proxy, k>>} ELSE followed
    BY <1>2 DEF Follow
  <2>2. Alive(m_proxy)' <=> Alive(m_proxy)
    BY <2>1 DEF Alive, Runs
  <2>3. ASSUME Alive(m_proxy), OnDuty(t, m_proxy) PROVE OnDuty(t, m_proxy)'
    <3>1. FollowedBy(m_proxy)' = FollowedBy(m_proxy) \cup {k}
      BY <2>1, <2>3 DEF FollowedBy
    <3>2. todo'[t] = todo[t] \ {k}
      BY <2>1 DEF TypeOK
    <3> QED
      BY <2>1, <2>3, <3>1, <3>2 DEF OnDuty
  <2>4. \A u \in Thread \ {t} : pc'[u] = pc[u] /\ todo'[u] = todo[u]
    BY <2>1 DEF TypeOK
  <2> QED
    BY <2>1, <2>2, <2>3, <2>4, DutyKept
<1> QED
  BY <1>1, <1>2

\* Every step preserves PostInv.
LEMMA NextPost == CInv /\ [Next]_vars => PostInv'
<1> SUFFICES ASSUME CInv, [Next]_vars PROVE PostInv'
  OBVIOUS
<1> USE DEF CInv
<1>1. CASE UNCHANGED vars
  BY <1>1, DutyUntouched DEF vars, local, remote, Alive, Runs
<1>2. CASE ServerNext
  <2>1. Alive(m_proxy)' => Alive(m_proxy)
    <3>1. m_proxy # NULL => m_proxy \in Session /\ host[m_proxy] \in Nat
      BY DEF TypeOK
    <3>2. m_proxy # NULL => host[m_proxy] <= server
      BY <3>1 DEF HostInv
    <3> QED
      BY <1>2, <3>1, <3>2
      DEF ServerNext, ServerConnected, ServerDies, ServerRestarts, remote, Alive, Runs, TypeOK
  <2>2. CASE ServerDies
    BY <2>2 DEF ServerDies, PostInv, Alive, Runs
  <2> QED
    BY <1>2, <2>1, <2>2, DutyUntouched
    DEF ServerNext, ServerConnected, ServerRestarts, local, remote
<1>3. CASE AppNext
  <2>1. CASE (\E k \in Key : FollowProperty(k)) \/ (\E k \in Cmd : FollowCommand(k))
    BY <2>1, DutyUntouched DEF FollowProperty, FollowCommand, local, remote, Alive, Runs
  <2>2. ASSUME NEW t \in App, ConnService(t) \/ ReportCheck(t) \/ ReportCall(t)
        PROVE  PostInv'
    <3>1. CASE NullCall(t)
      BY <3>1, DutyUntouched DEF NullCall, Crash, local, remote, Alive, Runs
    <3>2. CASE ~NullCall(t)
      <4>1. /\ pc[t] \notin Posting
            /\ \A u \in Thread \ {t} : pc'[u] = pc[u]
            /\ UNCHANGED <<m_proxy, todo, host, followed, active, listed, server, up>>
        BY <2>2, <3>2
        DEF ConnService, ReportCheck, ReportCall, Goto, remote, TypeOK, Posting
      <4>2. ~OnDuty(t, m_proxy)
        BY <4>1 DEF OnDuty, Posting
      <4>3. Alive(m_proxy)' <=> Alive(m_proxy)
        BY <4>1 DEF Alive, Runs
      <4> QED
        BY <4>1, <4>2, <4>3, DutyKept DEF Thread
    <3> QED
      BY <3>1, <3>2
  <2> QED
    BY <1>3, <2>1, <2>2 DEF AppNext
<1>4. ASSUME NEW t \in Thread, ConnSteps(t) PROVE PostInv'
  <2>1. CASE \/ TestProxy(t) \/ GetService(t) \/ StatusConnected(t)
             \/ OutOfTries(t) \/ NewObserver(t) \/ (LinkToDeath(t) /\ ~Crash)
    <3>1. /\ pc[t] \notin Posting
          /\ \A u \in Thread \ {t} : pc'[u] = pc[u]
          /\ UNCHANGED <<m_proxy, todo, host, followed, active, listed, server, up>>
      BY <2>1
      DEF TestProxy, GetService, StatusConnected, OutOfTries, NewObserver, LinkToDeath,
          Goto, remote, TypeOK, Posting
    <3>2. ~OnDuty(t, m_proxy)
      BY <3>1 DEF OnDuty, Posting
    <3>3. Alive(m_proxy)' <=> Alive(m_proxy)
      BY <3>1 DEF Alive, Runs
    <3> QED
      BY <3>1, <3>2, <3>3, DutyKept
  <2>2. CASE CreateClient(t)
    <3>1. CASE m_proxy' = NULL
      BY <3>1 DEF PostInv, Alive
    <3>2. CASE m_proxy' # NULL
      BY <2>2, <3>2 DEF CreateClient, Goto, OnDuty, PostInv, TypeOK
    <3> QED
      BY <3>1, <3>2
  <2>3. CASE PostFollow(t)
    <3>1. CASE m_proxy = NULL
      BY <2>3, <3>1 DEF PostFollow, PostInv, Alive
    <3>2. CASE m_proxy # NULL
      <4>1. /\ pc[t] = "post" /\ pc'[t] = "postKeys" /\ todo'[t] = m_propertyList
            /\ \A u \in Thread \ {t} : pc'[u] = pc[u] /\ todo'[u] = todo[u]
            /\ UNCHANGED <<m_proxy, host, followed, active, listed, server, up>>
        BY <2>3, <3>2 DEF PostFollow, Goto, remote, TypeOK
      <4>2. listed \cap Key \subseteq m_propertyList
        BY <3>2, ClientAssumption DEF ListedInv, TypeOK, ClientAssumption
      <4>3. OnDuty(t, m_proxy)'
        BY <4>1, <4>2 DEF OnDuty
      <4>4. Alive(m_proxy)' <=> Alive(m_proxy)
        BY <4>1 DEF Alive, Runs
      <4> QED
        BY <4>1, <4>3, <4>4, DutyKept
    <3> QED
      BY <3>1, <3>2
  <2>4. CASE (\E k \in Key : PostKey(t, k)) \/ (\E k \in Cmd : PostCommand(t, k))
    BY <2>4, FollowDuty DEF PostKey, PostCommand, Topic
  <2>5. CASE PostCommands(t)
    <3>1. /\ pc[t] = "postKeys" /\ todo[t] = {}
          /\ pc'[t] = "postCmds" /\ todo'[t] = m_commandList
          /\ \A u \in Thread \ {t} : pc'[u] = pc[u] /\ todo'[u] = todo[u]
          /\ UNCHANGED <<m_proxy, host, followed, active, listed, server, up>>
      BY <2>5 DEF PostCommands, Goto, remote, TypeOK
    <3>2. ASSUME Alive(m_proxy), OnDuty(t, m_proxy) PROVE OnDuty(t, m_proxy)'
      <4>1. listed \cap Key \subseteq FollowedBy(m_proxy)'
        BY <3>1, <3>2 DEF OnDuty, FollowedBy
      <4>2. listed \subseteq Key \cup m_commandList
        BY <3>2 DEF ListedInv, TypeOK, Alive
      <4> QED
        BY <3>1, <4>1, <4>2 DEF OnDuty
    <3>3. Alive(m_proxy)' <=> Alive(m_proxy)
      BY <3>1 DEF Alive, Runs
    <3> QED
      BY <3>1, <3>2, <3>3, DutyKept
  <2>6. CASE PostEnd(t)
    <3>1. /\ pc[t] = "postCmds" /\ todo[t] = {} /\ pc'[t] = "registCommand"
          /\ \A u \in Thread \ {t} : pc'[u] = pc[u] /\ todo'[u] = todo[u]
          /\ UNCHANGED <<m_proxy, host, followed, active, listed, server, up>>
      BY <2>6 DEF PostEnd, Goto, remote, TypeOK
    <3>2. OnDuty(t, m_proxy) => OnDuty(t, m_proxy)'
      BY <3>1 DEF OnDuty, FollowedBy
    <3>3. Alive(m_proxy)' <=> Alive(m_proxy)
      BY <3>1 DEF Alive, Runs
    <3> QED
      BY <3>1, <3>2, <3>3, DutyKept
  <2>7. CASE Crash
    BY <2>7, DutyUntouched DEF Crash, local, remote, Alive, Runs
  <2>8. CASE RegistCommandCB(t) /\ ~Crash
    <3>1. /\ pc[t] = "registCommand" /\ pc'[t] = "registProperty"
          /\ \A u \in Thread \ {t} : pc'[u] = pc[u] /\ todo'[u] = todo[u]
          /\ UNCHANGED <<m_proxy, host, followed, active, listed, server, up>>
      BY <2>8 DEF RegistCommandCB, NullCall, Goto, remote, TypeOK
    <3>2. OnDuty(t, m_proxy) => OnDuty(t, m_proxy)'
      BY <3>1 DEF OnDuty, FollowedBy
    <3>3. Alive(m_proxy)' <=> Alive(m_proxy)
      BY <3>1 DEF Alive, Runs
    <3> QED
      BY <3>1, <3>2, <3>3, DutyKept
  <2>9. CASE RegistPropertyCB(t) /\ ~Crash
    <3>1. /\ pc[t] = "registProperty"
          /\ \A u \in Thread \ {t} : pc'[u] = pc[u] /\ todo'[u] = todo[u]
          /\ UNCHANGED <<m_proxy, host, followed, listed, server, up>>
          /\ active' = IF Alive(m_proxy) THEN active \cup {m_proxy} ELSE active
      BY <2>9 DEF RegistPropertyCB, NullCall, Goto, TypeOK
    <3>2. Alive(m_proxy)' <=> Alive(m_proxy)
      BY <3>1 DEF Alive, Runs
    <3>3. Alive(m_proxy) /\ OnDuty(t, m_proxy) => Done(m_proxy)'
      BY <3>1 DEF OnDuty, Done, FollowedBy
    <3> QED
      BY <3>1, <3>2, <3>3, DutyKept
  <2> QED
    BY <1>4, <2>1, <2>2, <2>3, <2>4, <2>5, <2>6, <2>7, <2>8, <2>9 DEF ConnSteps
<1>5. ASSUME NEW t \in Binder, BinderDied(t) \/ ServiceDied(t) PROVE PostInv'
  <2>1. CASE ClearProxy(t)
    BY <2>1 DEF ClearProxy, PostInv, Alive
  <2>2. CASE BinderDied(t) \/ ClearListen(t)
    <3>1. /\ pc[t] \notin Posting
          /\ \A u \in Thread \ {t} : pc'[u] = pc[u]
          /\ UNCHANGED <<m_proxy, todo, host, followed, active, listed, server, up>>
      BY <2>2 DEF BinderDied, ClearListen, Goto, remote, TypeOK, Posting
    <3>2. ~OnDuty(t, m_proxy)
      BY <3>1 DEF OnDuty, Posting
    <3>3. Alive(m_proxy)' <=> Alive(m_proxy)
      BY <3>1 DEF Alive, Runs
    <3> QED
      BY <3>1, <3>2, <3>3, DutyKept DEF Thread
  <2> QED
    BY <1>5, <2>1, <2>2 DEF ServiceDied
<1> QED
  BY <1>1, <1>2, <1>3, <1>4, <1>5 DEF Next, LibraryNext

-----------------------------------------------------------------------------
\* The invariant of the client library: types, incarnations, lists, duty.
THEOREM ClientInvariant == Spec => []CInv
<1>1. CInv /\ [Next]_vars => CInv'
  BY NextType, NextHostListed, NextPost DEF CInv
<1> QED
  BY InitCInv, <1>1, PTL DEF Spec

\* Every variable of the client library stays in its range.
THEOREM ClientTypeCorrect == Spec => []TypeOK
<1>1. CInv => TypeOK
  BY DEF CInv
<1> QED
  BY ClientInvariant, <1>1, PTL

\* When no thread is in _postFollow, the session in use follows everything
\* listed when createClient returned it and has its callbacks, for any number
\* of threads in connService and of deaths of the server.
THEOREM QuietSessionsComplete == Spec => []QuietSessionComplete
<1>1. CInv => QuietSessionComplete
  <2> SUFFICES ASSUME CInv, \A t \in Thread : pc[t] \notin Posting, Alive(m_proxy)
               PROVE  Complete(m_proxy)
    BY DEF QuietSessionComplete
  <2>1. Done(m_proxy)
    BY DEF CInv, PostInv, OnDuty, Posting
  <2> QED
    BY <2>1 DEF Done, FollowedBy, Complete
<1> QED
  BY ClientInvariant, <1>1, PTL

-----------------------------------------------------------------------------
(* The library implements a connection.                                    *)

\* A step that leaves m_proxy alone and only adds to what the server knows, the
\* process and the session's server living on: it finishes the session, or nothing
\* changes.
LEMMA Finishes ==
  ASSUME UNCHANGED <<m_proxy, host, listed, crashed>>,
         Alive(m_proxy)' <=> Alive(m_proxy),
         followed \subseteq followed', active \subseteq active'
  PROVE  [Conn!Next]_(Conn!vars)
<1>1. Connected' = Connected
  BY DEF Connected
<1>2. Connected # NULL => Connected = m_proxy
  BY DEF Connected
<1>3. Connected # NULL /\ Complete(Connected) => Complete(Connected)'
  BY <1>1, <1>2 DEF Complete
<1>4. CASE Connected # NULL /\ ~Complete(Connected) /\ Complete(Connected)'
  BY <1>1, <1>4 DEF Conn!Finish, Conn!Next
<1>5. CASE Connected = NULL \/ (Complete(Connected) <=> Complete(Connected)')
  BY <1>1, <1>5 DEF Conn!vars
<1> QED
  BY <1>3, <1>4, <1>5

\* A step that ends without a connection loses the one there was.
LEMMA Loses ==
  ASSUME UNCHANGED host, Connected' = NULL
  PROVE  [Conn!Next]_(Conn!vars)
<1>1. CASE Connected = NULL
  BY <1>1 DEF Conn!vars
<1>2. CASE Connected # NULL
  BY <1>2 DEF Conn!Lose, Conn!Next
<1> QED
  BY <1>1, <1>2

\* The library implements a connection, for any number of threads, sessions and
\* deaths of the server.
THEOREM LibraryRefinesConnection == Spec => ImplementsConnection
<1>1. Init => Conn!Init
  BY DEF Init, Conn!Init, Connected, Alive
<1>2. CInv /\ [Next]_vars => [Conn!Next]_(Conn!vars)
  <2> SUFFICES ASSUME CInv, [Next]_vars PROVE [Conn!Next]_(Conn!vars)
    OBVIOUS
  <2> USE DEF lists, local, remote
  <2>1. CASE UNCHANGED vars
    BY <2>1, Finishes DEF vars, Alive, Runs
  <2>2. CASE ServerConnected
    BY <2>2, Finishes DEF ServerConnected, Alive, Runs
  <2>3. CASE ServerDies
    BY <2>3, Loses DEF ServerDies, Connected, Alive, Runs
  <2>4. CASE ServerRestarts
    <3>1. m_proxy # NULL => m_proxy \in Session /\ host[m_proxy] <= server
      BY DEF CInv, TypeOK, HostInv
    <3>2. ~Alive(m_proxy)'
      BY <2>4, <3>1 DEF ServerRestarts, Alive, Runs, CInv, TypeOK
    <3> QED
      BY <2>4, <3>2, Loses DEF ServerRestarts, Connected
  <2>5. CASE Crash
    BY <2>5, Loses DEF Crash, Connected
  <2>6. CASE ~crashed /\ AppNext
    BY <2>5, <2>6, Finishes
    DEF AppNext, FollowProperty, FollowCommand, ConnService, ReportCheck, ReportCall,
        NullCall, Alive, Runs, Thread
  <2>7. ASSUME ~crashed, NEW t \in Thread, CreateClient(t)
        PROVE  [Conn!Next]_(Conn!vars)
    <3>1. CASE m_proxy' = NULL /\ UNCHANGED host
      BY <3>1, Loses DEF Connected, Alive
    <3>2. CASE ~(m_proxy' = NULL /\ UNCHANGED host)
      <4>1. PICK f \in Session : f = Fresh /\ host[f] = 0
        BY <2>7, <3>2, FreshIsNew DEF CreateClient
      <4>2. /\ Runs(service[t])
            /\ m_proxy' = f /\ host' = [host EXCEPT ![f] = server]
            /\ UNCHANGED <<server, up, crashed>> /\ active' = {}
        BY <2>7, <3>2, <4>1 DEF CreateClient
      <4>3. /\ server \in Nat \ {0} /\ host \in [Session -> Nat]
            /\ f # NULL
        BY NullNotSession DEF CInv, TypeOK
      <4>4. Connected' = f
        BY <2>7, <4>2, <4>3 DEF Connected, Alive, Runs
      <4>5. ~Complete(f)'
        BY <4>2 DEF Complete
      <4>6. {s \in Session : host[s] # 0}' = {s \in Session : host[s] # 0} \cup {f}
        BY <4>2, <4>3
      <4>7. ~Complete(Connected)'
        BY <4>4, <4>5 DEF Complete
      <4>8. Conn!Open(f)
        BY <4>1, <4>4, <4>6, <4>7 DEF Conn!Open
      <4> QED
        BY <4>8 DEF Conn!Next
    <3> QED
      BY <3>1, <3>2
  <2>8. ASSUME ~crashed, NEW t \in Thread, ConnSteps(t), ~CreateClient(t), ~Crash
        PROVE  [Conn!Next]_(Conn!vars)
    <3>1. /\ UNCHANGED <<m_proxy, host, listed, crashed, server, up>>
          /\ followed \subseteq followed' /\ active \subseteq active'
      BY <2>8
      DEF ConnSteps, TestProxy, GetService, StatusConnected, OutOfTries, NewObserver,
          LinkToDeath, PostFollow, PostKey, PostCommands, PostCommand, PostEnd, Follow,
          RegistCommandCB, RegistPropertyCB, NullCall
    <3> QED
      BY <3>1, Finishes DEF Alive, Runs
  <2>9. ASSUME NEW t \in Binder, ClearProxy(t)
        PROVE  [Conn!Next]_(Conn!vars)
    BY <2>9, Loses DEF ClearProxy, Connected, Alive
  <2>10. ASSUME NEW t \in Binder, BinderDied(t) \/ ClearListen(t)
         PROVE  [Conn!Next]_(Conn!vars)
    BY <2>10, Finishes DEF BinderDied, ClearListen, Alive, Runs
  <2> QED
    BY <2>1, <2>2, <2>3, <2>4, <2>5, <2>6, <2>7, <2>8, <2>9, <2>10
    DEF Next, LibraryNext, ServerNext, ServiceDied
<1> QED
  BY <1>1, <1>2, ClientInvariant, PTL DEF Spec, ImplementsConnection, Conn!Spec
=============================================================================
