----------------------------- MODULE IOTService -----------------------------
(***************************************************************************)
(* The client registry and callback dispatcher of iot_server               *)
(* (jni/server/IOT_Service.cpp).                                           *)
(*                                                                         *)
(* A client process opens a session (createClient), follows properties and *)
(* commands, registers its callbacks and then stays passive; it may die at *)
(* any moment.  What registers it is called in order, on one thread at a   *)
(* time, so the session of c stands for the binder thread that serves it.  *)
(* Other threads of the client post follows even when it is registered     *)
(* already.  A follow is one step where it takes the mutex; when its client*)
(* dies first, it is in the server still (late).  The IOT thread of the    *)
(* server waits for the first client and then dispatches cloud commands    *)
(* and property accesses to the followers.                                 *)
(*                                                                         *)
(* The mutex m_lockClis: a critical section that makes no call out of the  *)
(* server is one step; a dispatch makes one binder call per follower while *)
(* it holds the mutex, so it is one step per follower and the mutex is     *)
(* held exactly while op # "none".                                         *)
(***************************************************************************)
EXTENDS Naturals, FiniteSets, SequencesExt

CONSTANTS
  Client,           \* the IOTClient objects that may be created, one per session
  Key,              \* names of properties
  Cmd,              \* names of commands
  MAX_CLINETS,      \* limit tested by createClient (10 in the code, sic)
  PoolThreads,      \* binder threads that can be inside createClient at once
  SpuriousWakeups,  \* whether Condition::wait may return without a signal
  None              \* no topic

ASSUME ConstantsAssumption ==
  /\ IsFiniteSet(Client)
  /\ MAX_CLINETS \in Nat \ {0}
  /\ PoolThreads \in Nat \ {0}
  /\ SpuriousWakeups \in BOOLEAN
  /\ None \notin Key \cup Cmd
  /\ Key \cap Cmd = {}

VARIABLES
  m_clients,        \* Vector<sp<IOTClient>>
  m_keyFollow,      \* map: property name -> vector of followers
  m_cmdFollow,      \* map: command name -> vector of followers
  posting,          \* the names with a followProperty past addFollowing, not yet added
  added,            \* the properties in the shadow's m_iotAttrs
  m_command,        \* the clients whose m_command is not NULL
  m_property,       \* the clients whose m_property is not NULL
  linked,           \* the clients whose death recipient is linked
  alive,            \* the clients whose process is alive
  late,             \* the follows still in the server of clients that have died
  pc,               \* the next server call of each session
  iot,              \* where the IOT thread is
  op, topic, next,  \* the dispatch under way, its topic and loop index + 1
  owed, called,     \* history: who the dispatch must call, whom it called
  stray             \* history: the follows that have ever been late

registry == <<m_clients, m_keyFollow, m_cmdFollow, posting, added>>
process == <<alive, late, stray>>
session == <<m_command, m_property, linked, process, pc>>
dispatch == <<op, topic, next, owed, called>>
vars == <<registry, session, iot, dispatch>>

SessionState == {"idle", "refused", "checked", "open", "command", "property",
                 "linked", "active"}
Opened == SessionState \ {"idle", "refused", "checked"}
Op == {"callCommandCB", "callPropertyGet", "callPropertySet"}

Init ==
  /\ m_clients = <<>>
  /\ m_keyFollow = <<>>
  /\ m_cmdFollow = <<>>
  /\ posting = {} /\ added = {}
  /\ m_command = {}
  /\ m_property = {}
  /\ linked = {}
  /\ alive = Client
  /\ late = {} /\ stray = {}
  /\ pc = [c \in Client |-> "idle"]
  /\ iot = "setup"
  /\ op = "none" /\ topic = None /\ next = 1
  /\ owed = {} /\ called = <<>>

-----------------------------------------------------------------------------
(* Helpers on the mutex and on the follow maps.                            *)

NoMutex == TRUE
\* m_lockClis can be taken: no dispatch holds it.
LockFree == op = "none"

AddFollowingUnchecked(table, val, target) ==
  [v \in DOMAIN table \cup {val} |->
     IF v # val THEN table[v]
     ELSE IF val \in DOMAIN table THEN Append(table[val], target) ELSE <<target>>]

\* addFollowing: create the vector on first use, then append the client
\* unless it is already there.
AddFollowing(table, val, target) ==
  LET old == IF val \in DOMAIN table THEN table[val] ELSE <<>>
  IN  [v \in DOMAIN table \cup {val} |->
         IF v # val THEN table[v]
         ELSE IF Contains(old, target) THEN old ELSE Append(old, target)]

RemoveFollowerButLast(table, c) ==
  [v \in DOMAIN table |->
     IF table[v] # <<>> /\ Last(table[v]) = c THEN table[v]
     ELSE RemoveFirst(table[v], c)]

\* The loops of removeClient: the first occurrence in each vector; the map
\* keeps the entry even when its vector becomes empty.
RemoveFollower(table, c) == [v \in DOMAIN table |-> RemoveFirst(table[v], c)]

-----------------------------------------------------------------------------
(* Sessions.                                                               *)

CountCheckOffByOne == Len(m_clients) <= MAX_CLINETS
CountCheck == Len(m_clients) < MAX_CLINETS

\* createClient, first half: the count is read before m_lockClis is taken.
\* A client gets this far only when getServiceStatus answered CONNECTED.
CreateCheck(c) ==
  /\ pc[c] \in {"idle", "refused"}
  /\ c \in alive
  /\ iot # "setup"
  /\ Cardinality({d \in Client : pc[d] = "checked"}) < PoolThreads
  /\ pc' = [pc EXCEPT ![c] = IF CountCheck THEN "checked" ELSE "refused"]
  /\ UNCHANGED <<registry, m_command, m_property, linked, process, iot, dispatch>>

CreateAddAndSignal(c) ==
  /\ pc[c] = "checked"
  /\ LockFree
  /\ m_clients' = Append(m_clients, c)
  /\ pc' = [pc EXCEPT ![c] = "open"]
  /\ iot' = IF iot = "waiting" THEN "awake" ELSE iot
  /\ UNCHANGED <<m_keyFollow, m_cmdFollow, posting, added, m_command, m_property, linked,
                 process, dispatch>>

\* createClient, second half, under m_lockClis.
CreateAdd(c) ==
  /\ pc[c] = "checked"
  /\ LockFree
  /\ m_clients' = Append(m_clients, c)
  /\ pc' = [pc EXCEPT ![c] = "open"]
  /\ UNCHANGED <<m_keyFollow, m_cmdFollow, posting, added, m_command, m_property, linked,
                 process, iot, dispatch>>

\* A follow reaches the registry: of a session that is open, or one that was
\* in the server when its client died.
Posted(c, k) ==
  \/ /\ pc[c] \in Opened
     /\ c \in alive
     /\ UNCHANGED process
  \/ /\ <<c, k>> \in late
     /\ late' = late \ {<<c, k>>}
     /\ UNCHANGED <<alive, stray>>

\* IOTClient::followProperty enters the follower first ...
FollowProperty(c, k) ==
  /\ LockFree
  /\ Posted(c, k)
  /\ m_keyFollow' = AddFollowing(m_keyFollow, k, c)
  /\ posting' = posting \cup ({k} \ added)
  /\ UNCHANGED <<m_clients, m_cmdFollow, added, m_command, m_property, linked, pc, iot, dispatch>>

\* ... then the attribute: the first such call that the shadow does not refuse.
\* A polling round holds m_lockAttrs over callPropertyGet.
AddProperty(k) ==
  /\ k \in posting
  /\ op # "callPropertyGet"
  /\ posting' = posting \ {k}
  /\ added' = added \cup {k}
  /\ UNCHANGED <<m_clients, m_keyFollow, m_cmdFollow, session, iot, dispatch>>

\* IOTClient::followCommand
FollowCommand(c, k) ==
  /\ LockFree
  /\ Posted(c, k)
  /\ m_cmdFollow' = AddFollowing(m_cmdFollow, k, c)
  /\ UNCHANGED <<m_clients, m_keyFollow, posting, added, m_command, m_property, linked, pc,
                 iot, dispatch>>

\* IOTClient::registCommandCB writes m_command without the mutex.
RegistCommandCB(c) ==
  /\ pc[c] = "open"
  /\ c \in alive
  /\ m_command' = m_command \cup {c}
  /\ pc' = [pc EXCEPT ![c] = "command"]
  /\ UNCHANGED <<registry, m_property, linked, process, iot, dispatch>>

\* IOTClient::registPropertyCB, first the write of m_property (no mutex) ...
RegistPropertyCB(c) ==
  /\ pc[c] = "command"
  /\ c \in alive
  /\ m_property' = m_property \cup {c}
  /\ pc' = [pc EXCEPT ![c] = "property"]
  /\ UNCHANGED <<registry, m_command, linked, process, iot, dispatch>>

\* ... then linkToDeath, which may fail on a binder that is dead already (the
\* result is not looked at) ...
LinkToDeath(c) ==
  /\ pc[c] = "property"
  /\ \/ linked' = linked \cup {c}
     \/ c \notin alive /\ UNCHANGED linked
  /\ pc' = [pc EXCEPT ![c] = "linked"]
  /\ UNCHANGED <<registry, m_command, m_property, process, iot, dispatch>>

ClientActiveNoSignal(c) ==
  /\ pc[c] = "linked"
  /\ LockFree
  /\ pc' = [pc EXCEPT ![c] = "active"]
  /\ UNCHANGED <<registry, m_command, m_property, linked, process, iot, dispatch>>

\* ... then clientActive: signal m_condition under m_lockClis.  A signal
\* nobody waits for is lost.
ClientActive(c) ==
  /\ pc[c] = "linked"
  /\ LockFree
  /\ pc' = [pc EXCEPT ![c] = "active"]
  /\ iot' = IF iot = "waiting" THEN "awake" ELSE iot
  /\ UNCHANGED <<registry, m_command, m_property, linked, process, dispatch>>

\* The calls a session may have in the server at once: the mutexes of the
\* client's lists let one property and one command pass.
Posts == {p \in SUBSET (Key \cup Cmd) :
            Cardinality(p \cap Key) <= 1 /\ Cardinality(p \cap Cmd) <= 1}

\* The client process dies.  The calls it has under way in the server still run.
Crash(c) ==
  /\ c \in alive
  /\ alive' = alive \ {c}
  /\ \E p \in IF pc[c] \in Opened THEN Posts ELSE {{}} :
       /\ late' = late \cup {c} \X p
       /\ stray' = stray \cup {c} \X p
  /\ UNCHANGED <<registry, m_command, m_property, linked, pc, iot, dispatch>>

BinderDiedKeepingLink(c) ==
  /\ c \in linked \ alive
  /\ LockFree
  /\ m_keyFollow' = RemoveFollower(m_keyFollow, c)
  /\ m_cmdFollow' = RemoveFollower(m_cmdFollow, c)
  /\ m_clients' = RemoveFirst(m_clients, c)
  /\ UNCHANGED <<posting, added, m_command, m_property, linked, process, pc, iot, dispatch>>

\* binderDied -> removeClient, once per linked client that died.
BinderDied(c) ==
  /\ c \in linked \ alive
  /\ LockFree
  /\ m_keyFollow' = RemoveFollower(m_keyFollow, c)
  /\ m_cmdFollow' = RemoveFollower(m_cmdFollow, c)
  /\ m_clients' = RemoveFirst(m_clients, c)
  /\ linked' = linked \ {c}
  /\ UNCHANGED <<posting, added, m_command, m_property, process, pc, iot, dispatch>>

-----------------------------------------------------------------------------
(* The IOT thread.                                                         *)

\* setupShadow has stored m_shadow: getServiceStatus answers CONNECTED.
SetupShadow ==
  /\ iot = "setup"
  /\ iot' = "ready"
  /\ UNCHANGED <<registry, session, dispatch>>

\* waitForClient: m_condition.wait with no predicate.
WaitForClient ==
  /\ iot = "ready"
  /\ LockFree
  /\ iot' = "waiting"
  /\ UNCHANGED <<registry, session, dispatch>>

SpuriousWakeup ==
  /\ SpuriousWakeups
  /\ iot = "waiting"
  /\ LockFree
  /\ iot' = "awake"
  /\ UNCHANGED <<registry, session, dispatch>>

Callbacks(o) == IF o = "callCommandCB" THEN m_command ELSE m_property

\* What a dispatch may be about: any command the cloud sends; an attribute.
TopicsOf(o) == IF o = "callCommandCB" THEN Cmd ELSE added

\* The vector a dispatch runs over: the followers when the map has an entry,
\* the first client otherwise.
Targets(o, t) ==
  LET table == IF o = "callCommandCB" THEN m_cmdFollow ELSE m_keyFollow
  IN  IF t \in DOMAIN table THEN table[t]
      ELSE IF m_clients = <<>> THEN <<>>
      ELSE <<Head(m_clients)>>

CallBeginFromZero(o, t) ==
  /\ iot = "awake"
  /\ LockFree
  /\ op' = o /\ topic' = t /\ next' = 0
  /\ owed' = ToSet(Targets(o, t)) \cap Callbacks(o)
  /\ called' = <<>>
  /\ UNCHANGED <<registry, session, iot>>

\* callCommandCB, callPropertyGet, callPropertySet: take m_lockClis, find
\* the vector.
CallBegin(o, t) ==
  /\ iot = "awake"
  /\ LockFree
  /\ op' = o /\ topic' = t /\ next' = 1
  /\ owed' = ToSet(Targets(o, t)) \cap Callbacks(o)
  /\ called' = <<>>
  /\ UNCHANGED <<registry, session, iot>>

\* One iteration: the binder call into the follower, m_lockClis held.
CallFollower ==
  /\ op # "none"
  /\ next <= Len(Targets(op, topic))
  /\ LET c == Targets(op, topic)[next]
     IN  called' = IF c \in Callbacks(op) \cap alive THEN Append(called, c) ELSE called
  /\ next' = next + 1
  /\ UNCHANGED <<registry, session, iot, op, topic, owed>>

CallEndLeavingLock ==
  /\ op # "none"
  /\ next > Len(Targets(op, topic))
  /\ next > 1
  /\ op' = "none" /\ topic' = None /\ next' = 1
  /\ owed' = {} /\ called' = <<>>
  /\ UNCHANGED <<registry, session, iot>>

\* The loop is over: return and release m_lockClis.
CallEnd ==
  /\ op # "none"
  /\ next > Len(Targets(op, topic))
  /\ op' = "none" /\ topic' = None /\ next' = 1
  /\ owed' = {} /\ called' = <<>>
  /\ UNCHANGED <<registry, session, iot>>

-----------------------------------------------------------------------------
SessionNext(c) ==
  \/ CreateCheck(c)
  \/ CreateAdd(c)
  \/ \E k \in Key : FollowProperty(c, k)
  \/ \E k \in Cmd : FollowCommand(c, k)
  \/ RegistCommandCB(c)
  \/ RegistPropertyCB(c)
  \/ LinkToDeath(c)
  \/ ClientActive(c)
  \/ Crash(c)
  \/ BinderDied(c)

IotNext ==
  \/ SetupShadow
  \/ WaitForClient
  \/ SpuriousWakeup
  \/ \E o \in Op : \E t \in TopicsOf(o) : CallBegin(o, t)
  \/ CallFollower
  \/ CallEnd

Next ==
  \/ \E c \in Client : SessionNext(c)
  \/ \E k \in Key : AddProperty(k)
  \/ IotNext

Spec == Init /\ [][Next]_vars

(* Fairness.  The binder threads and the IOT thread keep running, and an   *)
(* application callback returns.  The IOT thread sleeps in IOT_Shadow_Yield*)
(* between dispatches with m_lockClis free, so a thread that waits for the *)
(* mutex gets it: strong fairness for the steps that need it.  Nothing is  *)
(* assumed of the client processes.                                        *)
Fairness ==
  /\ \A c \in Client :
       /\ WF_vars(LinkToDeath(c))
       /\ SF_vars(CreateAdd(c))
       /\ SF_vars(ClientActive(c))
       /\ SF_vars(BinderDied(c))
  /\ WF_vars(WaitForClient)
  /\ WF_vars(CallFollower)
  /\ WF_vars(CallEnd)

FairSpec == Spec /\ Fairness

-----------------------------------------------------------------------------
(* Properties.                                                             *)

IsFollowMap(table, Name) ==
  /\ DOMAIN table \subseteq Name
  /\ \A v \in DOMAIN table : table[v] \in Seq(Client)

\* Every variable stays in its range.
TypeOK ==
  /\ m_clients \in Seq(Client)
  /\ IsFollowMap(m_keyFollow, Key)
  /\ IsFollowMap(m_cmdFollow, Cmd)
  /\ posting \subseteq Key
  /\ added \subseteq Key
  /\ m_command \subseteq Client
  /\ m_property \subseteq Client
  /\ linked \subseteq Client
  /\ alive \subseteq Client
  /\ late \subseteq stray
  /\ stray \subseteq Client \X (Key \cup Cmd)
  /\ pc \in [Client -> SessionState]
  /\ iot \in {"setup", "ready", "waiting", "awake"}
  /\ op \in Op \cup {"none"}
  /\ topic \in Key \cup Cmd \cup {None}
  /\ next \in Nat \ {0}
  /\ owed \subseteq Client
  /\ called \in Seq(Client)

InjectiveVectors(table) == \A v \in DOMAIN table : IsInjective(table[v])

\* No vector holds a client twice.  removeClient erases the first occurrence
\* only and a dispatch calls every occurrence, so both rely on this.
NoDuplicates ==
  /\ IsInjective(m_clients)
  /\ InjectiveVectors(m_keyFollow)
  /\ InjectiveVectors(m_cmdFollow)

\* A session is in the registry from createClient on, at least until
\* linkToDeath; from there on it is linked unless its client has died.  A
\* linked session is always in the registry: binderDied, which comes to linked
\* sessions only, finds it and takes it out.
SessionsRegistered ==
  /\ \A c \in Client :
       /\ c \in ToSet(m_clients) => pc[c] \in Opened
       /\ c \in alive /\ pc[c] \in {"linked", "active"} => c \in linked
       /\ pc[c] \in {"open", "command", "property"} => c \in ToSet(m_clients)
  /\ \A c \in linked : c \in ToSet(m_clients) /\ pc[c] \in {"linked", "active"}

Edges(table) == UNION {{<<c, k>> : c \in ToSet(table[k])} : k \in DOMAIN table}

Follows == Edges(m_keyFollow) \cup Edges(m_cmdFollow)

\* A client that removeClient has taken out (or that never joined) follows
\* nothing, and no dispatch reaches it, but for what it was about to follow
\* when it died: such a follow may be added after the removal, and stays.
NoGhostFollower == \A f \in Follows : f[1] \in ToSet(m_clients) \/ f \in stray

\* The unlocked test of createClient lets the vector outgrow MAX_CLINETS, but
\* only by the threads that can be between the test and the lock.
ClientsBounded == Len(m_clients) <= MAX_CLINETS + PoolThreads - 1

\* Without spurious wakeups the IOT thread goes past waitForClient only after
\* some client has gone through the whole registration.
AwakeOnlyAfterClient ==
  ~SpuriousWakeups /\ iot = "awake" => \E c \in Client : pc[c] = "active"

\* A dispatch that returns has called every follower that had its callback
\* registered when the dispatch began and that is still alive, and none twice,
\* however sessions register, die and are removed meanwhile.
DispatchServesFollowers ==
  [][op # "none" /\ op' = "none" =>
       owed \cap alive \subseteq ToSet(called) /\ IsInjective(called)]_vars

\* A registered client that dies is eventually removed from the registry.
DeadClientRemoved ==
  \A c \in Client : c \in linked \ alive ~> c \notin ToSet(m_clients)

\* No call waits for m_lockClis for ever.
CallsComplete ==
  \A c \in Client : pc[c] \in {"checked", "property", "linked"} ~> pc[c] \in {"open", "active"}

\* A client that signals while the IOT thread waits gets it going.
SignalWakes ==
  \A c \in Client : iot = "waiting" /\ pc[c] = "linked" ~> iot = "awake"

(* What the sources say and the code does not do.                          *)

\* IOT_DeviceShadow.cpp: "1. wait the first client create".
FirstClientWakes == (\E c \in Client : pc[c] = "active") ~> iot = "awake"

\* IOT_Service.cpp: "Client count beyond the max value" is refused.
ClientCountWithinMax == Len(m_clients) <= MAX_CLINETS

\* IOT_Service.cpp: "if no following, just using the first client".
FirstClientFallback ==
  op # "none" /\ m_clients # <<>> => Targets(op, topic) # <<>>

-----------------------------------------------------------------------------
(* The abstract registry this one implements.                              *)

Table == INSTANCE FollowTable WITH
           Topic <- Key \cup Cmd, member <- ToSet(m_clients), follows <- Follows

\* The registry behaves as a set of members and a relation that a member
\* leaves in one step with everything it follows, late follows aside.
ImplementsFollowTable == Table!Spec
=============================================================================
