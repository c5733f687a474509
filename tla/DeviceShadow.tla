---------------------------- MODULE DeviceShadow ----------------------------
(***************************************************************************)
(* The property shadow of iot_server (jni/server/IOT_DeviceShadow.cpp):    *)
(* the map m_iotAttrs, the reporting flags, and the threads that work on   *)
(* them.  The IOT thread yields to the cloud SDK, polls the clients and    *)
(* pushes what changed; binder threads add properties and push urgent      *)
(* reports of their own.                                                   *)
(*                                                                         *)
(* m_lockAttrs: a critical section that makes no call out of the server is *)
(* one step; updateProperties calls the clients while it holds the mutex,  *)
(* which is therefore held exactly while iot = "polling".  m_reportFlag,   *)
(* g_forceReport and the report bit an urgent push clears are accessed     *)
(* without the mutex, one step per access.                                 *)
(*                                                                         *)
(* The SDK is external: a push delivers the values formatted earlier or    *)
(* fails, and callbacks run on the IOT thread inside IOT_Shadow_Yield.     *)
(***************************************************************************)
EXTENDS Naturals, FiniteSets

CONSTANTS
  Name,         \* properties clients may add
  Urgent,       \* those they also report with reportProperty
  ReportPeriod, \* the local attribute "report_period"
  Value,        \* property values
  Zero,         \* the value of calloc'ed attribute data
  NoValue,      \* what the cloud shows before this server has pushed anything
  Binder,       \* binder threads
  StatusPolled, \* whether clients wait for getServiceStatus, as IOTClientJNI
                \* does; the server does not insist
  SdkMayFail    \* whether connection set-up and pushes may fail

Attr == Name \cup {ReportPeriod}

ASSUME ShadowAssumption ==
  /\ Urgent \subseteq Name
  /\ ReportPeriod \notin Name
  /\ Zero \in Value
  /\ NoValue \notin Value
  /\ StatusPolled \in BOOLEAN
  /\ SdkMayFail \in BOOLEAN

VARIABLES
  added,         \* the domain of m_iotAttrs
  data,          \* attr->pattr_data, by name
  report,        \* the names whose report bit is set
  m_reportFlag,
  g_forceReport,
  m_shadow,      \* whether m_shadow is not NULL
  iot,           \* where the IOT thread is
  todo,          \* names updateProperties has still to poll
  batch,         \* the payload pushProperties has formatted
  call,          \* what each binder thread is doing
  sdk,           \* attributes registered with the SDK
  cloud,         \* reported values at the cloud
  writer,        \* history: which side wrote each value last
  missed,        \* history: concerned by a failed push; since then neither
                 \* written nor its report bit cleared
  overtaken      \* history: after the value was written an older one was delivered,
                 \* or the urgent push of another one cleared its report bit

flags == <<m_reportFlag, g_forceReport>>
thread == <<iot, todo, batch>>
history == <<writer, missed, overtaken>>
vars == <<added, data, report, flags, m_shadow, thread, call, sdk, cloud, history>>

NoBatch == [k \in {} |-> Zero]
NoCall == [pc |-> "idle", key |-> ReportPeriod, val |-> Zero]

Init ==
  /\ added = {ReportPeriod}
  /\ data = [k \in Attr |-> Zero]
  /\ report = {}
  /\ m_reportFlag \in BOOLEAN        \* the constructor does not set it
  /\ g_forceReport = FALSE
  /\ m_shadow = FALSE
  /\ iot = "setup"
  /\ todo = {}
  /\ batch = NoBatch
  /\ call = [b \in Binder |-> NoCall]
  /\ sdk = {}
  /\ cloud = [k \in Attr |-> NoValue]
  /\ writer = [k \in Attr |-> "calloc"]
  /\ missed = {} /\ overtaken = {}

\* m_lockAttrs can be taken.
LockFree == iot # "polling"

Write(k, v, who) ==
  /\ data' = [data EXCEPT ![k] = v]
  /\ writer' = [writer EXCEPT ![k] = who]
  /\ missed' = missed \ {k}
  /\ overtaken' = overtaken \ {k}

\* A push of the values in payload reaches the cloud.
Delivered(payload) ==
  /\ cloud' = [k \in Attr |-> IF k \in DOMAIN payload THEN payload[k] ELSE cloud[k]]
  /\ overtaken' = (overtaken \ DOMAIN payload)
                     \cup {k \in DOMAIN payload : payload[k] # data[k]}

\* IOT_Shadow_Push: delivered and acknowledged, or failed - the request or
\* only its acknowledgement lost.
PushOk(payload) == m_shadow /\ Delivered(payload)

PushFails(payload) ==
  /\ SdkMayFail
  /\ \/ UNCHANGED <<cloud, overtaken>>
     \/ m_shadow /\ Delivered(payload)

-----------------------------------------------------------------------------
(* Binder threads: doAddProperty.                                          *)

Return(b) == call' = [call EXCEPT ![b] = NoCall]
Goto(b, s, v) == call' = [call EXCEPT ![b] = [pc |-> s, key |-> call[b].key, val |-> v]]

\* _addProperty, under m_lockAttrs; a name that is known already is left alone.
AddProperty(b, k) ==
  /\ call[b].pc = "idle"
  /\ LockFree
  /\ StatusPolled => m_shadow
  /\ k \notin added
  /\ added' = added \cup {k}
  /\ call' = [call EXCEPT ![b] = [pc |-> "register", key |-> k, val |-> Zero]]
  /\ UNCHANGED <<data, report, flags, m_shadow, thread, sdk, cloud, history>>

RegisterNever(b) ==
  /\ call[b].pc = "register"
  /\ Return(b)
  /\ UNCHANGED <<added, data, report, flags, m_shadow, thread, sdk, cloud, history>>

\* doAddProperty after the insertion: register when m_shadow is set.
RegisterNew(b) ==
  /\ call[b].pc = "register"
  /\ sdk' = IF m_shadow THEN sdk \cup {call[b].key} ELSE sdk
  /\ Return(b)
  /\ UNCHANGED <<added, data, report, flags, m_shadow, thread, cloud, history>>

-----------------------------------------------------------------------------
(* Binder threads: doReportProperty.                                       *)

\* Under m_lockAttrs: find the attribute, set its report bit, store the value.
ReportStore(b, k, v) ==
  /\ call[b].pc = "idle"
  /\ LockFree
  /\ k \in added
  /\ report' = report \cup {k}
  /\ Write(k, v, "reportProperty")
  /\ call' = [call EXCEPT ![b] = [pc |-> "flag", key |-> k, val |-> Zero]]
  /\ UNCHANGED <<added, flags, m_shadow, thread, sdk, cloud>>

\* m_reportFlag = true; without a shadow the call ends here.
ReportFlag(b) ==
  /\ call[b].pc = "flag"
  /\ m_reportFlag' = TRUE
  /\ IF m_shadow THEN Goto(b, "format", call[b].val) ELSE Return(b)
  /\ UNCHANGED <<added, data, report, g_forceReport, m_shadow, thread, sdk, cloud, history>>

\* IOT_Shadow_PushFormat_Add reads the attribute, the mutex no longer held.
ReportFormat(b) ==
  /\ call[b].pc = "format"
  /\ Goto(b, "send", data[call[b].key])
  /\ UNCHANGED <<added, data, report, flags, m_shadow, thread, sdk, cloud, history>>

\* The urgent IOT_Shadow_Push; a failure leaves the report bit set.
ReportPush(b) ==
  /\ call[b].pc = "send"
  /\ LET payload == [k \in {call[b].key} |-> call[b].val]
     IN  \/ PushOk(payload) /\ Goto(b, "settle", Zero) /\ UNCHANGED missed
         \/ PushFails(payload) /\ Return(b) /\ missed' = missed \cup {call[b].key}
  /\ UNCHANGED <<added, data, report, flags, m_shadow, thread, sdk, writer>>

\* it->second.report = 0 after a push that succeeded, without the mutex.
ReportSettle(b) ==
  /\ call[b].pc = "settle"
  /\ report' = report \ {call[b].key}
  /\ missed' = missed \ {call[b].key}
  /\ overtaken' = IF cloud[call[b].key] # data[call[b].key]
                  THEN overtaken \cup {call[b].key} ELSE overtaken
  /\ Return(b)
  /\ UNCHANGED <<added, data, flags, m_shadow, thread, sdk, cloud, writer>>

-----------------------------------------------------------------------------
(* The IOT thread.                                                         *)

\* setupShadow: IOT_Shadow_Construct is retried until it succeeds.
SetupShadow ==
  /\ iot = "setup"
  /\ m_shadow' = TRUE
  /\ iot' = "wait"
  /\ UNCHANGED <<added, data, report, flags, todo, batch, call, sdk, cloud, history>>

\* setupShadow: IOT_SetupConnInfo fails; threadLoop ignores the return value.
SetupConnInfoFails ==
  /\ SdkMayFail
  /\ iot = "setup"
  /\ iot' = "wait"
  /\ UNCHANGED <<added, data, report, flags, m_shadow, todo, batch, call, sdk, cloud, history>>

\* preShadow 1: waitForClient returns.
ClientArrived ==
  /\ iot = "wait"
  /\ iot' = "register"
  /\ UNCHANGED <<added, data, report, flags, m_shadow, todo, batch, call, sdk, cloud, history>>

\* preShadow 2-4: register every attribute under m_lockAttrs, then the command
\* callback, then pull.  Without a shadow the SDK refuses.
RegisterAttributes ==
  /\ iot = "register"
  /\ sdk' = IF m_shadow THEN sdk \cup added ELSE sdk
  /\ iot' = "yield"
  /\ UNCHANGED <<added, data, report, flags, m_shadow, todo, batch, call, cloud, history>>

\* IOT_Shadow_Yield delivers a change made at the cloud: the SDK stores the
\* value, _DS_call_default_property_cb forces a full report and hands the
\* value to the clients.
PropertyDelta(k, v) ==
  /\ iot = "yield"
  /\ m_shadow
  /\ k \in sdk \ {ReportPeriod}
  /\ Write(k, v, "IOT thread")
  /\ g_forceReport' = TRUE
  /\ UNCHANGED <<added, report, m_reportFlag, m_shadow, thread, call, sdk, cloud>>

\* A binder thread may be in the middle of the insertion of _addProperty.
Inserting == Name \ added # {} /\ \E b \in Binder : call[b].pc = "idle"

\* The same for report_period: _DS_report_period_property_cb.  It searches the
\* map without the mutex, and may miss the attribute while the tree changes.
PeriodDelta(v) ==
  /\ iot = "yield"
  /\ m_shadow
  /\ ReportPeriod \in sdk
  /\ Write(ReportPeriod, v, "IOT thread")
  /\ g_forceReport' = TRUE
  /\ \/ report' = report \cup {ReportPeriod}
     \/ Inserting /\ UNCHANGED report
  /\ UNCHANGED <<added, m_reportFlag, m_shadow, thread, call, sdk, cloud>>

\* yieldShadow returns; the report period has passed or not.
YieldReturns ==
  /\ iot = "yield"
  /\ \/ iot' = "polling" /\ todo' = added \ {ReportPeriod}
     \/ iot' = "push" /\ UNCHANGED todo
  /\ UNCHANGED <<added, data, report, flags, m_shadow, batch, call, sdk, cloud, history>>

PollAnswerNoFlag(k, v) ==
  /\ iot = "polling"
  /\ k \in todo
  /\ todo' = todo \ {k}
  /\ IF v # data[k]
     THEN Write(k, v, "IOT thread") /\ report' = report \cup {k}
     ELSE UNCHANGED <<data, report, history>>
  /\ UNCHANGED <<added, flags, m_shadow, iot, batch, call, sdk, cloud>>

\* updateProperties, one attribute: callPropertyGet returned v.
PollAnswer(k, v) ==
  /\ iot = "polling"
  /\ k \in todo
  /\ todo' = todo \ {k}
  /\ IF v # data[k]
     THEN Write(k, v, "IOT thread") /\ report' = report \cup {k} /\ m_reportFlag' = TRUE
     ELSE UNCHANGED <<data, report, history, m_reportFlag>>
  /\ UNCHANGED <<added, g_forceReport, m_shadow, iot, batch, call, sdk, cloud>>

PollNoAnswerStored(k) ==
  /\ iot = "polling"
  /\ k \in todo
  /\ todo' = todo \ {k}
  /\ Write(k, NoValue, "IOT thread")
  /\ UNCHANGED <<added, report, flags, m_shadow, iot, batch, call, sdk, cloud>>

\* updateProperties, one attribute: no client has a value (ret <= 0).
PollNoAnswer(k) ==
  /\ iot = "polling"
  /\ k \in todo
  /\ todo' = todo \ {k}
  /\ UNCHANGED <<added, data, report, flags, m_shadow, iot, batch, call, sdk, cloud, history>>

PollEnd ==
  /\ iot = "polling"
  /\ todo = {}
  /\ iot' = "push"
  /\ UNCHANGED <<added, data, report, flags, m_shadow, todo, batch, call, sdk, cloud, history>>

PushSkipUnforced ==
  /\ iot = "push"
  /\ ~m_reportFlag
  /\ iot' = "yield"
  /\ UNCHANGED <<added, data, report, flags, m_shadow, todo, batch, call, sdk, cloud, history>>

\* pushProperties: nothing to report.
PushSkip ==
  /\ iot = "push"
  /\ ~m_reportFlag /\ ~g_forceReport
  /\ iot' = "yield"
  /\ UNCHANGED <<added, data, report, flags, m_shadow, todo, batch, call, sdk, cloud, history>>

PushFormatReported ==
  /\ iot = "push"
  /\ m_reportFlag \/ g_forceReport
  /\ batch' = [k \in report |-> data[k]]
  /\ report' = {}
  /\ missed' = missed \ report
  /\ iot' = IF report = {} THEN "clearFlag" ELSE "send"
  /\ UNCHANGED <<added, data, flags, m_shadow, todo, call, sdk, cloud, writer, overtaken>>

\* pushProperties under m_lockAttrs: format what is flagged, or everything
\* when forced, and clear the report bits.
PushFormat ==
  /\ iot = "push"
  /\ m_reportFlag \/ g_forceReport
  /\ LET dirty == IF g_forceReport THEN added ELSE report
     IN  /\ batch' = [k \in dirty |-> data[k]]
         /\ report' = report \ dirty
         /\ missed' = missed \ dirty
         /\ iot' = IF dirty = {} THEN "clearFlag" ELSE "send"
  /\ UNCHANGED <<added, data, flags, m_shadow, todo, call, sdk, cloud, writer, overtaken>>

\* pushProperties: IOT_Shadow_Push; the caller ignores the result.
PushBatch ==
  /\ iot = "send"
  /\ PushOk(batch) \/ PushFails(batch)
  /\ missed' = missed \cup {k \in DOMAIN batch : cloud'[k] # batch[k]}
  /\ iot' = "clearFlag"
  /\ batch' = NoBatch
  /\ UNCHANGED <<added, data, report, flags, m_shadow, todo, call, sdk, writer>>

ClearFlag ==
  /\ iot = "clearFlag"
  /\ m_reportFlag' = FALSE
  /\ iot' = "clearForce"
  /\ UNCHANGED <<added, data, report, g_forceReport, m_shadow, todo, batch, call, sdk, cloud, history>>

ClearForce ==
  /\ iot = "clearForce"
  /\ g_forceReport' = FALSE
  /\ iot' = "yield"
  /\ UNCHANGED <<added, data, report, m_reportFlag, m_shadow, todo, batch, call, sdk, cloud, history>>

-----------------------------------------------------------------------------
BinderSteps(b) ==
  \/ RegisterNew(b)
  \/ ReportFlag(b)
  \/ ReportFormat(b)
  \/ ReportPush(b)
  \/ ReportSettle(b)

BinderNext(b) ==
  \/ \E k \in Name : AddProperty(b, k)
  \/ \E k \in Urgent, v \in Value : ReportStore(b, k, v)
  \/ BinderSteps(b)

LoopSteps ==
  \/ YieldReturns
  \/ \E k \in Name : (\E v \in Value : PollAnswer(k, v)) \/ PollNoAnswer(k)
  \/ PollEnd
  \/ PushSkip
  \/ PushFormat
  \/ PushBatch
  \/ ClearFlag
  \/ ClearForce

IotNext ==
  \/ SetupShadow
  \/ SetupConnInfoFails
  \/ ClientArrived
  \/ RegisterAttributes
  \/ \E k \in Name, v \in Value : PropertyDelta(k, v)
  \/ \E v \in Value : PeriodDelta(v)
  \/ LoopSteps

Next == (\E b \in Binder : BinderNext(b)) \/ IotNext

Spec == Init /\ [][Next]_vars

(* Fairness.  A binder thread finishes the call it has begun (no step after *)
(* the first takes a mutex), IOT_Shadow_Yield returns after its timeout and *)
(* the loop of threadLoop never ends.  Calls, deltas and the first client   *)
(* need not ever come.                                                      *)
Fairness == (\A b \in Binder : WF_vars(BinderSteps(b))) /\ WF_vars(LoopSteps)

FairSpec == Spec /\ Fairness

-----------------------------------------------------------------------------
(* Properties.                                                             *)

CallState == [pc : {"idle", "register", "flag", "format", "send", "settle"},
              key : Attr, val : Value]
Thread == {"setup", "wait", "register", "yield", "polling", "push", "send",
           "clearFlag", "clearForce"}

\* Every variable stays in its range.
TypeOK ==
  /\ added \subseteq Attr
  /\ data \in [Attr -> Value]
  /\ report \subseteq Attr
  /\ m_reportFlag \in BOOLEAN
  /\ g_forceReport \in BOOLEAN
  /\ m_shadow \in BOOLEAN
  /\ iot \in Thread
  /\ todo \subseteq Attr
  /\ DOMAIN batch \subseteq Attr
  /\ \A k \in DOMAIN batch : batch[k] \in Value
  /\ call \in [Binder -> CallState]
  /\ sdk \subseteq Attr
  /\ cloud \in [Attr -> Value \cup {NoValue}]
  /\ writer \in [Attr -> {"calloc", "reportProperty", "IOT thread"}]
  /\ missed \subseteq Attr
  /\ overtaken \subseteq Attr

Busy(b, k) == call[b].pc # "idle" /\ call[b].key = k

\* Once the IOT thread has registered the attributes it knew, every attribute
\* is registered with the SDK or the call that added it is about to do so:
\* none falls between the loop of preShadow and the test of doAddProperty.
NoMissedRegistration ==
  m_shadow /\ iot \notin {"wait", "register"} =>
    \A k \in added \ sdk : \E b \in Binder : call[b].pc = "register" /\ call[b].key = k

\* A binder thread is about to push the value attribute k has.
Carries(b, k) ==
  /\ call[b].key = k
  /\ \/ call[b].pc \in {"flag", "format"}
     \/ call[b].pc = "send" /\ call[b].val = data[k]

\* The value of an attribute is at the cloud, or on its way there, or a push of
\* it failed and no later one has begun: no interleaving loses a change that
\* polling or the cloud made.  One that clients report as well may be lost in
\* two ways only: an older value is delivered after it, or the urgent push of
\* an older value ends by clearing its report bit.
ValuesConverge ==
  \A k \in {a \in Attr : writer[a] # "calloc"} :
    \/ cloud[k] = data[k]
    \/ k \in report /\ m_reportFlag
    \/ g_forceReport
    \/ k \in DOMAIN batch /\ batch[k] = data[k]
    \/ k \in missed
    \/ /\ k \in Urgent
       /\ k \in overtaken \/ ~m_shadow \/ \E b \in Binder : Carries(b, k)

\* A set report bit is never left behind with both flags off, which would
\* hide it from pushProperties until something else changes, except by an
\* urgent push that fails or for want of a shadow.
NoStrandedReport ==
  m_shadow =>
    \A k \in report \ missed : m_reportFlag \/ g_forceReport \/ \E b \in Binder : Busy(b, k)

\* Once the loop runs with a shadow, again and again every report bit has been
\* consumed but those of urgent pushes that failed: none stays set for ever.
ReportsConsumed == m_shadow /\ iot = "yield" ~> report \subseteq missed

(* What the sources say and the code does not do.                          *)

Quiet ==
  /\ \A b \in Binder : call[b].pc = "idle"
  /\ iot = "yield"
  /\ ~m_reportFlag /\ ~g_forceReport /\ report = {}

\* IOT_DeviceShadow.cpp: "for urgent property report".  When all is quiet the
\* cloud shows the value a client reported last, SDK failures aside.
UrgentReportLands ==
  Quiet /\ ~SdkMayFail =>
    \A k \in Attr : writer[k] = "reportProperty" => cloud[k] = data[k]
=============================================================================
