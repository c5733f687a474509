------------------------- MODULE DeviceShadowProofs -------------------------
(***************************************************************************)
(* Proofs about the property shadow, for every set of properties, values   *)
(* and binder threads.                                                     *)
(***************************************************************************)
EXTENDS DeviceShadow, TLAPS

Reporting(b, k) ==
  call[b].pc \in {"flag", "format", "send", "settle"} /\ call[b].key = k

Registering(b, k) == call[b].pc = "register" /\ call[b].key = k

\* What stays inside m_iotAttrs, and who may report.
AttrsInv ==
  /\ ReportPeriod \in added
  /\ report \subseteq added
  /\ sdk \subseteq added
  /\ todo \subseteq added
  /\ \A k \in Attr : writer[k] # "calloc" => k \in added
  /\ \A b \in Binder, k \in Attr : Reporting(b, k) => k \in Urgent
  /\ \A b \in Binder, k \in Attr : Registering(b, k) => k \in added
  /\ iot = "setup" => ~m_shadow

\* pushProperties has taken the report bits and not yet cleared the flags.
Pushing == iot \in {"send", "clearFlag", "clearForce"}

\* The locals of the calls: a push needs a shadow, and until there is one a
\* report bit stays.
CallsInv ==
  /\ \A b \in Binder : call[b].pc \in {"format", "send", "settle"} => m_shadow
  /\ iot = "setup" => \A b \in Binder : call[b].pc = "flag" => call[b].key \in report

\* Why the value of attribute k need not be on its way.
Excused(k) ==
  \/ k \in missed
  \/ /\ k \in Urgent
     /\ \/ k \in overtaken
        \/ ~m_shadow /\ iot # "setup"
        \/ \E b \in Binder : Carries(b, k)

\* Where it is otherwise.
Placed(k) ==
  /\ iot = "send" => cloud[k] = data[k] \/ (k \in DOMAIN batch /\ batch[k] = data[k])
  /\ iot \in {"clearFlag", "clearForce"} => cloud[k] = data[k]
  /\ ~Pushing => cloud[k] = data[k] \/ (k \in report /\ m_reportFlag) \/ g_forceReport

KeptInv == \A k \in Attr : writer[k] # "calloc" => Excused(k) \/ Placed(k)

\* Where the values are that have been written.
ValuesInv ==
  /\ iot # "send" => DOMAIN batch = {}
  /\ Pushing => report \subseteq Urgent
  /\ \A k \in DOMAIN batch \ Urgent : batch[k] = data[k]
  /\ KeptInv

\* Who will see to a report bit.
ReportInv ==
  m_shadow \/ iot = "setup" =>
    \A k \in report \ missed :
      \/ \E b \in Binder : Reporting(b, k)
      \/ ~Pushing /\ (m_reportFlag \/ g_forceReport)

SInv == TypeOK /\ AttrsInv /\ CallsInv /\ ValuesInv /\ ReportInv /\ NoMissedRegistration

-----------------------------------------------------------------------------
\* The initial state satisfies the invariant.
LEMMA InitSInv == Init => SInv
<1> SUFFICES ASSUME Init PROVE SInv
  OBVIOUS
<1>1. TypeOK
  BY ShadowAssumption
  DEF ShadowAssumption, Init, TypeOK, Attr, CallState, NoCall, NoBatch, Thread
<1>2. AttrsInv
  BY DEF Init, AttrsInv, Reporting, Registering, NoCall
<1>3. ReportInv /\ NoMissedRegistration
  BY DEF Init, ReportInv, NoMissedRegistration
<1>4. CallsInv
  BY DEF Init, CallsInv, NoCall
<1>5. ValuesInv
  BY DEF Init, ValuesInv, KeptInv, Pushing, NoBatch
<1> QED BY <1>1, <1>2, <1>3, <1>4, <1>5 DEF SInv

\* What a push that reaches the cloud changes there, and whom it overtakes.
LEMMA DeliveredType ==
  ASSUME TypeOK, NEW payload, DOMAIN payload \subseteq Attr,
         \A k \in DOMAIN payload : payload[k] \in Value,
         Delivered(payload)
  PROVE  /\ cloud' \in [Attr -> Value \cup {NoValue}]
         /\ overtaken' \subseteq Attr
         /\ \A k \in Attr \ DOMAIN payload :
              cloud'[k] = cloud[k] /\ (k \in overtaken' <=> k \in overtaken)
         /\ \A k \in DOMAIN payload :
              cloud'[k] = payload[k] /\ (k \in overtaken' <=> payload[k] # data[k])
BY DEF Delivered, TypeOK

\* A push of payload is delivered, or nothing changes at the cloud.
LEMMA PushType ==
  ASSUME TypeOK, NEW payload, DOMAIN payload \subseteq Attr,
         \A k \in DOMAIN payload : payload[k] \in Value,
         PushOk(payload) \/ PushFails(payload)
  PROVE  /\ cloud' \in [Attr -> Value \cup {NoValue}]
         /\ overtaken' \subseteq Attr
         /\ \A k \in Attr \ DOMAIN payload :
              cloud'[k] = cloud[k] /\ (k \in overtaken' <=> k \in overtaken)
         /\ \/ PushFails(payload) /\ UNCHANGED <<cloud, overtaken>>
            \/ \A k \in DOMAIN payload :
                 cloud'[k] = payload[k] /\ (k \in overtaken' <=> payload[k] # data[k])
<1>1. CASE Delivered(payload)
  BY <1>1, DeliveredType
<1>2. CASE PushFails(payload) /\ UNCHANGED <<cloud, overtaken>>
  BY <1>2 DEF TypeOK
<1> QED BY <1>1, <1>2 DEF PushOk, PushFails

\* The payload of an urgent report.
LEMMA UrgentPayload ==
  ASSUME TypeOK, NEW b \in Binder
  PROVE  LET payload == [k \in {call[b].key} |-> call[b].val]
         IN  /\ DOMAIN payload = {call[b].key}
             /\ DOMAIN payload \subseteq Attr
             /\ \A k \in DOMAIN payload : payload[k] \in Value
<1>1. call[b].key \in Attr /\ call[b].val \in Value
  BY DEF TypeOK, CallState
<1> QED BY <1>1

\* A call that moves on or returns stays a call.
LEMMA CallType ==
  ASSUME TypeOK, NEW b \in Binder,
         \/ Return(b)
         \/ \E s \in {"format", "send", "settle"}, v \in Value : Goto(b, s, v)
  PROVE  call' \in [Binder -> CallState]
<1>1. call \in [Binder -> CallState] /\ call[b].key \in Attr
  BY DEF TypeOK, CallState
<1>2. NoCall \in CallState
  BY ShadowAssumption DEF ShadowAssumption, NoCall, CallState, Attr
<1>3. ASSUME NEW s \in {"format", "send", "settle"}, NEW v \in Value
      PROVE  [pc |-> s, key |-> call[b].key, val |-> v] \in CallState
  BY <1>1, <1>3 DEF CallState
<1>4. CASE Return(b)
  BY <1>1, <1>2, <1>4 DEF Return
<1>5. ASSUME NEW s \in {"format", "send", "settle"}, NEW v \in Value, Goto(b, s, v)
      PROVE  call' \in [Binder -> CallState]
  <2> DEFINE new == [pc |-> s, key |-> call[b].key, val |-> v]
  <2>1. new \in CallState /\ call' = [call EXCEPT ![b] = new]
    BY <1>3, <1>5 DEF Goto
  <2> HIDE DEF new
  <2> QED BY <1>1, <2>1
<1> QED BY <1>4, <1>5

-----------------------------------------------------------------------------
(* Type correctness.                                                       *)

\* Every step keeps every variable in its range.
LEMMA NextTypeOK == TypeOK /\ AttrsInv /\ [Next]_vars => TypeOK'
<1> SUFFICES ASSUME TypeOK, AttrsInv, [Next]_vars
             PROVE  TypeOK'
  OBVIOUS
<1> USE ShadowAssumption DEF ShadowAssumption, TypeOK, flags, thread, history
<1>1. Name \subseteq Attr /\ Urgent \subseteq Attr /\ ReportPeriod \in Attr
  BY DEF Attr
<1>2. ASSUME NEW b \in Binder, NEW k \in Name, AddProperty(b, k)
      PROVE  TypeOK'
  BY <1>1, <1>2 DEF AddProperty, CallState
<1>3. ASSUME NEW b \in Binder, RegisterNew(b)
      PROVE  TypeOK'
  BY <1>1, <1>3 DEF RegisterNew, Return, NoCall, CallState
<1>4. ASSUME NEW b \in Binder, NEW k \in Urgent, NEW v \in Value, ReportStore(b, k, v)
      PROVE  TypeOK'
  BY <1>1, <1>4 DEF ReportStore, Write, CallState
<1>5. ASSUME NEW b \in Binder, ReportFlag(b)
      PROVE  TypeOK'
  <2>1. call[b].val \in Value
    BY DEF CallState
  <2>2. call' \in [Binder -> CallState]
    BY <1>5, <2>1, CallType DEF ReportFlag
  <2> QED BY <1>5, <2>2 DEF ReportFlag
<1>6. ASSUME NEW b \in Binder, ReportFormat(b)
      PROVE  TypeOK'
  <2>1. data[call[b].key] \in Value
    BY DEF CallState
  <2>2. call' \in [Binder -> CallState]
    BY <1>6, <2>1, CallType DEF ReportFormat
  <2> QED BY <1>6, <2>2 DEF ReportFormat
<1>7. ASSUME NEW b \in Binder, ReportPush(b)
      PROVE  TypeOK'
  <2>1. cloud' \in [Attr -> Value \cup {NoValue}] /\ overtaken' \subseteq Attr
    BY <1>7, UrgentPayload, PushType DEF ReportPush
  <2>3. missed' \subseteq Attr
    <3>1. call[b].key \in Attr
      BY DEF CallState
    <3> QED BY <1>7, <3>1 DEF ReportPush
  <2>2. call' \in [Binder -> CallState]
    <3>1. call[b].val \in Value /\ Zero \in Value
      BY DEF CallState
    <3> QED BY <1>7, <3>1, CallType DEF ReportPush
  <2> QED BY <1>7, <2>1, <2>2, <2>3 DEF ReportPush
<1>8. ASSUME NEW b \in Binder, ReportSettle(b)
      PROVE  TypeOK'
  BY <1>1, <1>8 DEF ReportSettle, Return, NoCall, CallState
<1>9. ASSUME SetupShadow \/ SetupConnInfoFails \/ ClientArrived \/ RegisterAttributes
      PROVE  TypeOK'
  BY <1>9 DEF SetupShadow, SetupConnInfoFails, ClientArrived, RegisterAttributes, Thread
<1>10. ASSUME NEW k \in Name, NEW v \in Value, PropertyDelta(k, v)
       PROVE  TypeOK'
  BY <1>1, <1>10 DEF PropertyDelta, Write
<1>11. ASSUME NEW v \in Value, PeriodDelta(v)
       PROVE  TypeOK'
  BY <1>1, <1>11 DEF PeriodDelta, Write
<1>12. ASSUME YieldReturns \/ PollEnd \/ PushSkip \/ ClearFlag \/ ClearForce
       PROVE  TypeOK'
  BY <1>12 DEF YieldReturns, PollEnd, PushSkip, ClearFlag, ClearForce, Thread
<1>13. ASSUME NEW k \in Name, NEW v \in Value, PollAnswer(k, v)
       PROVE  TypeOK'
  <2>1. CASE v # data[k]
    <3>1. k \in Attr /\ "IOT thread" \in {"calloc", "reportProperty", "IOT thread"}
      BY <1>1
    <3>2. /\ data' = [data EXCEPT ![k] = v]
          /\ writer' = [writer EXCEPT ![k] = "IOT thread"]
          /\ report' = report \cup {k} /\ m_reportFlag' = TRUE /\ todo' = todo \ {k}
          /\ overtaken' = overtaken \ {k} /\ missed' = missed \ {k}
          /\ UNCHANGED <<added, g_forceReport, m_shadow, iot, batch, call, sdk, cloud>>
      BY <1>13, <2>1 DEF PollAnswer, Write
    <3>3. data' \in [Attr -> Value]
      BY <3>1, <3>2
    <3>4. writer' \in [Attr -> {"calloc", "reportProperty", "IOT thread"}]
      BY <3>1, <3>2
    <3> QED BY <3>1, <3>2, <3>3, <3>4
  <2>2. CASE v = data[k]
    BY <1>13, <2>2 DEF PollAnswer
  <2> QED BY <2>1, <2>2
<1>14. ASSUME NEW k \in Name, PollNoAnswer(k)
       PROVE  TypeOK'
  BY <1>14 DEF PollNoAnswer
<1>15. ASSUME PushFormat
       PROVE  TypeOK'
  BY <1>15 DEF PushFormat, Thread
<1>16. ASSUME PushBatch
       PROVE  TypeOK'
  <2>1. cloud' \in [Attr -> Value \cup {NoValue}] /\ overtaken' \subseteq Attr
    BY <1>16, PushType DEF PushBatch
  <2>2. missed' \subseteq Attr
    BY <1>16 DEF PushBatch
  <2> QED BY <1>16, <2>1, <2>2 DEF PushBatch, NoBatch, Thread
<1>17. CASE UNCHANGED vars
  BY <1>17 DEF vars
<1>18. CASE Next
  BY <1>18, <1>2, <1>3, <1>4, <1>5, <1>6, <1>7, <1>8, <1>9, <1>10, <1>11, <1>12, <1>13,
     <1>14, <1>15, <1>16
  DEF Next, BinderNext, BinderSteps, IotNext, LoopSteps
<1> QED BY <1>17, <1>18

-----------------------------------------------------------------------------
(* The attributes.                                                         *)

\* Which calls are reporting after a call has moved on or returned.
LEMMA CallStep ==
  ASSUME TypeOK, NEW b \in Binder, NEW d \in Binder, NEW k \in Attr
  PROVE  /\ Return(b) => (Reporting(d, k)' <=> d # b /\ Reporting(d, k))
         /\ \A s \in {"format", "send", "settle"}, v \in Value :
              Goto(b, s, v) =>
                (Reporting(d, k)' <=> IF d = b THEN call[b].key = k ELSE Reporting(d, k))
<1>1. call \in [Binder -> CallState]
  BY DEF TypeOK
<1>2. Return(b) => (Reporting(d, k)' <=> d # b /\ Reporting(d, k))
  <2>1. NoCall.pc \notin {"flag", "format", "send", "settle"}
    BY DEF NoCall
  <2> QED BY <1>1, <2>1 DEF Return, Reporting
<1>3. ASSUME NEW s \in {"format", "send", "settle"}, NEW v \in Value, Goto(b, s, v)
      PROVE  Reporting(d, k)' <=> IF d = b THEN call[b].key = k ELSE Reporting(d, k)
  <2> DEFINE new == [pc |-> s, key |-> call[b].key, val |-> v]
  <2>1. call' = [call EXCEPT ![b] = new]
    BY <1>3 DEF Goto
  <2>2. new.pc \in {"flag", "format", "send", "settle"} /\ new.key = call[b].key
    OBVIOUS
  <2> HIDE DEF new
  <2>3. call'[d] = IF d = b THEN new ELSE call[d]
    BY <1>1, <2>1
  <2> QED BY <2>2, <2>3 DEF Reporting
<1> QED BY <1>2, <1>3

\* Which calls are registering after each step of a binder thread.
LEMMA RegisteringStep ==
  ASSUME TypeOK, NEW b \in Binder, NEW d \in Binder, NEW k \in Attr
  PROVE  /\ \A n \in Name :
              AddProperty(b, n) =>
                (Registering(d, k)' <=> IF d = b THEN k = n ELSE Registering(d, k))
         /\ RegisterNew(b) => (Registering(d, k)' <=> d # b /\ Registering(d, k))
         /\ (\E n \in Urgent, v \in Value : ReportStore(b, n, v))
              \/ ReportFlag(b) \/ ReportFormat(b) \/ ReportPush(b) \/ ReportSettle(b) =>
              (Registering(d, k)' <=> Registering(d, k))
<1>1. call \in [Binder -> CallState]
  BY DEF TypeOK
<1>2. Return(b) => (Registering(d, k)' <=> d # b /\ Registering(d, k))
  <2>1. NoCall.pc # "register"
    BY DEF NoCall
  <2> QED BY <1>1, <2>1 DEF Return, Registering
<1>3. ASSUME NEW s, NEW n, NEW v, call' = [call EXCEPT ![b] = [pc |-> s, key |-> n, val |-> v]]
      PROVE  Registering(d, k)' <=>
               IF d = b THEN s = "register" /\ k = n ELSE Registering(d, k)
  <2> DEFINE new == [pc |-> s, key |-> n, val |-> v]
  <2>1. new.pc = s /\ new.key = n
    OBVIOUS
  <2> HIDE DEF new
  <2>2. call'[d] = IF d = b THEN new ELSE call[d]
    BY <1>1, <1>3 DEF new
  <2> QED BY <2>1, <2>2 DEF Registering
<1>4. ASSUME NEW n \in Name, AddProperty(b, n)
      PROVE  Registering(d, k)' <=> IF d = b THEN k = n ELSE Registering(d, k)
  BY <1>3, <1>4 DEF AddProperty
<1>5. ASSUME RegisterNew(b)
      PROVE  Registering(d, k)' <=> d # b /\ Registering(d, k)
  BY <1>2, <1>5 DEF RegisterNew
<1>6. ASSUME (\E n \in Urgent, v \in Value : ReportStore(b, n, v))
               \/ ReportFlag(b) \/ ReportFormat(b) \/ ReportPush(b) \/ ReportSettle(b)
      PROVE  Registering(d, k)' <=> Registering(d, k)
  <2>1. ~ Registering(b, k)
    BY <1>6 DEF ReportStore, ReportFlag, ReportFormat, ReportPush, ReportSettle, Registering
  <2>2. CASE Return(b)
    BY <1>2, <2>1, <2>2
  <2>3. ASSUME NEW s \in {"flag", "format", "send", "settle"}, NEW n, NEW v,
               call' = [call EXCEPT ![b] = [pc |-> s, key |-> n, val |-> v]]
        PROVE  Registering(d, k)' <=> Registering(d, k)
    BY <1>3, <2>1, <2>3
  <2> QED BY <1>6, <2>2, <2>3
          DEF ReportStore, ReportFlag, ReportFormat, ReportPush, ReportSettle, Goto
<1> QED BY <1>4, <1>5, <1>6

\* How each step of a binder thread changes which calls are reporting.
LEMMA ReportingStep ==
  ASSUME TypeOK, NEW b \in Binder, NEW d \in Binder, NEW k \in Attr
  PROVE  /\ \A n \in Name : AddProperty(b, n) => (Reporting(d, k)' <=> Reporting(d, k))
         /\ RegisterNew(b) => (Reporting(d, k)' <=> Reporting(d, k))
         /\ \A n \in Urgent, v \in Value :
              ReportStore(b, n, v) =>
                (Reporting(d, k)' <=> IF d = b THEN k = n ELSE Reporting(d, k))
         /\ ReportFlag(b) =>
              (Reporting(d, k)' <=> Reporting(d, k) /\ (d # b \/ m_shadow))
         /\ ReportFormat(b) => (Reporting(d, k)' <=> Reporting(d, k))
         /\ ReportPush(b) =>
              (Reporting(d, k)' => Reporting(d, k))
         /\ ReportPush(b) =>
              (Reporting(d, k) => Reporting(d, k)' \/ k \in missed')
         /\ ReportSettle(b) => (Reporting(d, k)' <=> d # b /\ Reporting(d, k))
<1>1. /\ call \in [Binder -> CallState]
      /\ call[b].val \in Value
      /\ data[call[b].key] \in Value
      /\ Zero \in Value
  BY ShadowAssumption DEF ShadowAssumption, TypeOK, CallState
<1>2. /\ call[b].pc \in {"flag", "format", "send", "settle"} =>
           (Reporting(b, k) <=> call[b].key = k)
      /\ call[b].pc \in {"idle", "register"} => ~ Reporting(b, k)
  BY DEF Reporting
<1>3. ASSUME NEW n \in Name, AddProperty(b, n)
      PROVE  Reporting(d, k)' <=> Reporting(d, k)
  BY <1>1, <1>2, <1>3 DEF AddProperty, Reporting
<1>4. ASSUME RegisterNew(b)
      PROVE  Reporting(d, k)' <=> Reporting(d, k)
  BY <1>2, <1>4, CallStep DEF RegisterNew
<1>5. ASSUME NEW n \in Urgent, NEW v \in Value, ReportStore(b, n, v)
      PROVE  Reporting(d, k)' <=> IF d = b THEN k = n ELSE Reporting(d, k)
  <2> DEFINE new == [pc |-> "flag", key |-> n, val |-> Zero]
  <2>1. call' = [call EXCEPT ![b] = new]
    BY <1>5 DEF ReportStore
  <2>2. new.pc = "flag" /\ new.key = n
    OBVIOUS
  <2> HIDE DEF new
  <2>3. call'[d] = IF d = b THEN new ELSE call[d]
    BY <1>1, <2>1
  <2> QED BY <2>2, <2>3 DEF Reporting
<1>6. ASSUME ReportFlag(b)
      PROVE  Reporting(d, k)' <=> Reporting(d, k) /\ (d # b \/ m_shadow)
  BY <1>1, <1>2, <1>6, CallStep DEF ReportFlag
<1>7. ASSUME ReportFormat(b)
      PROVE  Reporting(d, k)' <=> Reporting(d, k)
  BY <1>1, <1>2, <1>7, CallStep DEF ReportFormat
<1>8. ASSUME ReportPush(b)
      PROVE  /\ Reporting(d, k)' => Reporting(d, k)
             /\ Reporting(d, k) => Reporting(d, k)' \/ k \in missed'
  <2>1. call[b].pc = "send"
    BY <1>8 DEF ReportPush
  <2>2. CASE Goto(b, "settle", Zero)
    BY <1>1, <1>2, <2>1, <2>2, CallStep
  <2>3. CASE Return(b) /\ call[b].key \in missed'
    BY <1>2, <2>1, <2>3, CallStep
  <2> QED BY <1>8, <2>2, <2>3 DEF ReportPush
<1>9. ASSUME ReportSettle(b)
      PROVE  Reporting(d, k)' <=> d # b /\ Reporting(d, k)
  BY <1>9, CallStep DEF ReportSettle
<1> QED BY <1>3, <1>4, <1>5, <1>6, <1>7, <1>8, <1>9

\* Attributes are never dropped, reports and registrations concern attributes
\* that exist, and only urgent ones are reported by clients.
LEMMA NextAttrsInv == TypeOK /\ AttrsInv /\ [Next]_vars => AttrsInv'
<1> SUFFICES ASSUME TypeOK, AttrsInv, [Next]_vars
             PROVE  AttrsInv'
  OBVIOUS
<1> USE DEF flags, thread, history
<1>1. Urgent \subseteq Attr /\ Name \subseteq Attr
  BY ShadowAssumption DEF ShadowAssumption, Attr
<1>2. /\ call \in [Binder -> CallState]
      /\ writer \in [Attr -> {"calloc", "reportProperty", "IOT thread"}]
      /\ \A b \in Binder : call[b].key \in Attr
  BY DEF TypeOK, CallState
<1>3. ASSUME NEW b \in Binder, BinderSteps(b)
      PROVE  AttrsInv'
  <2>1. ASSUME NEW d \in Binder, NEW k \in Attr
        PROVE  /\ Reporting(d, k)' => Reporting(d, k)
               /\ Registering(d, k)' => Registering(d, k)
    BY <1>3, ReportingStep, RegisteringStep DEF BinderSteps
  <2>2. /\ UNCHANGED <<added, writer, iot, m_shadow, todo>>
        /\ report' \subseteq report
    BY <1>3 DEF BinderSteps, RegisterNew, ReportFlag, ReportFormat, ReportPush, ReportSettle
  <2>3. sdk' \subseteq added
    <3>1. CASE RegisterNew(b)
      BY <1>2, <1>3, <3>1 DEF RegisterNew, AttrsInv, Registering
    <3>2. CASE ~ RegisterNew(b)
      BY <1>3, <3>2
      DEF BinderSteps, ReportFlag, ReportFormat, ReportPush, ReportSettle, AttrsInv
    <3> QED BY <3>1, <3>2
  <2> QED BY <2>1, <2>2, <2>3 DEF AttrsInv
<1>4. ASSUME NEW b \in Binder, NEW n \in Name, AddProperty(b, n)
      PROVE  AttrsInv'
  <2>1. ASSUME NEW d \in Binder, NEW k \in Attr
        PROVE  /\ Reporting(d, k)' => k \in Urgent
               /\ Registering(d, k)' => k \in added'
    BY <1>4, ReportingStep, RegisteringStep DEF AttrsInv, AddProperty
  <2> QED BY <1>4, <2>1 DEF AddProperty, AttrsInv
<1>5. ASSUME NEW b \in Binder, NEW n \in Urgent, NEW v \in Value, ReportStore(b, n, v)
      PROVE  AttrsInv'
  <2>1. ASSUME NEW d \in Binder, NEW k \in Attr
        PROVE  /\ Reporting(d, k)' => k \in Urgent
               /\ Registering(d, k)' => k \in added
    BY <1>5, ReportingStep, RegisteringStep DEF AttrsInv
  <2>2. \A k \in Attr : writer'[k] # "calloc" => k \in added
    BY <1>1, <1>2, <1>5 DEF ReportStore, Write, AttrsInv
  <2>3. report' \subseteq added
    BY <1>5 DEF ReportStore, AttrsInv
  <2> QED BY <1>5, <2>1, <2>2, <2>3 DEF ReportStore, AttrsInv
<1>6. ASSUME UNCHANGED <<call, added>>, sdk' \subseteq added, report' \subseteq added,
             todo' \subseteq added,
             \A k \in Attr : writer'[k] # "calloc" => writer[k] # "calloc" \/ k \in added,
             iot' = "setup" => iot = "setup" /\ UNCHANGED m_shadow
      PROVE  AttrsInv'
  BY <1>6 DEF AttrsInv, Reporting, Registering
<1>7. ASSUME SetupShadow \/ SetupConnInfoFails \/ ClientArrived \/ RegisterAttributes
      PROVE  AttrsInv'
  BY <1>6, <1>7
  DEF SetupShadow, SetupConnInfoFails, ClientArrived, RegisterAttributes, AttrsInv
<1>8. ASSUME NEW n \in Name, NEW v \in Value, PropertyDelta(n, v)
      PROVE  AttrsInv'
  <2>1. \A k \in Attr : writer'[k] # "calloc" => writer[k] # "calloc" \/ k \in added
    BY <1>2, <1>8 DEF PropertyDelta, Write, AttrsInv
  <2> QED BY <1>6, <1>8, <2>1 DEF PropertyDelta, AttrsInv
<1>9. ASSUME NEW v \in Value, PeriodDelta(v)
      PROVE  AttrsInv'
  <2>1. \A k \in Attr : writer'[k] # "calloc" => writer[k] # "calloc" \/ k \in added
    BY <1>2, <1>9 DEF PeriodDelta, Write, AttrsInv
  <2> QED BY <1>6, <1>9, <2>1 DEF PeriodDelta, AttrsInv
<1>10. ASSUME NEW n \in Name, NEW v \in Value, PollAnswer(n, v)
       PROVE  AttrsInv'
  <2>1. \A k \in Attr : writer'[k] # "calloc" => writer[k] # "calloc" \/ k \in added
    BY <1>2, <1>10 DEF PollAnswer, Write, AttrsInv
  <2>2. report' \subseteq added /\ todo' \subseteq added
    BY <1>10 DEF PollAnswer, AttrsInv
  <2> QED BY <1>6, <1>10, <2>1, <2>2 DEF PollAnswer, AttrsInv
<1>11. ASSUME \/ \E k \in Name : PollNoAnswer(k)
              \/ YieldReturns \/ PollEnd \/ PushSkip \/ PushFormat \/ PushBatch
              \/ ClearFlag \/ ClearForce
       PROVE  AttrsInv'
  <2>1. /\ UNCHANGED <<call, added, sdk, writer, m_shadow>>
        /\ report' \subseteq report /\ todo' \subseteq todo \cup added
        /\ iot # "setup" /\ iot' # "setup"
    BY <1>11 DEF PollNoAnswer, YieldReturns, PollEnd, PushSkip, PushFormat, PushBatch,
                 ClearFlag, ClearForce
  <2> QED BY <1>6, <2>1 DEF AttrsInv
<1>12. CASE UNCHANGED vars
  BY <1>12 DEF vars, AttrsInv, Reporting, Registering
<1> QED BY <1>3, <1>4, <1>5, <1>7, <1>8, <1>9, <1>10, <1>11, <1>12
        DEF Next, BinderNext, IotNext, LoopSteps

-----------------------------------------------------------------------------
(* The calls under way.                                                    *)

\* Every step keeps what is known of the calls.
LEMMA NextCallsInv == TypeOK /\ AttrsInv /\ CallsInv /\ [Next]_vars => CallsInv'
<1> SUFFICES ASSUME TypeOK, AttrsInv, CallsInv, [Next]_vars
             PROVE  CallsInv'
  OBVIOUS
<1> USE DEF flags, thread, history
<1>1. call \in [Binder -> CallState]
  BY DEF TypeOK
<1>2. ASSUME NEW b \in Binder, BinderNext(b)
      PROVE  CallsInv'
  <2>1. /\ UNCHANGED <<iot, m_shadow>>
        /\ \A d \in Binder \ {b} : call'[d] = call[d]
    BY <1>1, <1>2
    DEF BinderNext, BinderSteps, AddProperty, ReportStore, RegisterNew, ReportFlag,
        ReportFormat, ReportPush, ReportSettle, Return, Goto
  <2>2. call'[b].pc \in {"format", "send", "settle"} => m_shadow
    BY <1>1, <1>2
    DEF BinderNext, BinderSteps, AddProperty, ReportStore, RegisterNew, ReportFlag,
        ReportFormat, ReportPush, ReportSettle, Return, Goto, CallsInv, NoCall
  <2>3. iot = "setup" /\ call'[b].pc = "flag" => call'[b].key \in report'
    BY <1>1, <1>2
    DEF BinderNext, BinderSteps, AddProperty, ReportStore, RegisterNew, ReportFlag,
        ReportFormat, ReportPush, ReportSettle, Return, Goto, NoCall
  <2>4. iot = "setup" => report \subseteq report'
    BY <1>2
    DEF BinderNext, BinderSteps, AddProperty, ReportStore, RegisterNew, ReportFlag,
        ReportFormat, ReportPush, ReportSettle, AttrsInv, CallsInv
  <2> QED BY <2>1, <2>2, <2>3, <2>4 DEF CallsInv
<1>3. ASSUME IotNext
      PROVE  CallsInv'
  <2>1. CASE SetupShadow
    BY <2>1 DEF SetupShadow, CallsInv
  <2>2. CASE PushFormat
    BY <2>2 DEF PushFormat, CallsInv
  <2>3. ASSUME \/ SetupConnInfoFails \/ ClientArrived \/ RegisterAttributes
               \/ \E k \in Name, v \in Value : PropertyDelta(k, v)
               \/ \E v \in Value : PeriodDelta(v)
               \/ YieldReturns
               \/ \E k \in Name : (\E v \in Value : PollAnswer(k, v)) \/ PollNoAnswer(k)
               \/ PollEnd \/ PushSkip \/ PushBatch \/ ClearFlag \/ ClearForce
        PROVE  CallsInv'
    <3>1. UNCHANGED <<call, m_shadow>> /\ iot' # "setup"
      BY <2>3
      DEF SetupConnInfoFails, ClientArrived, RegisterAttributes, PropertyDelta, PeriodDelta,
          YieldReturns, PollAnswer, PollNoAnswer, PollEnd, PushSkip, PushBatch, ClearFlag,
          ClearForce
    <3> QED BY <3>1 DEF CallsInv
  <2> QED BY <1>3, <2>1, <2>2, <2>3 DEF IotNext, LoopSteps
<1>4. CASE UNCHANGED vars
  BY <1>4 DEF vars, CallsInv
<1> QED BY <1>2, <1>3, <1>4 DEF Next

-----------------------------------------------------------------------------
(* Values on their way to the cloud.                                       *)

\* Binder threads touch neither the loop nor the attributes that clients do not
\* report, and never clear a flag.
LEMMA BinderFrame ==
  ASSUME TypeOK, AttrsInv, NEW b \in Binder, BinderNext(b)
  PROVE  /\ UNCHANGED <<iot, batch, g_forceReport, m_shadow>>
         /\ m_reportFlag => m_reportFlag'
         /\ report' \subseteq Attr
         /\ \A k \in Attr \ Urgent : (k \in report' <=> k \in report) /\ data'[k] = data[k]
<1> USE DEF flags, thread, history
<1>1. /\ data \in [Attr -> Value] /\ call[b].key \in Attr
      /\ report \subseteq Attr /\ Urgent \subseteq Attr
  BY ShadowAssumption DEF TypeOK, CallState, ShadowAssumption, Attr
<1>2. CASE \E n \in Name : AddProperty(b, n)
  BY <1>1, <1>2 DEF AddProperty
<1>3. CASE \E n \in Urgent, v \in Value : ReportStore(b, n, v)
  BY <1>1, <1>3 DEF ReportStore, Write
<1>4. CASE RegisterNew(b) \/ ReportFlag(b) \/ ReportFormat(b) \/ ReportPush(b)
  BY <1>1, <1>4 DEF RegisterNew, ReportFlag, ReportFormat, ReportPush
<1>5. CASE ReportSettle(b)
  <2>1. call[b].key \in Urgent
    BY <1>1, <1>5 DEF ReportSettle, Reporting, AttrsInv
  <2> QED BY <1>1, <1>5, <2>1 DEF ReportSettle
<1> QED BY <1>2, <1>3, <1>4, <1>5 DEF BinderNext, BinderSteps

\* A step that changes one call at most keeps track of an attribute it does not
\* otherwise concern.
LEMMA Untouched ==
  ASSUME NEW b \in Binder, NEW k \in Attr, KeptInv,
         UNCHANGED <<iot, batch, g_forceReport, m_shadow>>,
         \A d \in Binder \ {b} : call'[d] = call[d],
         Carries(b, k) => Carries(b, k)',
         data'[k] = data[k], cloud'[k] = cloud[k], writer'[k] = writer[k],
         k \in report => k \in report', m_reportFlag => m_reportFlag',
         k \in missed => k \in missed', k \in overtaken => k \in overtaken'
  PROVE  writer'[k] # "calloc" => Excused(k)' \/ Placed(k)'
<1>1. ASSUME NEW d \in Binder, Carries(d, k) PROVE Carries(d, k)'
  BY <1>1 DEF Carries
<1>2. Excused(k) => Excused(k)'
  BY <1>1 DEF Excused
<1>3. Placed(k) => Placed(k)'
  BY DEF Placed, Pushing
<1> QED BY <1>2, <1>3 DEF KeptInv

\* The steps of a binder thread keep track of every value.
LEMMA BinderKept ==
  ASSUME TypeOK, AttrsInv, CallsInv, KeptInv, NEW b \in Binder, BinderNext(b)
  PROVE  KeptInv'
<1> SUFFICES ASSUME NEW k \in Attr PROVE writer'[k] # "calloc" => Excused(k)' \/ Placed(k)'
  BY DEF KeptInv
<1> USE DEF flags, thread, history
<1>1. /\ call \in [Binder -> CallState]
      /\ data \in [Attr -> Value]
      /\ writer \in [Attr -> {"calloc", "reportProperty", "IOT thread"}]
      /\ call[b].key \in Attr /\ call[b].val \in Value
      /\ Urgent \subseteq Attr
  BY ShadowAssumption DEF TypeOK, CallState, ShadowAssumption, Attr
<1>2. /\ UNCHANGED <<iot, batch, g_forceReport, m_shadow>>
      /\ m_reportFlag => m_reportFlag'
  BY BinderFrame
<1>3. \A d \in Binder \ {b} : call'[d] = call[d]
  BY <1>1
  DEF BinderNext, BinderSteps, AddProperty, ReportStore, RegisterNew, ReportFlag,
      ReportFormat, ReportPush, ReportSettle, Return, Goto
<1>4. CASE (\E n \in Name : AddProperty(b, n)) \/ RegisterNew(b)
  <2>1. ~Carries(b, k)
    BY <1>4 DEF AddProperty, RegisterNew, Carries
  <2> QED BY <1>2, <1>3, <1>4, <2>1, Untouched DEF AddProperty, RegisterNew
<1>5. ASSUME NEW n \in Urgent, NEW v \in Value, ReportStore(b, n, v)
      PROVE  writer'[k] # "calloc" => Excused(k)' \/ Placed(k)'
  <2>1. CASE k = n
    <3>1. call'[b] = [pc |-> "flag", key |-> n, val |-> Zero]
      BY <1>1, <1>5 DEF ReportStore
    <3>2. Carries(b, k)'
      BY <2>1, <3>1 DEF Carries
    <3> QED BY <2>1, <3>2 DEF Excused
  <2>2. CASE k # n
    <3>1. ~Carries(b, k)
      BY <1>5 DEF ReportStore, Carries
    <3>2. /\ data'[k] = data[k] /\ writer'[k] = writer[k]
          /\ k \in overtaken => k \in overtaken'
          /\ k \in missed => k \in missed'
      BY <1>1, <1>5, <2>2 DEF ReportStore, Write
    <3> QED BY <1>2, <1>3, <1>5, <3>1, <3>2, Untouched DEF ReportStore
  <2> QED BY <2>1, <2>2
<1>6. CASE ReportFlag(b)
  <2>1. CASE m_shadow \/ call[b].key # k
    <3>1. Carries(b, k) => Carries(b, k)'
      <4>1. CASE m_shadow
        <5>1. call'[b] = [pc |-> "format", key |-> call[b].key, val |-> call[b].val]
          BY <1>1, <1>6, <4>1 DEF ReportFlag, Goto
        <5> QED BY <5>1 DEF Carries
      <4>2. CASE call[b].key # k
        BY <4>2 DEF Carries
      <4> QED BY <2>1, <4>1, <4>2
    <3> QED BY <1>2, <1>3, <1>6, <3>1, Untouched DEF ReportFlag
  <2>2. CASE ~m_shadow /\ call[b].key = k /\ iot # "setup"
    <3>1. k \in Urgent
      BY <1>1, <1>6, <2>2 DEF ReportFlag, Reporting, AttrsInv
    <3> QED BY <1>2, <2>2, <3>1 DEF Excused
  <2>3. CASE ~m_shadow /\ call[b].key = k /\ iot = "setup"
    <3>1. k \in report' /\ m_reportFlag'
      BY <1>6, <2>3 DEF ReportFlag, CallsInv
    <3> QED BY <1>2, <2>3, <3>1 DEF Placed, Pushing
  <2> QED BY <2>1, <2>2, <2>3
<1>7. CASE ReportFormat(b)
  <2>1. call'[b] = [pc |-> "send", key |-> call[b].key, val |-> data[call[b].key]]
    BY <1>1, <1>7 DEF ReportFormat, Goto
  <2>2. Carries(b, k) => Carries(b, k)'
    BY <1>7, <2>1 DEF ReportFormat, Carries
  <2> QED BY <1>2, <1>3, <1>7, <2>2, Untouched DEF ReportFormat
<1>8. CASE ReportPush(b)
  <2> DEFINE payload == [n \in {call[b].key} |-> call[b].val]
  <2>0. DOMAIN payload = {call[b].key} /\ payload[call[b].key] = call[b].val
    OBVIOUS
  <2>1. /\ \A n \in Attr \ {call[b].key} :
             cloud'[n] = cloud[n] /\ (n \in overtaken' <=> n \in overtaken)
        /\ missed \subseteq missed'
        /\ \/ call[b].key \in missed'
           \/ /\ cloud'[call[b].key] = call[b].val
              /\ call[b].key \in overtaken' <=> call[b].val # data[call[b].key]
    <3>1. /\ DOMAIN payload \subseteq Attr
          /\ \A n \in DOMAIN payload : payload[n] \in Value
          /\ PushOk(payload) \/ PushFails(payload)
      BY <1>1, <1>8 DEF ReportPush
    <3>2. \/ missed' = missed \cup {call[b].key}
          \/ PushOk(payload) /\ UNCHANGED missed
      BY <1>8 DEF ReportPush
    <3> HIDE DEF payload
    <3>3. CASE missed' = missed \cup {call[b].key}
      BY <2>0, <3>1, <3>3, PushType
    <3>4. CASE PushOk(payload) /\ UNCHANGED missed
      <4>1. Delivered(payload)
        BY <3>4 DEF PushOk
      <4>2. /\ \A n \in Attr \ DOMAIN payload :
                 cloud'[n] = cloud[n] /\ (n \in overtaken' <=> n \in overtaken)
            /\ \A n \in DOMAIN payload :
                 cloud'[n] = payload[n] /\ (n \in overtaken' <=> payload[n] # data[n])
        BY <3>1, <4>1, DeliveredType
      <4> QED BY <2>0, <3>4, <4>2
    <3> QED BY <3>2, <3>3, <3>4
  <2>2. UNCHANGED <<data, writer, report, m_reportFlag>>
    BY <1>8 DEF ReportPush
  <2>3. CASE call[b].key = k
    <3>1. k \in Urgent
      BY <1>1, <1>8, <2>3 DEF ReportPush, Reporting, AttrsInv
    <3>2. CASE k \in missed' \/ k \in overtaken'
      BY <3>1, <3>2 DEF Excused
    <3>3. CASE cloud'[k] = data'[k]
      BY <3>3 DEF Placed
    <3> QED BY <2>1, <2>2, <2>3, <3>2, <3>3
  <2>4. CASE call[b].key # k
    <3>1. ~Carries(b, k)
      BY <2>4 DEF Carries
    <3> QED BY <1>2, <1>3, <2>1, <2>2, <2>4, <3>1, Untouched
  <2> QED BY <2>3, <2>4
<1>9. CASE ReportSettle(b)
  <2>1. ~Carries(b, k)
    BY <1>9 DEF ReportSettle, Carries
  <2>2. CASE call[b].key = k
    <3>1. k \in Urgent
      BY <1>1, <1>9, <2>2 DEF ReportSettle, Reporting, AttrsInv
    <3>2. CASE cloud[k] # data[k]
      BY <1>9, <2>2, <3>1, <3>2 DEF ReportSettle, Excused
    <3>3. CASE cloud[k] = data[k]
      BY <1>9, <3>3 DEF ReportSettle, Placed
    <3> QED BY <3>2, <3>3
  <2>3. CASE call[b].key # k
    <3>1. /\ UNCHANGED <<data, cloud, writer>>
          /\ k \in report => k \in report'
          /\ k \in missed => k \in missed'
          /\ k \in overtaken => k \in overtaken'
      BY <1>9, <2>3 DEF ReportSettle
    <3> QED BY <1>2, <1>3, <2>1, <3>1, Untouched
  <2> QED BY <2>2, <2>3
<1> QED BY <1>4, <1>5, <1>6, <1>7, <1>8, <1>9 DEF BinderNext, BinderSteps

\* A step of the IOT thread outside pushProperties that does not concern an
\* attribute keeps track of it.
LEMMA Waiting ==
  ASSUME NEW k \in Attr, KeptInv, ~Pushing, ~Pushing',
         UNCHANGED <<batch, call>>,
         data'[k] = data[k], cloud'[k] = cloud[k], writer'[k] = writer[k],
         k \in report => k \in report', m_reportFlag => m_reportFlag',
         g_forceReport => g_forceReport',
         k \in missed => k \in missed', k \in overtaken => k \in overtaken',
         ~m_shadow /\ iot # "setup" => ~m_shadow' /\ iot' # "setup"
  PROVE  writer'[k] # "calloc" => Excused(k)' \/ Placed(k)'
<1>1. Excused(k) => Excused(k)'
  BY DEF Excused, Carries
<1>2. Placed(k) => Placed(k)'
  BY DEF Placed, Pushing
<1> QED BY <1>1, <1>2 DEF KeptInv

\* Every step keeps track of every value.
LEMMA NextValuesInv ==
  TypeOK /\ AttrsInv /\ CallsInv /\ ValuesInv /\ [Next]_vars => ValuesInv'
<1> SUFFICES ASSUME TypeOK, AttrsInv, CallsInv, ValuesInv, [Next]_vars
             PROVE  ValuesInv'
  OBVIOUS
<1> USE DEF flags, thread, history
<1>1. /\ data \in [Attr -> Value]
      /\ writer \in [Attr -> {"calloc", "reportProperty", "IOT thread"}]
      /\ DOMAIN batch \subseteq Attr /\ added \subseteq Attr /\ report \subseteq added
      /\ Name \subseteq Attr /\ ReportPeriod \in Attr
      /\ KeptInv
  BY DEF TypeOK, AttrsInv, Attr, ValuesInv
<1>2. ASSUME NEW b \in Binder, BinderNext(b)
      PROVE  ValuesInv'
  <2>1. /\ UNCHANGED <<iot, batch>>
        /\ report' \subseteq Attr
        /\ \A k \in Attr \ Urgent : (k \in report' <=> k \in report) /\ data'[k] = data[k]
    BY <1>2, BinderFrame
  <2>2. KeptInv'
    BY <1>1, <1>2, BinderKept
  <2> QED BY <1>1, <2>1, <2>2 DEF ValuesInv, Pushing
<1>3. ASSUME \/ SetupShadow \/ SetupConnInfoFails \/ ClientArrived \/ RegisterAttributes
             \/ YieldReturns \/ PollEnd \/ PushSkip \/ \E k \in Name : PollNoAnswer(k)
      PROVE  ValuesInv'
  <2>1. /\ ~Pushing /\ ~Pushing'
        /\ UNCHANGED <<data, report, m_reportFlag, g_forceReport, batch, call, cloud,
                       writer, missed, overtaken>>
        /\ ~m_shadow /\ iot # "setup" => ~m_shadow' /\ iot' # "setup"
    BY <1>3
    DEF SetupShadow, SetupConnInfoFails, ClientArrived, RegisterAttributes, YieldReturns,
        PollEnd, PushSkip, PollNoAnswer, Pushing
  <2>2. KeptInv'
    <3> SUFFICES ASSUME NEW k \in Attr PROVE writer'[k] # "calloc" => Excused(k)' \/ Placed(k)'
      BY DEF KeptInv
    <3> QED BY <1>1, <2>1, Waiting
  <2> QED BY <2>1, <2>2 DEF ValuesInv, Pushing
<1>4. ASSUME (\E k \in Name, v \in Value : PropertyDelta(k, v))
               \/ \E v \in Value : PeriodDelta(v)
      PROVE  ValuesInv'
  <2>1. g_forceReport' /\ UNCHANGED <<iot, batch>> /\ iot = "yield"
    BY <1>4 DEF PropertyDelta, PeriodDelta
  <2>2. KeptInv'
    BY <2>1 DEF KeptInv, Placed
  <2> QED BY <2>1, <2>2 DEF ValuesInv, Pushing
<1>5. ASSUME NEW n \in Name, NEW v \in Value, PollAnswer(n, v)
      PROVE  ValuesInv'
  <2>1. /\ ~Pushing /\ ~Pushing' /\ iot = "polling"
        /\ UNCHANGED <<iot, g_forceReport, m_shadow, batch, call, cloud>>
    BY <1>5 DEF PollAnswer, Pushing
  <2>2. ASSUME NEW k \in Attr
        PROVE  writer'[k] # "calloc" => Excused(k)' \/ Placed(k)'
    <3>1. CASE v # data[n] /\ k = n
      <4>1. k \in report' /\ m_reportFlag'
        BY <1>5, <3>1 DEF PollAnswer
      <4> QED BY <2>1, <4>1 DEF Placed, Pushing
    <3>2. CASE v = data[n] \/ k # n
      <4>1. /\ data'[k] = data[k] /\ writer'[k] = writer[k]
            /\ k \in report => k \in report'
            /\ m_reportFlag => m_reportFlag'
            /\ k \in overtaken => k \in overtaken'
            /\ k \in missed => k \in missed'
        BY <1>1, <1>5, <3>2 DEF PollAnswer, Write
      <4> QED BY <1>1, <2>1, <4>1, Waiting
    <3> QED BY <3>1, <3>2
  <2> QED BY <2>1, <2>2 DEF ValuesInv, KeptInv, Pushing
<1>6. ASSUME PushFormat
      PROVE  ValuesInv'
  <2> DEFINE dirty == IF g_forceReport THEN added ELSE report
  <2>1. /\ batch' = [k \in dirty |-> data[k]]
        /\ report' = report \ dirty
        /\ iot = "push" /\ iot' = IF dirty = {} THEN "clearFlag" ELSE "send"
        /\ missed' = missed \ dirty
        /\ UNCHANGED <<data, cloud, writer, overtaken, call, m_shadow>>
    BY <1>6 DEF PushFormat
  <2>2. report' = {}
    BY <1>1, <2>1
  <2>3. ASSUME NEW k \in Attr, writer[k] # "calloc", k \notin dirty, ~Excused(k)
        PROVE  cloud[k] = data[k]
    BY <1>1, <2>1, <2>3 DEF KeptInv, Placed, Pushing, AttrsInv
  <2> HIDE DEF dirty
  <2>4. DOMAIN batch' = dirty /\ \A k \in dirty : batch'[k] = data[k]
    BY <2>1
  <2>5. ASSUME NEW k \in Attr, writer'[k] # "calloc"
        PROVE  Excused(k)' \/ Placed(k)'
    <3>1. CASE k \in dirty
      BY <2>1, <2>4, <3>1 DEF Placed, Pushing
    <3>2. CASE k \notin dirty /\ Excused(k)
      BY <2>1, <3>2 DEF Excused, Carries
    <3>3. CASE k \notin dirty /\ ~Excused(k)
      BY <2>1, <2>3, <2>5, <3>3 DEF Placed
    <3> QED BY <3>1, <3>2, <3>3
  <2> QED BY <2>1, <2>2, <2>4, <2>5 DEF ValuesInv, KeptInv, Pushing
<1>7. ASSUME PushBatch
      PROVE  ValuesInv'
  <2>1. /\ \A k \in Attr \ DOMAIN batch :
             cloud'[k] = cloud[k] /\ (k \in overtaken' <=> k \in overtaken)
        /\ \/ UNCHANGED <<cloud, overtaken>>
           \/ \A k \in DOMAIN batch :
                cloud'[k] = batch[k] /\ (k \in overtaken' <=> batch[k] # data[k])
    BY <1>7, PushType DEF PushBatch, TypeOK
  <2>2. /\ iot = "send" /\ iot' = "clearFlag"
        /\ DOMAIN batch' = {}
        /\ missed' = missed \cup {k \in DOMAIN batch : cloud'[k] # batch[k]}
        /\ UNCHANGED <<data, report, writer, call, m_shadow>>
    BY <1>7 DEF PushBatch, NoBatch
  <2>3. ASSUME NEW k \in Attr, writer'[k] # "calloc"
        PROVE  Excused(k)' \/ Placed(k)'
    <3>1. CASE Excused(k) /\ (k \in overtaken => k \in overtaken')
      BY <2>2, <3>1 DEF Excused, Carries
    <3>2. CASE k \in DOMAIN batch /\ batch[k] = data[k]
      <4>1. k \in missed' \/ cloud'[k] = data'[k]
        BY <2>2, <3>2
      <4> QED BY <2>2, <4>1 DEF Excused, Placed, Pushing
    <3>3. CASE k \in DOMAIN batch /\ batch[k] # data[k] /\ ~UNCHANGED <<cloud, overtaken>>
      <4>1. k \in Urgent /\ k \in overtaken'
        BY <2>1, <3>3 DEF ValuesInv
      <4> QED BY <4>1 DEF Excused
    <3>4. CASE ~Excused(k) /\ cloud'[k] = cloud[k] /\ (k \in DOMAIN batch => batch[k] # data[k])
      BY <1>1, <2>2, <2>3, <3>4 DEF KeptInv, Placed, Pushing
    <3>5. CASE k \notin DOMAIN batch \/ UNCHANGED <<cloud, overtaken>>
      BY <2>1, <3>1, <3>2, <3>4, <3>5
    <3> QED BY <3>2, <3>3, <3>5
  <2> QED BY <2>2, <2>3 DEF ValuesInv, KeptInv, Pushing
<1>8. ASSUME ClearFlag \/ ClearForce
      PROVE  ValuesInv'
  <2>1. /\ iot \in {"clearFlag", "clearForce"} /\ iot' \in {"clearForce", "yield"}
        /\ UNCHANGED <<data, report, m_shadow, batch, call, cloud, writer, missed, overtaken>>
    BY <1>8 DEF ClearFlag, ClearForce
  <2>2. ASSUME NEW k \in Attr, writer'[k] # "calloc"
        PROVE  Excused(k)' \/ Placed(k)'
    <3>1. CASE Excused(k)
      BY <2>1, <3>1 DEF Excused, Carries
    <3>2. CASE ~Excused(k)
      BY <1>1, <2>1, <2>2, <3>2 DEF KeptInv, Placed
    <3> QED BY <3>1, <3>2
  <2> QED BY <2>1, <2>2 DEF ValuesInv, KeptInv, Pushing
<1>9. CASE UNCHANGED vars
  BY <1>9 DEF vars, ValuesInv, KeptInv, Excused, Placed, Carries, Pushing
<1> QED BY <1>2, <1>3, <1>4, <1>5, <1>6, <1>7, <1>8, <1>9 DEF Next, IotNext, LoopSteps

-----------------------------------------------------------------------------
(* Report bits and registrations.                                          *)

\* Steps of binder threads: a report bit they set is theirs until they have
\* set the flag.
LEMMA BinderReportInv ==
  ASSUME TypeOK, AttrsInv, ReportInv, NEW b \in Binder, BinderNext(b)
  PROVE  ReportInv'
<1> USE DEF flags, thread, history
<1> SUFFICES ASSUME m_shadow' \/ iot' = "setup", NEW k \in report' \ missed'
             PROVE  \/ \E d \in Binder : Reporting(d, k)'
                    \/ ~Pushing' /\ (m_reportFlag' \/ g_forceReport')
  BY DEF ReportInv
<1>1. /\ UNCHANGED <<iot, g_forceReport, m_shadow>>
      /\ m_reportFlag => m_reportFlag'
      /\ Pushing' <=> Pushing
  BY BinderFrame DEF Pushing
<1>2. report \subseteq Attr /\ Urgent \subseteq Attr
  BY ShadowAssumption DEF ShadowAssumption, TypeOK, Attr
<1>3. CASE \E n \in Urgent, v \in Value : ReportStore(b, n, v)
  <2>1. PICK n \in Urgent, v \in Value : ReportStore(b, n, v)
    BY <1>3
  <2>2. CASE k = n
    <3>1. Reporting(b, k)'
      BY <1>2, <2>1, <2>2, ReportingStep
    <3> QED BY <3>1
  <2>3. CASE k # n
    <3>1. k \in report \ missed
      BY <2>1, <2>3 DEF ReportStore, Write
    <3>2. ~ Reporting(b, k)
      BY <2>1 DEF ReportStore, Reporting
    <3>3. \A d \in Binder \ {b} : Reporting(d, k) => Reporting(d, k)'
      BY <1>2, <2>1, <3>1, ReportingStep
    <3> QED BY <1>1, <3>1, <3>2, <3>3 DEF ReportInv
  <2> QED BY <2>2, <2>3
<1>4. CASE ReportSettle(b)
  <2>1. k \in report \ missed /\ ~ Reporting(b, k)
    BY <1>4 DEF ReportSettle, Reporting
  <2>2. \A d \in Binder \ {b} : Reporting(d, k) => Reporting(d, k)'
    BY <1>2, <1>4, <2>1, ReportingStep
  <2> QED BY <1>1, <2>1, <2>2 DEF ReportInv
<1>5. CASE ReportFlag(b)
  <2>1. k \in report \ missed /\ m_reportFlag'
    BY <1>5 DEF ReportFlag
  <2>2. CASE Pushing
    <3>1. m_shadow
      BY <1>1, <2>2 DEF Pushing
    <3>2. \A d \in Binder : Reporting(d, k) => Reporting(d, k)'
      BY <1>2, <1>5, <2>1, <3>1, ReportingStep
    <3> QED BY <1>1, <2>1, <2>2, <3>2 DEF ReportInv
  <2> QED BY <1>1, <2>1, <2>2
<1>6. CASE (\E n \in Name : AddProperty(b, n)) \/ RegisterNew(b) \/ ReportFormat(b)
             \/ ReportPush(b)
  <2>0. missed \subseteq missed'
    <3>1. CASE ReportPush(b)
      BY <3>1 DEF ReportPush
    <3> QED BY <1>6, <3>1 DEF AddProperty, RegisterNew, ReportFormat
  <2>1. k \in report \ missed
    BY <1>6, <2>0 DEF AddProperty, RegisterNew, ReportFormat, ReportPush
  <2>2. \A d \in Binder : Reporting(d, k) => Reporting(d, k)'
    BY <1>2, <1>6, <2>1, ReportingStep
  <2> QED BY <1>1, <2>1, <2>2 DEF ReportInv
<1> QED BY <1>3, <1>4, <1>5, <1>6 DEF BinderNext, BinderSteps

\* Every step sees to it that a report bit is seen to.
LEMMA NextReportInv == TypeOK /\ AttrsInv /\ ReportInv /\ [Next]_vars => ReportInv'
<1> SUFFICES ASSUME TypeOK, AttrsInv, ReportInv, [Next]_vars
             PROVE  ReportInv'
  OBVIOUS
<1> USE DEF flags, thread, history
<1>1. ASSUME NEW b \in Binder, BinderNext(b)
      PROVE  ReportInv'
  BY <1>1, BinderReportInv
<1>2. ASSUME UNCHANGED <<report, m_reportFlag, g_forceReport, call>>, Pushing' <=> Pushing,
             missed \subseteq missed',
             m_shadow' \/ iot' = "setup" => m_shadow \/ iot = "setup"
      PROVE  ReportInv'
  BY <1>2 DEF ReportInv, Reporting
<1>3. ASSUME \/ SetupShadow \/ SetupConnInfoFails \/ ClientArrived \/ RegisterAttributes
             \/ YieldReturns \/ PollEnd \/ PushSkip \/ (\E k \in Name : PollNoAnswer(k))
      PROVE  ReportInv'
  BY <1>2, <1>3
  DEF SetupShadow, SetupConnInfoFails, ClientArrived, RegisterAttributes, YieldReturns,
      PollEnd, PushSkip, PollNoAnswer, Pushing
<1>4. ASSUME \/ \E k \in Name, v \in Value : PropertyDelta(k, v)
             \/ \E v \in Value : PeriodDelta(v)
      PROVE  ReportInv'
  BY <1>4 DEF PropertyDelta, PeriodDelta, ReportInv, Reporting, Pushing
<1>5. ASSUME NEW k \in Name, NEW v \in Value, PollAnswer(k, v)
      PROVE  ReportInv'
  <2>1. CASE v = data[k]
    BY <1>2, <1>5, <2>1 DEF PollAnswer, Pushing
  <2>2. CASE v # data[k]
    BY <1>5, <2>2 DEF PollAnswer, Pushing, ReportInv
  <2> QED BY <2>1, <2>2
<1>6. ASSUME PushFormat
      PROVE  ReportInv'
  <2>1. report' = {}
    BY <1>6 DEF PushFormat, AttrsInv
  <2> QED BY <2>1 DEF ReportInv
<1>7. ASSUME ClearFlag \/ ClearForce
      PROVE  ReportInv'
  BY <1>7 DEF ClearFlag, ClearForce, ReportInv, Reporting, Pushing
<1>8. CASE PushBatch
  <2>1. missed \subseteq missed'
    BY <1>8 DEF PushBatch
  <2> QED BY <1>2, <1>8, <2>1 DEF PushBatch, Pushing
<1>9. CASE UNCHANGED vars
  BY <1>9 DEF vars, ReportInv, Reporting, Pushing
<1> QED BY <1>1, <1>3, <1>4, <1>5, <1>6, <1>7, <1>8, <1>9 DEF Next, IotNext, LoopSteps

\* Every step keeps every attribute registered or about to be.
LEMMA NextNoMissedRegistration ==
  TypeOK /\ AttrsInv /\ NoMissedRegistration /\ [Next]_vars => NoMissedRegistration'
<1> SUFFICES ASSUME TypeOK, AttrsInv, NoMissedRegistration, [Next]_vars
             PROVE  NoMissedRegistration'
  OBVIOUS
<1> USE DEF flags, thread, history
<1>1. ASSUME NEW b \in Binder, BinderNext(b)
      PROVE  NoMissedRegistration'
  <2> SUFFICES ASSUME m_shadow', iot' \notin {"wait", "register"}, NEW k \in added' \ sdk'
               PROVE  \E d \in Binder : Registering(d, k)'
    BY DEF NoMissedRegistration, Registering
  <2>1. UNCHANGED <<iot, m_shadow>>
    BY <1>1, BinderFrame
  <2>2. k \in Attr
    BY <1>1 DEF BinderNext, BinderSteps, AddProperty, RegisterNew, ReportStore, ReportFlag,
                ReportFormat, ReportPush, ReportSettle, TypeOK, Attr
  <2>3. CASE \E n \in Name : AddProperty(b, n)
    <3>1. PICK n \in Name : AddProperty(b, n)
      BY <2>3
    <3>2. CASE k = n
      BY <2>2, <3>1, <3>2, RegisteringStep
    <3>3. CASE k # n
      <4>1. k \in added \ sdk /\ ~ Registering(b, k)
        BY <3>1, <3>3 DEF AddProperty, Registering
      <4>2. PICK d \in Binder : Registering(d, k)
        BY <2>1, <4>1 DEF NoMissedRegistration, Registering
      <4>3. Registering(d, k)'
        BY <2>2, <3>1, <4>1, <4>2, RegisteringStep
      <4> QED BY <4>3
    <3> QED BY <3>2, <3>3
  <2>4. CASE RegisterNew(b)
    <3>1. k \in added \ sdk /\ ~ Registering(b, k)
      BY <2>1, <2>4 DEF RegisterNew, Registering
    <3>2. PICK d \in Binder : Registering(d, k)
      BY <2>1, <3>1 DEF NoMissedRegistration, Registering
    <3>3. Registering(d, k)'
      BY <2>2, <2>4, <3>1, <3>2, RegisteringStep
    <3> QED BY <3>3
  <2>5. CASE \/ \E n \in Urgent, v \in Value : ReportStore(b, n, v)
             \/ ReportFlag(b) \/ ReportFormat(b) \/ ReportPush(b) \/ ReportSettle(b)
    <3>1. k \in added \ sdk
      BY <2>5 DEF ReportStore, ReportFlag, ReportFormat, ReportPush, ReportSettle
    <3>2. PICK d \in Binder : Registering(d, k)
      BY <2>1, <3>1 DEF NoMissedRegistration, Registering
    <3>3. Registering(d, k)'
      BY <2>2, <2>5, <3>2, RegisteringStep
    <3> QED BY <3>3
  <2> QED BY <1>1, <2>3, <2>4, <2>5 DEF BinderNext, BinderSteps
<1>2. ASSUME UNCHANGED <<added, sdk, call, m_shadow>>,
             iot' \notin {"wait", "register"} => iot \notin {"wait", "register"}
      PROVE  NoMissedRegistration'
  BY <1>2 DEF NoMissedRegistration
<1>3. ASSUME RegisterAttributes
      PROVE  NoMissedRegistration'
  BY <1>3 DEF RegisterAttributes, NoMissedRegistration
<1>4. ASSUME SetupShadow \/ SetupConnInfoFails \/ ClientArrived
      PROVE  NoMissedRegistration'
  BY <1>4 DEF SetupShadow, SetupConnInfoFails, ClientArrived, NoMissedRegistration
<1>5. ASSUME \/ \E k \in Name, v \in Value : PropertyDelta(k, v)
             \/ \E v \in Value : PeriodDelta(v)
             \/ LoopSteps
      PROVE  NoMissedRegistration'
  BY <1>2, <1>5
  DEF PropertyDelta, PeriodDelta, LoopSteps, YieldReturns, PollAnswer, PollNoAnswer, PollEnd,
      PushSkip, PushFormat, PushBatch, ClearFlag, ClearForce
<1>6. CASE UNCHANGED vars
  BY <1>6 DEF vars, NoMissedRegistration
<1> QED BY <1>1, <1>3, <1>4, <1>5, <1>6 DEF Next, IotNext

-----------------------------------------------------------------------------
(* The theorems.                                                           *)

\* The invariant of the shadow holds of the specification.
THEOREM ShadowInvariant == Spec => []SInv
<1>1. Init => SInv
  BY InitSInv
<1>2. SInv /\ [Next]_vars => SInv'
  BY NextTypeOK, NextAttrsInv, NextCallsInv, NextValuesInv, NextReportInv,
     NextNoMissedRegistration
  DEF SInv
<1> QED BY <1>1, <1>2, PTL DEF Spec

\* Every variable stays in its range.
THEOREM ShadowTypeCorrect == Spec => []TypeOK
<1>1. SInv => TypeOK
  BY DEF SInv
<1> QED BY <1>1, ShadowInvariant, PTL

\* No attribute falls between the registration loop of preShadow and the test
\* of doAddProperty, however many binder threads add properties meanwhile.
THEOREM AllRegistered == Spec => []NoMissedRegistration
<1>1. SInv => NoMissedRegistration
  BY DEF SInv
<1> QED BY <1>1, ShadowInvariant, PTL

\* No value is lost on its way to the cloud but by a push that fails or, if
\* clients report the attribute, by one of two races between an urgent push
\* and another one.
THEOREM ValuesArrive == Spec => []ValuesConverge
<1>1. SInv => ValuesConverge
  BY DEF SInv, ValuesInv, KeptInv, Excused, Placed, ValuesConverge, Pushing, TypeOK, Thread
<1> QED BY <1>1, ShadowInvariant, PTL

\* A set report bit is always seen to: by the call that set it or by a flag
\* that pushProperties looks at, unless an urgent push failed.
THEOREM NoReportStranded == Spec => []NoStrandedReport
<1>1. SInv => NoStrandedReport
  BY DEF SInv, ReportInv, NoStrandedReport, Reporting, Busy
<1> QED BY <1>1, ShadowInvariant, PTL
=============================================================================
