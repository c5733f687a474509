----------------------------- MODULE ReportPeriod -----------------------------
(***************************************************************************)
(* When the IOT thread polls (threadLoop of                                *)
(* jni/server/IOT_DeviceShadow.cpp).  The cloud sets the period as an int  *)
(* of 32 bits; updateReportReriod takes an unsigned one, and the loop      *)
(* compares it with the milliseconds since the last poll in 64 bits.  The  *)
(* numbers are beyond those of a model checker; DeviceShadow lets a round  *)
(* of the loop poll or not.                                                *)
(***************************************************************************)
EXTENDS Integers, TLAPS

\* What an unsigned int of 32 bits makes of x.
UInt32(x) == x % (65536 * 65536)

\* m_reportPeriod, when the cloud has set the property to t.
Period(t) == UInt32(t)

\* Whether the loop polls, elapsed milliseconds after it did so last.
Polls(period, elapsed) == period < elapsed

Day == 24 * 3600 * 1000

\* A period that is not negative is what the cloud asked for.
THEOREM PeriodAsAsked ==
  ASSUME NEW t \in Nat, t < 32768 * 65536, NEW elapsed \in Nat
  PROVE  Polls(Period(t), elapsed) <=> t < elapsed
<1>1. UInt32(t) = t
  BY SMT DEF UInt32
<1> QED
  BY <1>1 DEF Polls, Period

\* After any negative period nothing is polled for 24 days, and the closer it is
\* to zero the longer; and never 50 days.
THEOREM NegativePeriodWaits ==
  ASSUME NEW t \in Int, -(32768 * 65536) <= t, t < 0, NEW elapsed \in Nat
  PROVE  /\ Polls(Period(t), elapsed) <=> 65536 * 65536 + t < elapsed
         /\ elapsed <= 24 * Day => ~Polls(Period(t), elapsed)
         /\ elapsed >= 50 * Day => Polls(Period(t), elapsed)
<1>1. UInt32(t) = 65536 * 65536 + t
  BY SMT DEF UInt32
<1>2. /\ Day \in Nat
      /\ 24 * Day <= 32768 * 65536
      /\ 65536 * 65536 <= 50 * Day
  BY SMT DEF Day
<1> QED
  BY <1>1, <1>2, SMT DEF Polls, Period
===============================================================================
