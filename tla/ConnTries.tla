------------------------------ MODULE ConnTries ------------------------------
(***************************************************************************)
(* How often connService looks for the server (_connect of                 *)
(* jni/client/IOT_ClientJNI.cpp): the product of the timeout and 1000 is   *)
(* made in an int of 32 bits, which wraps around in the builds at hand,    *)
(* and C's division rounds towards zero.  The numbers are beyond those of  *)
(* a model checker; the theorems say what OutOfTries of IOTClientJNI takes *)
(* from here.                                                              *)
(***************************************************************************)
EXTENDS Integers, TLAPS

USLEEP_TIME == 100000

\* What an int of 32 bits makes of x.
Int32(x) ==
  LET Half == 32768 * 65536
  IN  ((x + Half) % (2 * Half)) - Half

\* C's division by a positive number.
CDiv(a, b) == IF a >= 0 THEN a \div b ELSE -((-a) \div b)

TryCnt(timeout_ms) == CDiv(Int32(timeout_ms * 1000), USLEEP_TIME) + 1

\* Up to 2147 s the server is looked for once more than the timeout has
\* tenths of a second, and so at least once.
THEOREM TriesAsAsked ==
  ASSUME NEW ms \in Nat, ms <= 2147 * 1000
  PROVE  TryCnt(ms) = ms \div 100 + 1
<1>1. Int32(ms * 1000) = ms * 1000
  BY SMT DEF Int32
<1>2. (ms * 1000) \div 100000 = ms \div 100
  BY SMT
<1> QED BY <1>1, <1>2, SMT DEF TryCnt, CDiv, USLEEP_TIME

\* serviceDied asks for 6000 s.  The product wraps around to a positive number
\* that is still good for half an hour of tries.
THEOREM ReconnectTries == TryCnt(USLEEP_TIME * 60) = 17051
BY SMT DEF TryCnt, Int32, CDiv, USLEEP_TIME

\* From 2148 s to 4294 s the product is negative, and connService gives up
\* without one try.
THEOREM NoTry ==
  ASSUME NEW ms \in Nat, 2148 * 1000 <= ms, ms <= 4294 * 1000
  PROVE  TryCnt(ms) <= 0
<1> DEFINE n == 65536 * 65536 - ms * 1000
<1>1. Int32(ms * 1000) = -n
  BY SMT DEF Int32
<1>2. n \in Nat /\ n >= 100000
  BY SMT
<1>3. n \div 100000 >= 1
  BY <1>2, SMT
<1> HIDE DEF n
<1> QED BY <1>1, <1>2, <1>3, SMT DEF TryCnt, CDiv, USLEEP_TIME
==============================================================================
