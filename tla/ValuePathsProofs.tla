--------------------------- MODULE ValuePathsProofs ---------------------------
EXTENDS ValuePaths, CommandParserProofs

LEMMA TextIsSeq ==
  ASSUME NEW s \in Text
  PROVE  s \in Seq(Byte) /\ Len(s) \in 0..MaxLen /\ \A i \in 1..Len(s) : s[i] \in Byte
<1>1. PICK n \in 0..MaxLen : s \in [1..n -> Byte]
  BY DEF Text
<1>2. n \in Nat
  BY ValueAssumption
<1>3. s \in Seq(Byte)
  BY <1>1, <1>2, SeqDef
<1>4. Len(s) = n
  BY <1>1, <1>2, <1>3, LenProperties
<1> QED
  BY <1>1, <1>2, <1>3, <1>4

-----------------------------------------------------------------------------
(* Buffers.                                                                *)

\* The first n bytes of buf are a string, and the others are zeros.
Filled(buf, n) == \A i \in 1..Size : buf[i] # Nul <=> i <= n

LEMMA StrlenOfFilled ==
  ASSUME NEW buf \in Buffer, NEW n \in 0..(Size - 1), Filled(buf, n)
  PROVE  Strlen(buf) = n
<1> USE ValueAssumption
<1> DEFINE Ends(k) == buf[k + 1] = Nul /\ \A i \in 1..k : buf[i] # Nul
<1>1. Ends(n)
  BY DEF Filled
<1>2. \A k \in 0..(Size - 1) : Ends(k) => k = n
  <2> SUFFICES ASSUME NEW k \in 0..(Size - 1), Ends(k)  PROVE k = n
    OBVIOUS
  <2>1. ~(k < n)
    BY DEF Filled
  <2>2. ~(n < k)
    <3> SUFFICES ASSUME n < k  PROVE FALSE
      OBVIOUS
    <3>1. n + 1 \in 1..k /\ n + 1 \in 1..Size
      OBVIOUS
    <3> QED
      BY <3>1 DEF Filled
  <2> QED
    BY <2>1, <2>2
<1> QED
  BY <1>1, <1>2 DEF Strlen

\* The string in a buffer that is filled to n.
LEMMA CStringOfFilled ==
  ASSUME NEW buf \in Buffer, NEW n \in 0..MaxLen, Filled(buf, n)
  PROVE  /\ CString(buf) = [i \in 1..n |-> buf[i]]
         /\ CString(buf) \in Text
         /\ Len(CString(buf)) = n
<1> USE ValueAssumption
<1>1. n \in 0..(Size - 1)
  OBVIOUS
<1>2. CString(buf) = [i \in 1..n |-> buf[i]]
  BY <1>1, StrlenOfFilled DEF CString
<1>3. \A i \in 1..n : buf[i] \in Byte
  BY DEF Filled, Buffer
<1>4. CString(buf) \in [1..n -> Byte]
  BY <1>2, <1>3
<1>5. CString(buf) \in Text
  BY <1>4 DEF Text
<1>6. CString(buf) \in Seq(Byte)
  BY <1>5, TextIsSeq
<1>7. Len(CString(buf)) = n
  BY <1>2, <1>6, LenProperties
<1> QED
  BY <1>2, <1>5, <1>7

\* Copying n bytes of a string over a string keeps the longer of the two.
LEMMA MemcpyFills ==
  ASSUME NEW buf \in Buffer, NEW m \in 0..MaxLen, Filled(buf, m),
         NEW from, NEW n \in 0..MaxLen, \A i \in 1..n : from[i] \in Byte
  PROVE  LET new == Memcpy(buf, from, n)
             k == IF n > m THEN n ELSE m
         IN /\ new \in Buffer
            /\ Filled(new, k)
            /\ \A i \in 1..n : new[i] = from[i]
            /\ \A i \in 1..Size : i > n => new[i] = buf[i]
<1> USE ValueAssumption
<1> DEFINE new == Memcpy(buf, from, n)
           k == IF n > m THEN n ELSE m
<1>1. new = [i \in 1..Size |-> IF i <= n THEN from[i] ELSE buf[i]]
  BY DEF Memcpy
<1>2. \A i \in 1..Size : i <= n => i \in 1..n
  OBVIOUS
<1>3. \A i \in 1..n : i \in 1..Size
  OBVIOUS
<1>4. new \in Buffer
  BY <1>1, <1>2 DEF Buffer
<1>5. \A i \in 1..n : new[i] = from[i]
  BY <1>1, <1>3
<1>6. \A i \in 1..Size : i > n => new[i] = buf[i]
  BY <1>1
<1>7. Nul \notin Byte
  BY DEF Byte
<1>8. Filled(new, k)
  <2> SUFFICES ASSUME NEW i \in 1..Size  PROVE new[i] # Nul <=> i <= k
    BY DEF Filled
  <2>1. CASE i <= n
    BY <2>1, <1>2, <1>5, <1>7
  <2>2. CASE i > n
    BY <2>2, <1>6 DEF Filled
  <2> QED
    BY <2>1, <2>2
<1> QED
  BY <1>4, <1>5, <1>6, <1>8

-----------------------------------------------------------------------------
(* The inductive invariant.                                                *)

\* The string stored last, before what is left of longer ones; a number's
\* memory does not matter.
BytesInv ==
  type # INT32 =>
    /\ Filled(bytes, longest)
    /\ Len(want) <= longest
    /\ \A i \in 1..Len(want) : bytes[i] = want[i]

\* The last answer of the round, before what is left of longer ones.
RoundInv ==
  /\ Filled(value, most)
  /\ len <= most
  /\ \A i \in 1..len : value[i] = str[i]

\* What the last round left in the attribute, while nobody has reported since.
PreviousInv ==
  previous # <<>> /\ previous[2] > 0 =>
    /\ type = INT32 => number = Atoi(CString(previous[1]))
    /\ type = STRING8 =>
         /\ previous[2] <= longest
         /\ \A i \in 1..previous[2] : bytes[i] = previous[1][i]

PInv ==
  /\ TypeOK
  /\ type = 0 => previous = <<>> /\ iot = "yield"
  /\ BytesInv
  /\ RoundInv
  /\ PreviousInv

LEMMA EmptyText ==
  /\ <<>> \in Text /\ Len(<<>>) = 0
  /\ Zeros \in Buffer /\ Filled(Zeros, 0)
<1> USE ValueAssumption
<1>1. <<>> \in [1..0 -> Byte]
  OBVIOUS
<1>2. <<>> \in Text
  BY <1>1 DEF Text
<1>3. Zeros \in Buffer /\ Filled(Zeros, 0)
  BY DEF Zeros, Buffer, Filled
<1> QED
  BY <1>2, <1>3

LEMMA InitPInv == Init => PInv
<1> USE ValueAssumption DEF Init
<1> SUFFICES ASSUME Init  PROVE PInv
  OBVIOUS
<1>1. <<>> \in Text /\ Len(<<>>) = 0
  BY EmptyText
<1>2. Zeros \in Buffer /\ Filled(Zeros, 0)
  BY EmptyText
<1>3. TypeOK
  <2>1. type \in Type \cup {0} /\ number \in {0} \cup {Atoi(s) : s \in Text}
    OBVIOUS
  <2>2. previous \in {<<>>} \cup (Buffer \X (0..MaxLen))
    OBVIOUS
  <2>3. next \in 1..(Followers + 1) /\ longest \in 0..MaxLen /\ most \in 0..MaxLen
    OBVIOUS
  <2>4. order \in {"left", "right"} /\ iot \in {"yield", "ask"} /\ flagged \in BOOLEAN
    OBVIOUS
  <2>5. bytes \in Buffer /\ value \in Buffer
    BY <1>2
  <2>6. str \in Text /\ len = Len(str) /\ want \in Text
    BY <1>1
  <2> QED
    BY <2>1, <2>2, <2>3, <2>4, <2>5, <2>6, Zenon DEF TypeOK
<1>4. BytesInv /\ RoundInv
  BY <1>1, <1>2 DEF BytesInv, RoundInv
<1> QED
  BY <1>3, <1>4 DEF PInv, PreviousInv

\* What Store does to a string that is in Text, whole or in part.
LEMMA StoreKeeps ==
  ASSUME TypeOK, BytesInv, NEW s \in Text, NEW n \in 0..Len(s), Store(s, n)
  PROVE  /\ number' \in {0} \cup {Atoi(t) : t \in Text}
         /\ bytes' \in Buffer
         /\ want' \in Text /\ Len(want') = n
         /\ \A i \in 1..n : want'[i] = s[i]
         /\ longest' \in 0..MaxLen /\ n <= longest'
         /\ type = STRING8 =>
              /\ Filled(bytes', longest')
              /\ \A i \in 1..n : bytes'[i] = s[i]
              /\ \A i \in 1..Size : i > n => bytes'[i] = bytes[i]
<1> USE ValueAssumption
<1>1. s \in Seq(Byte) /\ Len(s) \in 0..MaxLen /\ \A i \in 1..Len(s) : s[i] \in Byte
  BY TextIsSeq
<1>2. n \in 0..MaxLen /\ \A i \in 1..n : s[i] \in Byte
  BY <1>1
<1>3. want' = [i \in 1..n |-> s[i]]
  BY <1>1, <1>2 DEF Store
<1>4. want' \in [1..n -> Byte]
  BY <1>2, <1>3
<1>5. want' \in Text
  BY <1>2, <1>4 DEF Text
<1>6. Len(want') = n
  BY <1>2, <1>3, <1>5, TextIsSeq, LenProperties
<1>7. number' \in {0} \cup {Atoi(t) : t \in Text}
  BY DEF Store, TypeOK
<1>8. longest' \in 0..MaxLen /\ n <= longest'
  BY <1>2 DEF Store, TypeOK
<1>9. CASE type = STRING8
  <2>1. bytes' = Memcpy(bytes, s, n) /\ longest' = IF n > longest THEN n ELSE longest
    BY <1>9 DEF Store, Strncpy
  <2>2. Filled(bytes, longest) /\ bytes \in Buffer /\ longest \in 0..MaxLen
    BY <1>9 DEF BytesInv, TypeOK, INT32, STRING8
  <2>3. /\ bytes' \in Buffer /\ Filled(bytes', longest')
        /\ \A i \in 1..n : bytes'[i] = s[i]
        /\ \A i \in 1..Size : i > n => bytes'[i] = bytes[i]
    BY <2>1, <2>2, <1>2, MemcpyFills
  <2> QED
    BY <2>3, <1>3, <1>5, <1>6, <1>7, <1>8
<1>10. CASE type # STRING8
  <2>1. bytes' \in Buffer
    BY <1>10 DEF Store, TypeOK
  <2> QED
    BY <2>1, <1>3, <1>5, <1>6, <1>7, <1>8, <1>10
<1> QED
  BY <1>9, <1>10

\* The polled buffer as a string: its first len bytes are the last answer.
LEMMA PolledString ==
  ASSUME TypeOK, RoundInv
  PROVE  /\ CString(value) = [i \in 1..most |-> value[i]]
         /\ CString(value) \in Text /\ Len(CString(value)) = most
         /\ len \in 0..most
         /\ \A i \in 1..len : CString(value)[i] = str[i]
         /\ len = most => CString(value) = str
<1> USE ValueAssumption
<1>1. value \in Buffer /\ most \in 0..MaxLen /\ Filled(value, most)
  BY DEF TypeOK, RoundInv
<1>2. /\ CString(value) = [i \in 1..most |-> value[i]]
      /\ CString(value) \in Text /\ Len(CString(value)) = most
  BY <1>1, CStringOfFilled
<1>3. str \in Seq(Byte) /\ len = Len(str) /\ len \in 0..MaxLen
  BY TextIsSeq DEF TypeOK
<1>4. len \in 0..most
  BY <1>1, <1>3 DEF RoundInv
<1>5. \A i \in 1..len : CString(value)[i] = str[i]
  BY <1>1, <1>2, <1>4 DEF RoundInv
<1>6. ASSUME len = most  PROVE CString(value) = str
  <2>1. str = [i \in 1..len |-> str[i]]
    BY <1>3, LenProperties
  <2> QED
    BY <2>1, <1>2, <1>5, <1>6
<1> QED
  BY <1>2, <1>4, <1>5, <1>6

LEMMA NextPInv == PInv /\ [Next]_vars => PInv'
<1> USE ValueAssumption DEF PInv
<1> SUFFICES ASSUME PInv, [Next]_vars  PROVE PInv'
  OBVIOUS
<1> USE DEF attribute, round, history
<1>1. ASSUME NEW d \in Declared, FollowProperty(d[1], d[2])  PROVE PInv'
  <2>1. CASE UNCHANGED vars
    BY <2>1 DEF vars, TypeOK, BytesInv, RoundInv, PreviousInv, Filled
  <2>2. CASE ~ UNCHANGED vars
    <3> DEFINE read == ReadTypeAndSize(d[1], d[2])
    <3>1. /\ type = 0 /\ Accepted(read[1], read[2])
          /\ type' = read[1]
          /\ UNCHANGED <<order, number, bytes, iot, round, flagged, want, longest, most, previous>>
      BY <1>1, <2>2 DEF FollowProperty
    <3>2. read[1] \in Type
      BY <3>1 DEF Accepted
    <3>3. TypeOK'
      BY <3>1, <3>2 DEF TypeOK
    <3>4. (type = 0 => previous = <<>> /\ iot = "yield")'
      BY <3>1, <3>2 DEF Type, INT32, STRING8
    <3>5. BytesInv'
      BY <3>1 DEF BytesInv, Filled, INT32
    <3>6. RoundInv' /\ PreviousInv'
      BY <3>1 DEF RoundInv, Filled, PreviousInv
    <3> QED
      BY <3>3, <3>4, <3>5, <3>6
  <2> QED
    BY <2>1, <2>2
<1>2. ASSUME NEW s \in Text, ReportProperty(s)  PROVE PInv'
  <2>1. Len(s) \in 0..MaxLen /\ Len(s) \in 0..Len(s)
    BY TextIsSeq
  <2>2. Store(s, Len(s)) /\ previous' = <<>>
    BY <1>2 DEF ReportProperty
  <2>3. /\ number' \in {0} \cup {Atoi(t) : t \in Text}
        /\ bytes' \in Buffer
        /\ want' \in Text /\ Len(want') = Len(s)
        /\ \A i \in 1..Len(s) : want'[i] = s[i]
        /\ longest' \in 0..MaxLen /\ Len(s) <= longest'
        /\ type = STRING8 =>
             /\ Filled(bytes', longest')
             /\ \A i \in 1..Len(s) : bytes'[i] = s[i]
    BY <2>1, <2>2, StoreKeeps
  <2>4. UNCHANGED <<order, type, iot, round, flagged, most>> /\ type # 0
    BY <1>2 DEF ReportProperty
  <2>5. TypeOK'
    BY <2>2, <2>3, <2>4 DEF TypeOK
  <2>6. (type = 0 => previous = <<>> /\ iot = "yield")' /\ RoundInv' /\ PreviousInv'
    BY <2>2, <2>4 DEF RoundInv, Filled, PreviousInv
  <2>7. BytesInv'
    BY <2>3, <2>4 DEF BytesInv, Filled, TypeOK, Type
  <2> QED
    BY <2>5, <2>6, <2>7
<1>3. ASSUME PollBegin \/ NoCallback  PROVE PInv'
  <2>1. /\ UNCHANGED <<order, attribute, value, str, len, history>>
        /\ iot' \in {"yield", "ask"} /\ (iot' = iot \/ type # 0)
        /\ next' \in 1..(Followers + 1)
    BY <1>3 DEF PollBegin, NoCallback, TypeOK
  <2> QED
    BY <2>1 DEF TypeOK, BytesInv, RoundInv, PreviousInv, Filled
<1>4. ASSUME NEW s \in Replies, Ask(s)  PROVE PInv'
  <2>1. s \in Text
    BY DEF Replies, TypeOK
  <2>2. /\ Len(s) \in 0..MaxLen
        /\ \A i \in 1..Len(s) : s[i] \in Byte
    BY <2>1, TextIsSeq
  <2>3. /\ next <= Followers /\ next' = next + 1
        /\ str' = s /\ len' = Len(s)
        /\ value' = Memcpy(value, s, Len(s))
        /\ most' = IF Len(s) > most THEN Len(s) ELSE most
        /\ UNCHANGED <<order, attribute, iot, flagged, want, longest, previous>>
    BY <1>4 DEF Ask
  <2>4. value \in Buffer /\ most \in 0..MaxLen /\ Filled(value, most)
    BY DEF TypeOK, RoundInv
  <2>5. /\ value' \in Buffer /\ Filled(value', most')
        /\ \A i \in 1..Len(s) : value'[i] = s[i]
    BY <2>2, <2>3, <2>4, MemcpyFills
  <2>6. most' \in 0..MaxLen /\ Len(s) <= most'
    BY <2>2, <2>3, <2>4
  <2>7. RoundInv'
    BY <2>3, <2>5, <2>6 DEF RoundInv, Filled
  <2>8. TypeOK'
    BY <2>1, <2>3, <2>5, <2>6 DEF TypeOK
  <2> QED
    BY <2>3, <2>7, <2>8 DEF BytesInv, Filled, PreviousInv
<1>5. ASSUME PollEnd  PROVE PInv'
  <2>1. /\ iot' = "yield" /\ flagged' = (len > 0 /\ Differs)
        /\ next' = 1 /\ value' = Zeros /\ str' = <<>> /\ len' = 0 /\ most' = 0
        /\ previous' = <<value, len>>
        /\ UNCHANGED <<order, type>>
    BY <1>5 DEF PollEnd
  <2>2. /\ CString(value) \in Text
        /\ CString(value) = [i \in 1..most |-> value[i]]
        /\ Len(CString(value)) = most /\ len \in 0..most
        /\ \A i \in 1..len : CString(value)[i] = value[i]
    BY PolledString DEF RoundInv, TypeOK
  <2>3. RoundInv'
    BY <2>1 DEF RoundInv, Filled, Zeros
  <2>4. type # 0
    BY <1>5 DEF PollEnd
  <2>5. len \in 0..MaxLen /\ \A i \in 1..len : CString(value)[i] = str[i]
    BY <2>2, TextIsSeq, PolledString DEF TypeOK
  <2>6. CASE flagged'
    <3>1. Store(CString(value), len)
      BY <1>5, <2>6 DEF PollEnd
    <3>2. /\ number' \in {0} \cup {Atoi(t) : t \in Text}
          /\ bytes' \in Buffer
          /\ want' \in Text /\ Len(want') = len
          /\ \A i \in 1..len : want'[i] = CString(value)[i]
          /\ longest' \in 0..MaxLen /\ len <= longest'
          /\ type = STRING8 =>
               /\ Filled(bytes', longest')
               /\ \A i \in 1..len : bytes'[i] = CString(value)[i]
      BY <2>2, <3>1, StoreKeeps
    <3>3. TypeOK'
      BY <2>1, <2>5, <3>2, EmptyText DEF TypeOK
    <3>4. BytesInv'
      BY <2>1, <2>4, <3>2 DEF BytesInv, Filled, TypeOK, Type
    <3>5. type = INT32 => number' = Atoi(CString(value))
      BY <3>1 DEF Store
    <3>6. PreviousInv'
      BY <2>1, <2>2, <3>2, <3>5 DEF PreviousInv
    <3> QED
      BY <2>1, <2>3, <2>4, <3>3, <3>4, <3>6
  <2>7. CASE ~flagged'
    <3>1. UNCHANGED <<number, bytes, want, longest>>
      BY <1>5, <2>7 DEF PollEnd
    <3>2. TypeOK'
      BY <2>1, <2>5, <3>1, EmptyText DEF TypeOK
    <3>3. BytesInv'
      BY <2>1, <3>1 DEF BytesInv, Filled
    <3>4. len > 0 => ~Differs
      BY <2>1, <2>7
    <3>5. len > 0 /\ type = INT32 => number' = Atoi(CString(value))
      BY <3>1, <3>4 DEF Differs
    <3>6. ASSUME len > 0, type = STRING8
          PROVE  len <= longest' /\ \A i \in 1..len : bytes'[i] = value[i]
      <4>1. CString(bytes) = CString(value)
        BY <3>4, <3>6 DEF Differs, INT32, STRING8
      <4>2. /\ CString(bytes) = [i \in 1..longest |-> bytes[i]]
            /\ Len(CString(bytes)) = longest /\ longest \in 0..MaxLen
        BY <3>6, CStringOfFilled DEF BytesInv, TypeOK, INT32, STRING8
      <4>3. most = longest
        BY <2>2, <4>1, <4>2
      <4>4. \A i \in 1..len : i \in 1..longest
        BY <2>2, <4>2, <4>3
      <4> QED
        BY <2>2, <3>1, <4>1, <4>2, <4>3, <4>4
    <3>7. PreviousInv'
      BY <2>1, <3>5, <3>6 DEF PreviousInv
    <3> QED
      BY <2>1, <2>3, <2>4, <3>2, <3>3, <3>7
  <2> QED
    BY <2>6, <2>7
<1>6. CASE UNCHANGED vars
  BY <1>6 DEF vars, TypeOK, BytesInv, RoundInv, PreviousInv, Filled
<1> QED
  BY <1>1, <1>2, <1>3, <1>4, <1>5, <1>6 DEF Next

-----------------------------------------------------------------------------
(* The theorems about the values of a property.                            *)

\* The inductive invariant: types, what is in the attribute's memory and in the
\* buffer of a round, and what the last round left.
THEOREM ValuesInvariant == Spec => []PInv
<1> USE InitPInv, NextPInv
<1> QED
  BY PTL DEF Spec

\* Every variable stays in its range, for any strings and any followers.
THEOREM ValuesTypeCorrect == Spec => []TypeOK
<1>1. PInv => TypeOK
  BY DEF PInv
<1> QED
  BY <1>1, ValuesInvariant, PTL

\* A string property shows the string stored last and never gets shorter.
THEOREM StringsNeverShrink == Spec => []LastStringShows
<1>1. PInv => LastStringShows
  BY DEF PInv, BytesInv, Filled, LastStringShows, INT32, STRING8
<1> QED
  BY <1>1, ValuesInvariant, PTL

\* What the end of a round leaves in the attribute.
LEMMA RoundStores ==
  ASSUME PInv, [Next]_vars, RoundEnds, 0 < len
  PROVE  /\ flagged' <=> Differs
         /\ type = INT32 /\ len = most => number' = Atoi(str)
         /\ type # INT32 => /\ type = STRING8
                            /\ SubSeq(CString(bytes'), 1, len) = str
<1> USE ValueAssumption
<1>1. PollEnd
  BY DEF RoundEnds, Next, PollBegin, NoCallback, Ask, FollowProperty, ReportProperty, vars
<1>2. /\ len = most => CString(value) = str
      /\ Len(str) = len /\ len \in 0..MaxLen
      /\ str \in Seq(Byte)
  BY PolledString, TextIsSeq DEF PInv, TypeOK
<1>3. flagged' <=> Differs
  BY <1>1 DEF PollEnd
<1>4. type = INT32 /\ len = most => number' = Atoi(str)
  <2>1. CASE flagged'
    BY <1>1, <1>2, <2>1 DEF PollEnd, Store
  <2>2. CASE ~flagged'
    BY <1>1, <1>2, <1>3, <2>2 DEF PollEnd, Differs
  <2> QED
    BY <2>1, <2>2
<1>5. ASSUME type # INT32  PROVE type = STRING8 /\ SubSeq(CString(bytes'), 1, len) = str
  <2>1. type = STRING8
    BY <1>1, <1>5 DEF PInv, TypeOK, Type, PollEnd
  <2>2. PInv'
    BY NextPInv
  <2>3. /\ type' = STRING8 /\ previous' = <<value, len>>
    BY <1>1, <2>1 DEF PollEnd
  <2>4. len <= longest' /\ \A i \in 1..len : bytes'[i] = value[i]
    BY <2>2, <2>3 DEF PInv, PreviousInv
  <2>5. /\ CString(bytes') = [i \in 1..longest' |-> bytes'[i]]
        /\ CString(bytes') \in Text
        /\ Len(CString(bytes')) = longest'
        /\ longest' \in 0..MaxLen
    <3>1. bytes' \in Buffer /\ longest' \in 0..MaxLen /\ Filled(bytes', longest')
      BY <2>2, <2>3 DEF PInv, TypeOK, BytesInv, Filled, INT32, STRING8
    <3> QED
      BY <3>1, CStringOfFilled
  <2>6. CString(bytes') \in Seq(Byte)
    BY <2>5, TextIsSeq
  <2>7. SubSeq(CString(bytes'), 1, len) = [i \in 1..len |-> CString(bytes')[i]]
    BY <1>2, <2>4, <2>5, <2>6
  <2>8. \A i \in 1..len : i \in 1..longest' /\ CString(bytes')[i] = str[i]
    BY <1>2, <2>4, <2>5 DEF PInv, RoundInv
  <2>9. str = [i \in 1..len |-> str[i]]
    BY <1>2, LenProperties
  <2> QED
    BY <2>1, <2>7, <2>8, <2>9
<1> QED
  BY <1>2, <1>3, <1>4, <1>5

\* The last follower's answer is in the attribute when a round ends: of a string
\* always, of a number if none before it gave a longer one.
THEOREM LastAnswerShown == Spec => LastAnswerWins
<1>1. PInv /\ [Next]_vars =>
        [RoundEnds /\ 0 < len =>
           IF type = INT32 THEN len = most => number' = Atoi(str)
                           ELSE SubSeq(CString(bytes'), 1, len) = str]_vars
  BY RoundStores
<1> QED
  BY <1>1, ValuesInvariant, PTL DEF Spec, LastAnswerWins

\* Two strings in buffers that agree on their first n bytes are equal when the
\* buffers agree behind them, and only then.
LEMMA EqualStrings ==
  ASSUME NEW a \in Buffer, NEW b \in Buffer, NEW j \in 0..MaxLen, NEW k \in 0..MaxLen,
         Filled(a, j), Filled(b, k), len \in 0..MaxLen, \A i \in 1..len : a[i] = b[i]
  PROVE  CString(a) = CString(b) <=> Behind(a) = Behind(b)
<1> USE ValueAssumption
<1>1. /\ CString(a) = [i \in 1..j |-> a[i]] /\ Len(CString(a)) = j
      /\ CString(b) = [i \in 1..k |-> b[i]] /\ Len(CString(b)) = k
  BY CStringOfFilled
<1>2. ASSUME CString(a) = CString(b)  PROVE Behind(a) = Behind(b)
  <2>1. j = k
    BY <1>1, <1>2
  <2>2. \A i \in 1..j : a[i] = b[i]
    BY <1>1, <1>2, <2>1
  <2>3. \A i \in (len + 1)..Size : a[i] = b[i]
    <3> SUFFICES ASSUME NEW i \in (len + 1)..Size  PROVE a[i] = b[i]
      OBVIOUS
    <3>1. CASE i <= j
      BY <2>2, <3>1
    <3>2. CASE i > j
      <4>1. i \in 1..Size
        OBVIOUS
      <4> QED
        BY <2>1, <3>2, <4>1 DEF Filled
    <3> QED
      BY <3>1, <3>2
  <2> QED
    BY <2>3 DEF Behind
<1>3. ASSUME Behind(a) = Behind(b)  PROVE CString(a) = CString(b)
  <2>1. \A i \in (len + 1)..Size : a[i] = b[i]
    <3>1. \A i \in (len + 1)..Size : Behind(a)[i] = a[i] /\ Behind(b)[i] = b[i]
      BY DEF Behind
    <3> QED
      BY <1>3, <3>1
  <2>2. \A i \in 1..Size : a[i] = b[i]
    BY <2>1
  <2>3. a = b
    BY <2>2 DEF Buffer
  <2> QED
    BY <2>3
<1> QED
  BY <1>2, <1>3

\* Answers that do not change are flagged again and again exactly when the
\* attribute and the buffer differ behind the last of them.
THEOREM OnlyTailsRepeat == Spec => RepeatsOnlyForTail
<1> USE ValueAssumption
<1>1. ASSUME PInv, [Next]_vars, RoundEnds, 0 < len, previous = <<value, len>>
      PROVE  flagged' <=> type = STRING8 /\ Behind(bytes) # Behind(value)
  <2>1. /\ flagged' <=> Differs
        /\ type # INT32 => type = STRING8
    BY <1>1, RoundStores
  <2>2. previous # <<>> /\ previous[2] > 0 /\ previous[1] = value /\ previous[2] = len
    BY <1>1
  <2>3. CASE type = INT32
    BY <1>1, <2>1, <2>2, <2>3 DEF PInv, PreviousInv, Differs, INT32, STRING8
  <2>4. CASE type # INT32
    <3>1. type = STRING8
      BY <2>1, <2>4
    <3>2. \A i \in 1..len : bytes[i] = value[i]
      BY <1>1, <2>2, <3>1 DEF PInv, PreviousInv
    <3>3. bytes \in Buffer /\ longest \in 0..MaxLen /\ Filled(bytes, longest)
      BY <1>1, <2>4 DEF PInv, TypeOK, BytesInv
    <3>4. value \in Buffer /\ most \in 0..MaxLen /\ Filled(value, most)
      BY <1>1 DEF PInv, TypeOK, RoundInv
    <3>5. len \in 0..MaxLen
      BY <1>1, TextIsSeq DEF PInv, TypeOK
    <3>6. CString(bytes) = CString(value) <=> Behind(bytes) = Behind(value)
      BY <3>2, <3>3, <3>4, <3>5, EqualStrings
    <3> QED
      BY <2>1, <2>4, <3>1, <3>6 DEF Differs
  <2> QED
    BY <2>3, <2>4
<1>2. PInv /\ [Next]_vars =>
        [RoundEnds /\ 0 < len /\ previous = <<value, len>> =>
           (flagged' <=> type = STRING8 /\ Behind(bytes) # Behind(value))]_vars
  BY <1>1
<1> QED
  BY <1>2, ValuesInvariant, PTL DEF Spec, RepeatsOnlyForTail

\* The commands in between touch no property: what is proved of Spec holds of
\* the whole.
THEOREM PathsHaveValues == PathsSpec => Spec
<1>1. PathsInit => Init
  BY DEF PathsInit
<1>2. [PathsNext]_<<vars, message, heard>> => [Next]_vars
  BY DEF PathsNext, CommandDelta, CommandReturns, vars
<1> QED
  BY <1>1, <1>2, PTL DEF PathsSpec, Spec

-----------------------------------------------------------------------------
(* The commands of the cloud.                                              *)

\* The IOT thread hears what the search makes of the message it is busy with.
HeardInv ==
  \/ message = <<>> /\ heard = FormatError
  \/ message \in Message /\ heard = Parse(Render(message))

\* The name that is found is the one the cloud sent, whatever the messages: with
\* one key command and no other string of that word, it is that field's string
\* or none.
THEOREM CommandsAsSent == PathsSpec => []CommandAsSent
<1>1. PathsInit => HeardInv
  BY DEF PathsInit, HeardInv
<1>2. HeardInv /\ [PathsNext]_<<vars, message, heard>> => HeardInv'
  <2> SUFFICES ASSUME HeardInv, [PathsNext]_<<vars, message, heard>>  PROVE HeardInv'
    OBVIOUS
  <2>1. CASE UNCHANGED <<message, heard>>
    BY <2>1 DEF HeardInv
  <2>2. ASSUME NEW fs \in Message, CommandDelta(fs)  PROVE HeardInv'
    BY <2>2 DEF CommandDelta, HeardInv
  <2>3. CASE CommandReturns
    BY <2>3 DEF CommandReturns, HeardInv
  <2> QED
    BY <2>1, <2>2, <2>3 DEF PathsNext
<1>3. HeardInv => CommandAsSent
  <2>1. CASE message = <<>> /\ heard = FormatError
    BY <2>1 DEF CommandAsSent
  <2>2. CASE message \in Message /\ heard = Parse(Render(message))
    BY <2>2, MessageAssumption, MessageHeard DEF CommandAsSent
  <2> QED
    BY <2>1, <2>2 DEF HeardInv
<1> QED
  BY <1>1, <1>2, <1>3, PTL DEF PathsSpec
=============================================================================
