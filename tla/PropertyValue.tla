----------------------------- MODULE PropertyValue -----------------------------
(***************************************************************************)
(* The value of one property: declared by a client that follows it, polled *)
(* from every follower (callPropertyGet of jni/server/IOT_Service.cpp,     *)
(* updateProperties of IOT_DeviceShadow.cpp) or reported by a client       *)
(* (doReportProperty), and kept in the attribute's memory.                 *)
(*                                                                         *)
(* Strings live in buffers of Size bytes that start as zeros; Nul ends a   *)
(* string.  The answers of the followers are copied over one another into  *)
(* one buffer, and strings are stored without a terminator.  Every string  *)
(* is shorter than the buffers.  The attribute's memory is taken to be one *)
(* of them whatever size was declared: the code checks no value against    *)
(* it, and what a value that overruns it destroys is not modelled.         *)
(*                                                                         *)
(* m_lockAttrs is held over a round of polling (iot = "ask"), so nothing   *)
(* else happens meanwhile; the variables of a round are fresh when the     *)
(* next one begins.  The fate of a report bit that is set here is in       *)
(* DeviceShadow, who follows in IOTService.                                *)
(***************************************************************************)
EXTENDS Integers, Sequences
LOCAL INSTANCE SequencesExt

CONSTANTS
  Digit,      \* the digits that occur in values
  Letter,     \* other bytes: no digit, no sign and no space
  Nul,        \* the byte 0
  Size,       \* the size of a buffer
  MaxLen,     \* bound on the length of a value
  Followers,  \* how many clients follow the property
  Declared    \* the pairs of a type and a size with which they declare it

INT32 == 1
STRING8 == 2
Type == {INT32, STRING8}

ASSUME ValueAssumption ==
  /\ Digit \subseteq 0..9
  /\ Letter \cap Digit = {}
  /\ Nul \notin Digit \cup Letter
  /\ Size \in Nat /\ MaxLen \in Nat /\ MaxLen < Size
  /\ Followers \in Nat
  /\ Declared \subseteq Int \X Int

Byte == Digit \cup Letter
Text == UNION {[1..n -> Byte] : n \in 0..MaxLen}
Buffer == [1..Size -> Byte \cup {Nul}]
Zeros == [i \in 1..Size |-> Nul]

VARIABLES
  order,    \* in which order this build evaluates the arguments of a call
  type,     \* the attribute's type, 0 while there is no attribute
  number,   \* its data, of an INT32
  bytes,    \* its data, of a STRING
  iot,      \* "ask" during a round, else "yield"
  next,     \* the follower to be asked next
  value,    \* the buffer of the round
  str,      \* what was read from the last reply
  len,      \* the length callPropertyGet will return
  flagged,  \* history: whether the last round has set the report bit
  want,     \* history: the string stored last
  longest,  \* history: the length of the longest string stored
  most,     \* history: the length of the longest answer of the round
  previous  \* history: the buffer and length of the last round, <<>> when a
            \* client has reported since

attribute == <<type, number, bytes>>
round == <<next, value, str, len>>
history == <<flagged, want, longest, most, previous>>
vars == <<order, attribute, iot, round, history>>

Init ==
  /\ order \in {"left", "right"}
  /\ type = 0 /\ number = 0 /\ bytes = Zeros
  /\ iot = "yield"
  /\ next = 1 /\ value = Zeros /\ str = <<>> /\ len = 0
  /\ flagged = FALSE
  /\ want = <<>> /\ longest = 0 /\ most = 0 /\ previous = <<>>

-----------------------------------------------------------------------------
(* The string functions of C.                                              *)

Strlen(buf) == CHOOSE n \in 0..(Size - 1) :
                 buf[n + 1] = Nul /\ \A i \in 1..n : buf[i] # Nul

\* The string a buffer holds.
CString(buf) == [i \in 1..Strlen(buf) |-> buf[i]]

\* The first n bytes of a string or buffer over those of another.
Memcpy(to, from, n) == [i \in 1..Size |-> IF i <= n THEN from[i] ELSE to[i]]

StrncpyTerminated(to, from, n) ==
  [i \in 1..Size |-> IF i <= n THEN from[i] ELSE IF i = n + 1 THEN Nul ELSE to[i]]

\* strncpy of the n bytes of a string that is no shorter: no terminator.
Strncpy(to, from, n) == Memcpy(to, from, n)

\* The number at the beginning of a string, 0 if there is none.
Atoi(s) ==
  LET digits == SelectInSeq(s, LAMBDA b : b \notin Digit)
      prefix == IF digits = 0 THEN s ELSE SubSeq(s, 1, digits - 1)
  IN FoldLeft(LAMBDA n, d : 10 * n + d, 0, prefix)

-----------------------------------------------------------------------------
(* The calls of the clients.                                               *)

\* The two readInt32 calls are arguments of one call: a build that evaluates
\* the last one first takes the size for the type,
\* and the type for the size.
ReadTypeAndSize(t, s) == IF order = "left" THEN <<t, s>> ELSE <<s, t>>

\* What doAddProperty accepts.
Accepted(t, s) == t \in Type /\ s > 0

\* followProperty at the server: creates the attribute, unless there is one
\* or the type or the size is refused.
FollowProperty(t, s) ==
  /\ iot = "yield"
  /\ LET read == ReadTypeAndSize(t, s)
     IN \/ /\ type = 0
           /\ Accepted(read[1], read[2])
           /\ type' = read[1]
           /\ UNCHANGED <<order, number, bytes, iot, round, history>>
        \/ /\ type # 0 \/ ~Accepted(read[1], read[2])
           /\ UNCHANGED vars

\* The number a string stands for, or its first n bytes, is stored.
Store(s, n) ==
  /\ number' = IF type = INT32 THEN Atoi(s) ELSE number
  /\ bytes' = IF type = STRING8 THEN Strncpy(bytes, s, n) ELSE bytes
  /\ want' = SubSeq(s, 1, n)
  /\ longest' = IF n > longest THEN n ELSE longest

\* doReportProperty; the client library refuses an empty value.
ReportProperty(s) ==
  /\ iot = "yield"
  /\ type # 0
  /\ s # <<>>
  /\ Store(s, Len(s))
  /\ previous' = <<>>
  /\ UNCHANGED <<order, type, iot, round, flagged, most>>

-----------------------------------------------------------------------------
(* A round of polling, on the IOT thread.                                  *)

PollBegin ==
  /\ iot = "yield"
  /\ type # 0
  /\ iot' = "ask"
  /\ UNCHANGED <<order, attribute, round, history>>

\* A follower that has not registered its callback yet is passed over.
NoCallback ==
  /\ iot = "ask"
  /\ next <= Followers
  /\ next' = next + 1
  /\ UNCHANGED <<order, attribute, iot, value, str, len, history>>

\* The proxy's get: the answer, possibly empty; nothing is read from the reply
\* of a dead process, and str keeps what the follower before it said.
Replies == Text \cup {str}

AskPastEnd(s) ==
  /\ iot = "ask"
  /\ str' = s
  /\ len' = Len(s)
  /\ value' = Memcpy(value, s, Len(s))
  /\ most' = IF Len(s) > most THEN Len(s) ELSE most
  /\ next' = next + 1
  /\ UNCHANGED <<order, attribute, iot, flagged, want, longest, previous>>

AskFirst(s) ==
  /\ iot = "ask"
  /\ next <= Followers
  /\ str' = s
  /\ len' = Len(s)
  /\ value' = IF value = Zeros THEN Memcpy(value, s, Len(s)) ELSE value
  /\ most' = IF Len(s) > most THEN Len(s) ELSE most
  /\ next' = next + 1
  /\ UNCHANGED <<order, attribute, iot, flagged, want, longest, previous>>

\* The next follower's reply is copied over the earlier ones.
Ask(s) ==
  /\ iot = "ask"
  /\ next <= Followers
  /\ str' = s
  /\ len' = Len(s)
  /\ value' = Memcpy(value, s, Len(s))
  /\ most' = IF Len(s) > most THEN Len(s) ELSE most
  /\ next' = next + 1
  /\ UNCHANGED <<order, attribute, iot, flagged, want, longest, previous>>

\* The comparison of the first bytes only.
DiffersInLength ==
  IF type = INT32 THEN number # Atoi(CString(value))
                  ELSE \E i \in 1..len : bytes[i] # value[i]

\* The comparison of the attribute with what was polled.
Differs ==
  IF type = INT32 THEN number # Atoi(CString(value))
                  ELSE CString(bytes) # CString(value)

\* Every follower was asked: what they said is stored if it is new.
PollEnd ==
  /\ iot = "ask"
  /\ next > Followers
  /\ iot' = "yield"
  /\ flagged' = (len > 0 /\ Differs)
  /\ IF flagged' THEN Store(CString(value), len)
                 ELSE UNCHANGED <<number, bytes, want, longest>>
  /\ next' = 1 /\ value' = Zeros /\ str' = <<>> /\ len' = 0 /\ most' = 0
  /\ previous' = <<value, len>>
  /\ UNCHANGED <<order, type>>

-----------------------------------------------------------------------------
Next ==
  \/ \E d \in Declared : FollowProperty(d[1], d[2])
  \/ \E s \in Text : ReportProperty(s)
  \/ PollBegin
  \/ NoCallback
  \/ \E s \in Replies : Ask(s)
  \/ PollEnd

Spec == Init /\ [][Next]_vars

-----------------------------------------------------------------------------
(* Properties.                                                             *)

\* Every variable stays in its range.
TypeOK ==
  /\ order \in {"left", "right"}
  /\ type \in Type \cup {0}
  /\ number \in {0} \cup {Atoi(s) : s \in Text}
  /\ bytes \in Buffer
  /\ iot \in {"yield", "ask"}
  /\ next \in 1..(Followers + 1)
  /\ value \in Buffer
  /\ str \in Text
  /\ len = Len(str)
  /\ flagged \in BOOLEAN
  /\ want \in Text
  /\ longest \in 0..MaxLen
  /\ most \in 0..MaxLen
  /\ previous \in {<<>>} \cup (Buffer \X (0..MaxLen))

\* A string property never gets shorter: what was stored last shows, followed
\* by what is left of longer strings that were stored before it.
LastStringShows ==
  type = STRING8 =>
    \A i \in 1..Size :
      IF i <= Len(want) THEN bytes[i] = want[i] ELSE bytes[i] # Nul <=> i <= longest

RoundEnds == iot = "ask" /\ iot' = "yield"

\* When a round ends, the follower that answered last has its answer in the
\* attribute, whether that is new or not: a string property shows it, followed
\* by what is left of longer ones; a number is the one it said if no follower
\* before it gave a longer answer.
LastAnswerWins ==
  [][RoundEnds /\ 0 < len =>
       IF type = INT32 THEN len = most => number' = Atoi(str)
                       ELSE SubSeq(CString(bytes'), 1, len) = str]_vars

\* What a buffer holds behind the length of the last answer.
Behind(buf) == [i \in (len + 1)..Size |-> buf[i]]

\* A round that ends as the one before it, with no report between them, flags
\* the attribute again if and only if it is a string and the attribute and the
\* buffer differ behind the last answer: by what is left of a longer string
\* stored before, or of a longer answer given before the last one.  Such a round
\* stores nothing there: the property is pushed at every period for ever.
RepeatsOnlyForTail ==
  [][RoundEnds /\ 0 < len /\ previous = <<value, len>> =>
       (flagged' <=> type = STRING8 /\ Behind(bytes) # Behind(value))]_vars
=============================================================================
