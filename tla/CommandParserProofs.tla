-------------------------- MODULE CommandParserProofs --------------------------
(***************************************************************************)
(* What CommandParser finds: whatever the message, a name that fits its     *)
(* buffer; and in a message that has the quoted word once only, the name    *)
(* that this field gives.                                                   *)
(***************************************************************************)
EXTENDS CommandParser, TLAPS, WellFoundedInduction, SequenceTheorems

LEMMA LeastIs ==
  ASSUME NEW P \in SUBSET (Nat \ {0}), P # {}
  PROVE  Least(P) \in P /\ \A j \in P : Least(P) <= j
<1>1. P \subseteq Nat
  OBVIOUS
<1> DEFINE R == {ss \in Nat \X Nat : ss[1] < ss[2]}
<1>2. IsWellFoundedOn(R, Nat)
  BY NatLessThanWellFounded DEF OpToRel
<1> HIDE DEF R
<1>3. \E i \in P : \A j \in P : ~ (<<j, i>> \in R)
  BY <1>1, <1>2, WFMin
<1>4. PICK i \in P : \A j \in P : ~ (<<j, i>> \in R)
  BY <1>3
<1>5. ASSUME NEW j \in P, j < i  PROVE FALSE
  <2>1. j \in Nat /\ i \in Nat
    BY <1>1
  <2>2. <<j, i>> \in R
    BY <2>1, <1>5 DEF R
  <2> QED
    BY <1>4, <2>2
<1>6. \A j \in P : i <= j
  BY <1>1, <1>5
<1> QED
  BY <1>6 DEF Least

LEMMA StrchrIs ==
  ASSUME NEW Alphabet, NEW data \in Seq(Alphabet), NEW i \in Nat \ {0}, NEW c,
         Strchr(data, i, c) # 0
  PROVE  /\ Strchr(data, i, c) \in i..Len(data)
         /\ data[Strchr(data, i, c)] = c
         /\ \A j \in i..Len(data) : data[j] = c => Strchr(data, i, c) <= j
<1> DEFINE P == {j \in i..Len(data) : data[j] = c}
<1>1. P \in SUBSET (Nat \ {0}) /\ P # {}
  BY DEF Strchr, Least
<1>2. Least(P) \in P /\ \A j \in P : Least(P) <= j
  BY <1>1, LeastIs
<1> QED
  BY <1>2 DEF Strchr

\* The text strictly between two places of a message.
LEMMA Between ==
  ASSUME NEW Alphabet, NEW data \in Seq(Alphabet), NEW p \in 1..Len(data), NEW q \in (p + 1)..Len(data)
  PROVE  /\ Len(SubSeq(data, p + 1, q - 1)) = q - p - 1
         /\ \A k \in 1..(q - p - 1) : SubSeq(data, p + 1, q - 1)[k] = data[p + k]
<1>1. p \in Nat /\ q \in Nat /\ p < q
  OBVIOUS
<1> DEFINE s == SubSeq(data, p + 1, q - 1)
<1>2. p + 1 \in Int /\ q - 1 \in Int /\ \A i \in (p + 1)..(q - 1) : data[i] \in Alphabet
  BY <1>1, ElementOfSeq
<1>3. /\ Len(s) = IF p + 1 <= q - 1 THEN (q - 1) - (p + 1) + 1 ELSE 0
      /\ \A k \in 1..((q - 1) - (p + 1) + 1) : s[k] = data[(p + 1) + k - 1]
  BY <1>2, SubSeqProperties
<1> HIDE DEF s
<1>4. /\ (q - 1) - (p + 1) + 1 = q - p - 1
      /\ ~ (p + 1 <= q - 1) => q - p - 1 = 0
      /\ \A k \in 1..(q - p - 1) : (p + 1) + k - 1 = p + k
  BY <1>1
<1>5. Len(s) = q - p - 1
  BY <1>3, <1>4
<1>6. \A k \in 1..(q - p - 1) : s[k] = data[p + k]
  BY <1>3, <1>4
<1> QED
  BY <1>5, <1>6 DEF s

\* Any name that is found fits into the buffer with its terminator, and has no
\* quote in it: the copy of p2 - p1 - 1 bytes into the zeroed buffer is a string.
THEOREM NameFits ==
  ASSUME NEW Alphabet, NEW data \in Seq(Alphabet)
  PROVE  \/ Parse(data) \in {FormatError, TooLong}
         \/ /\ Len(Parse(data)) < COMMAND_MAX_LEN
            /\ \A k \in 1..Len(Parse(data)) : Parse(data)[k] # Quote
<1> USE ParserAssumption
<1> DEFINE ptr == Strstr(data)
           colon == Strchr(data, ptr, Colon)
           comma == Strchr(data, colon, Comma)
           p1 == Strchr(data, colon, Quote)
           p2 == Strchr(data, p1 + 1, Quote)
<1> SUFFICES ASSUME Parse(data) \notin {FormatError, TooLong}
             PROVE  /\ Len(Parse(data)) < COMMAND_MAX_LEN
                    /\ \A k \in 1..Len(Parse(data)) : Parse(data)[k] # Quote
  OBVIOUS
<1>1. /\ ptr # 0 /\ colon # 0 /\ p1 # 0 /\ p2 # 0
      /\ ~ (p2 - p1 > COMMAND_MAX_LEN)
      /\ Parse(data) = SubSeq(data, p1 + 1, p2 - 1)
  BY DEF Parse
<1>2. ptr \in Nat \ {0}
  <2> DEFINE P == {i \in 1..(Len(data) - 2) :
                     data[i] = Quote /\ data[i + 1] = Word /\ data[i + 2] = Quote}
  <2>1. P \in SUBSET (Nat \ {0})
    BY SMT
  <2>2. Least(P) # 0
    BY <1>1 DEF Strstr
  <2>3. P # {}
    BY <2>2 DEF Least
  <2>4. Least(P) \in P
    BY <2>1, <2>3, LeastIs
  <2> QED
    BY <2>1, <2>4 DEF Strstr
<1>3. colon \in Nat \ {0}
  BY <1>1, <1>2, StrchrIs
<1>4. p1 \in 1..Len(data)
  BY <1>1, <1>3, StrchrIs
<1>5. p1 + 1 \in Nat \ {0}
  BY <1>4
<1>6. /\ p2 \in (p1 + 1)..Len(data)
      /\ \A j \in (p1 + 1)..Len(data) : data[j] = Quote => p2 <= j
  BY <1>1, <1>5, StrchrIs
<1>7. /\ Len(Parse(data)) = p2 - p1 - 1
      /\ \A k \in 1..(p2 - p1 - 1) : Parse(data)[k] = data[p1 + k]
  <2>1. p1 \in Int /\ p2 \in Int /\ p1 < p2
    BY <1>4, <1>6
  <2>2. /\ Len(SubSeq(data, p1 + 1, p2 - 1)) = p2 - p1 - 1
        /\ \A k \in 1..(p2 - p1 - 1) : SubSeq(data, p1 + 1, p2 - 1)[k] = data[p1 + k]
    BY <1>4, <1>6, <2>1, Between
  <2> QED
    BY <1>1, <2>2
<1>8. Len(Parse(data)) < COMMAND_MAX_LEN
  BY <1>1, <1>4, <1>6, <1>7
<1>9. ASSUME NEW k \in 1..Len(Parse(data))  PROVE Parse(data)[k] # Quote
  <2>1. k \in 1..(p2 - p1 - 1)
    BY <1>7
  <2>2. p1 + k \in (p1 + 1)..Len(data) /\ p1 + k < p2
    BY <1>4, <1>6, <2>1
  <2>3. data[p1 + k] # Quote
    BY <1>4, <1>6, <2>1, <2>2
  <2> QED
    BY <1>7, <2>1, <2>3
<1> QED
  BY <1>8, <1>9

-----------------------------------------------------------------------------
(* Where strstr and strchr stop.                                           *)

\* The quoted word stands at position p of s.
HasWord(s, p) ==
  p \in 1..(Len(s) - 2) /\ s[p] = Quote /\ s[p + 1] = Word /\ s[p + 2] = Quote

LEMMA StrchrFirst ==
  ASSUME NEW Alphabet, NEW data \in Seq(Alphabet), NEW i \in Nat \ {0}, NEW c,
         NEW q \in i..Len(data), data[q] = c, \A j \in i..(q - 1) : data[j] # c
  PROVE  Strchr(data, i, c) = q
<1> DEFINE P == {j \in i..Len(data) : data[j] = c}
<1>1. P \in SUBSET (Nat \ {0}) /\ q \in P
  OBVIOUS
<1>2. \A j \in P : q <= j
  OBVIOUS
<1>3. Least(P) \in P /\ \A j \in P : Least(P) <= j
  BY <1>1, LeastIs
<1>4. Least(P) = q
  BY <1>1, <1>2, <1>3
<1> QED
  BY <1>4 DEF Strchr

LEMMA StrchrNone ==
  ASSUME NEW data, NEW i, NEW c, \A j \in i..Len(data) : data[j] # c
  PROVE  Strchr(data, i, c) = 0
BY DEF Strchr, Least

LEMMA StrchrSome ==
  ASSUME NEW Alphabet, NEW data \in Seq(Alphabet), NEW i \in Nat \ {0}, NEW c,
         NEW q \in i..Len(data), data[q] = c
  PROVE  Strchr(data, i, c) \in i..q
<1> DEFINE P == {j \in i..Len(data) : data[j] = c}
<1>1. P \in SUBSET (Nat \ {0}) /\ q \in P
  OBVIOUS
<1>2. Least(P) \in P /\ \A j \in P : Least(P) <= j
  BY <1>1, LeastIs
<1>3. Least(P) \in i..q
  BY <1>1, <1>2
<1> QED
  BY <1>3 DEF Strchr

\* strstr finds the word where it is, when it is in one place only.
LEMMA StrstrOnly ==
  ASSUME NEW Alphabet, NEW data \in Seq(Alphabet), NEW q \in Nat \ {0},
         \A p \in Nat : HasWord(data, p) <=> p = q
  PROVE  Strstr(data) = q
<1> DEFINE P == {i \in 1..(Len(data) - 2) :
                   data[i] = Quote /\ data[i + 1] = Word /\ data[i + 2] = Quote}
<1>1. Len(data) \in Nat
  BY LenProperties
<1>2. \A p : p \in P <=> p \in Nat /\ HasWord(data, p)
  BY <1>1 DEF HasWord
<1>3. P = {q}
  BY <1>2
<1>4. Least(P) \in P
  BY <1>3, LeastIs
<1> QED
  BY <1>3, <1>4 DEF Strstr

LEMMA StrstrNone ==
  ASSUME NEW Alphabet, NEW data \in Seq(Alphabet), \A p \in Nat : ~HasWord(data, p)
  PROVE  Strstr(data) = 0
<1> DEFINE P == {i \in 1..(Len(data) - 2) :
                   data[i] = Quote /\ data[i + 1] = Word /\ data[i + 2] = Quote}
<1>1. Len(data) \in Nat
  BY LenProperties
<1>2. P = {}
  BY <1>1 DEF HasWord
<1> QED
  BY <1>2 DEF Strstr, Least

-----------------------------------------------------------------------------
(* Messages.                                                               *)

Symbol == Char \cup {Quote, Colon, Comma, Open, Close}

\* What begins with neither a quote nor the word adds no place to find the word
\* but its own.
LEMMA ConcatFinds ==
  ASSUME NEW s \in Seq(Symbol), NEW t \in Seq(Symbol),
         Len(t) > 0 => t[1] \notin {Quote, Word}, NEW p \in Nat
  PROVE  HasWord(s \o t, p) <=>
           HasWord(s, p) \/ (p > Len(s) /\ HasWord(t, p - Len(s)))
<1>1. /\ Len(s) \in Nat /\ Len(t) \in Nat
      /\ Len(s \o t) = Len(s) + Len(t)
      /\ \A i \in 1..(Len(s) + Len(t)) :
           (s \o t)[i] = IF i <= Len(s) THEN s[i] ELSE t[i - Len(s)]
  BY LenProperties, ConcatProperties
<1>2. CASE p + 2 <= Len(s)
  <2>1. p >= 1 => (s \o t)[p] = s[p] /\ (s \o t)[p + 1] = s[p + 1] /\ (s \o t)[p + 2] = s[p + 2]
    BY <1>1, <1>2
  <2> QED
    BY <1>1, <1>2, <2>1 DEF HasWord
<1>3. CASE p > Len(s)
  <2>1. p + 2 <= Len(s) + Len(t) =>
          /\ (s \o t)[p] = t[p - Len(s)]
          /\ (s \o t)[p + 1] = t[(p - Len(s)) + 1]
          /\ (s \o t)[p + 2] = t[(p - Len(s)) + 2]
    <3>1. (p + 1) - Len(s) = (p - Len(s)) + 1 /\ (p + 2) - Len(s) = (p - Len(s)) + 2
      BY <1>1
    <3> QED
      BY <1>1, <1>3, <3>1
  <2> QED
    BY <1>1, <1>3, <2>1 DEF HasWord
<1>4. CASE p <= Len(s) /\ Len(s) < p + 2
  <2>1. ~HasWord(s, p)
    BY <1>1, <1>4 DEF HasWord
  <2>2. ASSUME HasWord(s \o t, p)
        PROVE  FALSE
    <3>1. (s \o t)[Len(s) + 1] = t[1] /\ Len(t) > 0
      BY <1>1, <1>4, <2>2 DEF HasWord
    <3>2. Len(s) + 1 = p + 1 \/ Len(s) + 1 = p + 2
      BY <1>1, <1>4
    <3> QED
      BY <2>2, <3>1, <3>2 DEF HasWord
  <2> QED
    BY <1>4, <2>1, <2>2
<1> QED
  BY <1>1, <1>2, <1>3, <1>4

LEMMA CharsAreSymbols ==
  ASSUME NEW t \in Seq(Char)
  PROVE  t \in Seq(Symbol)
<1>1. Len(t) \in Nat /\ t \in [1..Len(t) -> Char]
  BY LenProperties
<1>2. t \in [1..Len(t) -> Symbol]
  BY <1>1 DEF Symbol
<1> QED
  BY <1>1, <1>2, SeqDef

LEMMA QuotedIs ==
  ASSUME NEW t \in Seq(Char)
  PROVE  /\ Quoted(t) \in Seq(Symbol) /\ Len(Quoted(t)) = Len(t) + 2
         /\ Quoted(t)[1] = Quote /\ Quoted(t)[Len(t) + 2] = Quote
         /\ \A j \in 1..Len(t) : Quoted(t)[j + 1] = t[j]
<1> DEFINE q == <<Quote>>
           h == q \o t
<1>1. t \in Seq(Symbol) /\ Len(t) \in Nat
  BY CharsAreSymbols, LenProperties
<1>2. q \in Seq(Symbol) /\ Len(q) = 1 /\ q[1] = Quote
  BY DEF Symbol
<1> HIDE DEF q
<1>3. /\ h \in Seq(Symbol) /\ Len(h) = 1 + Len(t)
      /\ \A i \in 1..(1 + Len(t)) : h[i] = IF i <= 1 THEN q[i] ELSE t[i - 1]
  <2>1. /\ q \o t \in Seq(Symbol) /\ Len(q \o t) = Len(q) + Len(t)
        /\ \A i \in 1..(Len(q) + Len(t)) :
             (q \o t)[i] = IF i <= Len(q) THEN q[i] ELSE t[i - Len(q)]
    BY <1>1, <1>2, ConcatProperties
  <2> QED
    BY <1>2, <2>1
<1> HIDE DEF h
<1>4. /\ h \o q \in Seq(Symbol) /\ Len(h \o q) = Len(h) + 1
      /\ \A i \in 1..(Len(h) + 1) :
           (h \o q)[i] = IF i <= Len(h) THEN h[i] ELSE q[i - Len(h)]
  BY <1>1, <1>2, <1>3, ConcatProperties
<1>5. Quoted(t) = h \o q
  BY DEF Quoted, h, q
<1>6. (h \o q)[1] = Quote /\ (h \o q)[Len(t) + 2] = Quote
  BY <1>1, <1>2, <1>3, <1>4
<1>7. ASSUME NEW j \in 1..Len(t)
      PROVE  (h \o q)[j + 1] = t[j]
  <2>1. j + 1 \in 1..(1 + Len(t)) /\ ~(j + 1 <= 1) /\ (j + 1) - 1 = j
    BY <1>1
  <2> QED
    BY <1>1, <1>3, <1>4, <2>1
<1> QED
  BY <1>1, <1>3, <1>4, <1>5, <1>6, <1>7

\* Where the parts of a field stand.
LEMMA FieldIs ==
  ASSUME NEW f \in Field, NEW sep \in {Open, Comma}
  PROVE  LET s == Sent(sep, f)
             n == Len(f.text)
         IN /\ n \in Nat /\ f.text \in Seq(Char) /\ f.key \in Char
            /\ s \in Seq(Symbol)
            /\ s[1] = sep /\ s[2] = Quote /\ s[3] = f.key /\ s[4] = Quote /\ s[5] = Colon
            /\ f.quoted => /\ Len(s) = n + 7
                           /\ s[6] = Quote /\ s[n + 7] = Quote
                           /\ \A j \in 1..n : s[j + 6] = f.text[j]
            /\ ~f.quoted => /\ Len(s) = n + 5
                            /\ \A j \in 1..n : s[j + 5] = f.text[j]
<1> DEFINE n == Len(f.text)
           v == IF f.quoted THEN Quoted(f.text) ELSE f.text
           a == Quoted(<<f.key>>)
           c == <<Colon>>
           b == a \o c
           r == b \o v
           d == <<sep>>
<1>1. n \in Nat /\ f.text \in Seq(Char) /\ f.key \in Char /\ f.quoted \in BOOLEAN
  BY LenProperties DEF Field
<1>2. v \in Seq(Symbol) /\ Len(v) \in Nat
  <2>1. CASE f.quoted
    BY <1>1, <2>1, QuotedIs, LenProperties
  <2>2. CASE ~f.quoted
    BY <1>1, <2>2, CharsAreSymbols
  <2> QED
    BY <2>1, <2>2
<1>3. /\ a \in Seq(Symbol) /\ Len(a) = 3
      /\ a[1] = Quote /\ a[2] = f.key /\ a[3] = Quote
  <2> DEFINE k == <<f.key>>
  <2>1. k \in Seq(Char) /\ Len(k) = 1 /\ k[1] = f.key
    BY <1>1
  <2> HIDE DEF k
  <2>2. Quoted(k)[1 + 1] = k[1]
    BY <2>1, QuotedIs
  <2>3. /\ Quoted(k) \in Seq(Symbol) /\ Len(Quoted(k)) = Len(k) + 2
        /\ Quoted(k)[1] = Quote /\ Quoted(k)[Len(k) + 2] = Quote
    BY <2>1, QuotedIs
  <2>4. /\ Quoted(k) \in Seq(Symbol) /\ Len(Quoted(k)) = 3
        /\ Quoted(k)[1] = Quote /\ Quoted(k)[2] = f.key /\ Quoted(k)[3] = Quote
    BY <2>1, <2>2, <2>3
  <2>5. a = Quoted(k)
    BY DEF k
  <2> HIDE DEF a
  <2> QED
    BY <2>4, <2>5
<1>4. c \in Seq(Symbol) /\ Len(c) = 1 /\ c[1] = Colon
  BY DEF Symbol
<1>5. d \in Seq(Symbol) /\ Len(d) = 1 /\ d[1] = sep
  BY DEF Symbol
<1>6. Sent(sep, f) = d \o r
  BY DEF Sent, Rendered
<1> HIDE DEF a, c, d
<1>7. /\ b \in Seq(Symbol) /\ Len(b) = 4
      /\ \A i \in 1..4 : b[i] = IF i <= 3 THEN a[i] ELSE c[i - 3]
  <2>1. /\ a \o c \in Seq(Symbol) /\ Len(a \o c) = Len(a) + Len(c)
        /\ \A i \in 1..(Len(a) + Len(c)) :
             (a \o c)[i] = IF i <= Len(a) THEN a[i] ELSE c[i - Len(a)]
    BY <1>3, <1>4, ConcatProperties
  <2> QED
    BY <1>3, <1>4, <2>1
<1> HIDE DEF b, v
<1>8. /\ r \in Seq(Symbol) /\ Len(r) = 4 + Len(v)
      /\ \A i \in 1..(4 + Len(v)) : r[i] = IF i <= 4 THEN b[i] ELSE v[i - 4]
  <2>1. /\ b \o v \in Seq(Symbol) /\ Len(b \o v) = Len(b) + Len(v)
        /\ \A i \in 1..(Len(b) + Len(v)) :
             (b \o v)[i] = IF i <= Len(b) THEN b[i] ELSE v[i - Len(b)]
    BY <1>2, <1>7, ConcatProperties
  <2> QED
    BY <1>2, <1>7, <2>1
<1> HIDE DEF r
<1> DEFINE s == d \o r
<1>9. /\ s \in Seq(Symbol) /\ Len(s) = 5 + Len(v)
      /\ \A i \in 1..(5 + Len(v)) : s[i] = IF i <= 1 THEN d[i] ELSE r[i - 1]
  <2>1. /\ d \o r \in Seq(Symbol) /\ Len(d \o r) = Len(d) + Len(r)
        /\ \A i \in 1..(Len(d) + Len(r)) :
             (d \o r)[i] = IF i <= Len(d) THEN d[i] ELSE r[i - Len(d)]
    BY <1>2, <1>5, <1>8, ConcatProperties
  <2> QED
    BY <1>2, <1>5, <1>8, <2>1
<1> HIDE DEF s
<1>10. b[1] = Quote /\ b[2] = f.key /\ b[3] = Quote /\ b[4] = Colon
  BY <1>3, <1>4, <1>7
<1>11. r[1] = Quote /\ r[2] = f.key /\ r[3] = Quote /\ r[4] = Colon
  BY <1>2, <1>8, <1>10
<1>12. s[1] = sep /\ s[2] = Quote /\ s[3] = f.key /\ s[4] = Quote /\ s[5] = Colon
  BY <1>2, <1>5, <1>9, <1>11
<1>13. ASSUME NEW j \in 1..Len(v)
       PROVE  s[j + 5] = v[j]
  <2>1. /\ j + 4 \in 1..(4 + Len(v)) /\ (j + 4) - 4 = j /\ ~(j + 4 <= 4)
        /\ j + 5 \in 1..(5 + Len(v)) /\ (j + 5) - 1 = j + 4 /\ ~(j + 5 <= 1)
    BY <1>2
  <2>2. r[j + 4] = v[j]
    BY <1>8, <2>1
  <2> QED
    BY <1>9, <2>1, <2>2
<1>14. ASSUME f.quoted
       PROVE  /\ Len(s) = n + 7
              /\ s[6] = Quote /\ s[n + 7] = Quote
              /\ \A j \in 1..n : s[j + 6] = f.text[j]
  <2>1. /\ Len(v) = n + 2 /\ v[1] = Quote /\ v[n + 2] = Quote
        /\ \A j \in 1..n : v[j + 1] = f.text[j]
    BY <1>1, <1>14, QuotedIs DEF v
  <2>2. s[1 + 5] = v[1] /\ s[(n + 2) + 5] = v[n + 2]
    BY <1>1, <1>13, <2>1
  <2>3. ASSUME NEW j \in 1..n
        PROVE  s[j + 6] = f.text[j]
    <3>1. j + 1 \in 1..Len(v) /\ (j + 1) + 5 = j + 6
      BY <1>1, <2>1
    <3> QED
      BY <1>13, <2>1, <3>1
  <2> QED
    BY <1>1, <1>9, <2>1, <2>2, <2>3
<1>15. ASSUME ~f.quoted
       PROVE  Len(s) = n + 5 /\ \A j \in 1..n : s[j + 5] = f.text[j]
  BY <1>1, <1>9, <1>13, <1>15 DEF v
<1>16. s = Sent(sep, f)
  BY <1>6 DEF s
<1> QED
  BY <1>1, <1>9, <1>12, <1>14, <1>15, <1>16

\* In a field the quoted word can be found as the key, and else only as the
\* whole of a string.
LEMMA FieldFinds ==
  ASSUME NEW f \in Field, NEW sep \in {Open, Comma}, f.quoted => f.text # <<Word>>,
         NEW p \in Nat
  PROVE  HasWord(Sent(sep, f), p) <=> p = 2 /\ f.key = Word
<1> USE ParserAssumption
<1> DEFINE s == Sent(sep, f)
           n == Len(f.text)
<1>1. /\ n \in Nat /\ f.text \in Seq(Char) /\ f.key \in Char
      /\ s \in Seq(Symbol)
      /\ s[1] = sep /\ s[2] = Quote /\ s[3] = f.key /\ s[4] = Quote /\ s[5] = Colon
  BY FieldIs
<1>2. f.quoted => /\ Len(s) = n + 7
                  /\ s[6] = Quote /\ s[n + 7] = Quote
                  /\ \A j \in 1..n : s[j + 6] = f.text[j]
  BY FieldIs
<1>3. ~f.quoted => Len(s) = n + 5 /\ \A j \in 1..n : s[j + 5] = f.text[j]
  BY FieldIs
<1>4. \A j \in 1..n : f.text[j] \in Char /\ f.text[j] # Quote
  BY <1>1, ElementOfSeq
<1>5. Quote # sep /\ Quote # Colon /\ Word # Colon /\ Word # Quote
  BY Zenon DEF Quote, Colon, Word, Comma, Open
<1> HIDE DEF s, n
<1>6. HasWord(s, 2) <=> f.key = Word
  BY <1>1, <1>2, <1>3 DEF HasWord
<1>7. ASSUME HasWord(s, p), p # 2
      PROVE  FALSE
  <2>1. p \in 1..(Len(s) - 2) /\ s[p] = Quote /\ s[p + 1] = Word /\ s[p + 2] = Quote
    BY <1>7 DEF HasWord
  <2>2. Len(s) \in Nat
    BY <1>1, LenProperties
  <2>3. p # 1 /\ p # 3 /\ p # 4 /\ p # 5
    <3>1. f.key # Quote
      BY <1>1
    <3> QED
      BY <1>1, <1>5, <2>1, <3>1
  <2>4. p >= 6
    BY <1>7, <2>1, <2>2, <2>3
  <2>5. CASE ~f.quoted
    <3>1. p - 5 \in 1..n /\ (p - 5) + 5 = p
      BY <1>1, <1>3, <2>1, <2>4, <2>5
    <3> QED
      BY <1>3, <1>4, <2>1, <2>5, <3>1
  <2>6. CASE f.quoted /\ p = 6
    <3>1. s[7] = Word /\ s[8] = Quote /\ n + 7 >= 8
      BY <1>1, <1>2, <2>1, <2>6
    <3>2. s[1 + 6] = f.text[1] /\ n >= 1
      BY <1>1, <1>2, <2>6, <3>1
    <3>3. CASE n = 1
      <4>1. f.text = <<Word>>
        BY <1>1, <3>1, <3>2, <3>3, LenProperties DEF n
      <4> QED
        BY <2>6, <4>1
    <3>4. CASE n >= 2
      <4>1. s[2 + 6] = f.text[2] /\ 2 \in 1..n
        BY <1>1, <1>2, <2>6, <3>4
      <4> QED
        BY <1>4, <3>1, <4>1
    <3> QED
      BY <1>1, <3>2, <3>3, <3>4
  <2>7. CASE f.quoted /\ p > 6
    <3>1. p - 6 \in 1..n /\ (p - 6) + 6 = p
      BY <1>1, <1>2, <2>1, <2>7
    <3> QED
      BY <1>2, <1>4, <2>1, <2>7, <3>1
  <2> QED
    BY <2>1, <2>2, <2>4, <2>5, <2>6, <2>7
<1> QED
  BY <1>6, <1>7 DEF s

\* What stands where when a field has S before it and T behind it.
LEMMA Placed ==
  ASSUME NEW S \in Seq(Symbol), NEW s \in Seq(Symbol), NEW T \in Seq(Symbol)
  PROVE  LET data == (S \o s) \o T
         IN /\ data \in Seq(Symbol)
            /\ Len(data) = Len(S) + Len(s) + Len(T)
            /\ \A i \in 1..Len(s) : data[Len(S) + i] = s[i]
            /\ \A i \in 1..Len(T) : data[Len(S) + Len(s) + i] = T[i]
<1> DEFINE h == S \o s
<1>1. Len(S) \in Nat /\ Len(s) \in Nat /\ Len(T) \in Nat
  BY LenProperties
<1>2. /\ h \in Seq(Symbol) /\ Len(h) = Len(S) + Len(s)
      /\ \A i \in 1..(Len(S) + Len(s)) :
           h[i] = IF i <= Len(S) THEN S[i] ELSE s[i - Len(S)]
  BY ConcatProperties
<1> HIDE DEF h
<1> DEFINE data == h \o T
<1>3. /\ data \in Seq(Symbol) /\ Len(data) = Len(h) + Len(T)
      /\ \A i \in 1..(Len(h) + Len(T)) :
           data[i] = IF i <= Len(h) THEN h[i] ELSE T[i - Len(h)]
  <2>1. h \in Seq(Symbol) /\ T \in Seq(Symbol)
    BY <1>2
  <2> QED
    BY <2>1, ConcatProperties
<1> HIDE DEF data
<1>4. ASSUME NEW i \in 1..Len(s)
      PROVE  data[Len(S) + i] = s[i]
  <2>1. /\ Len(S) + i \in 1..(Len(S) + Len(s)) /\ ~(Len(S) + i <= Len(S))
        /\ (Len(S) + i) - Len(S) = i
        /\ Len(S) + i \in 1..(Len(h) + Len(T)) /\ Len(S) + i <= Len(h)
    BY <1>1, <1>2
  <2> QED
    BY <1>2, <1>3, <2>1
<1>5. ASSUME NEW i \in 1..Len(T)
      PROVE  data[Len(S) + Len(s) + i] = T[i]
  <2>1. /\ Len(h) + i \in 1..(Len(h) + Len(T)) /\ ~(Len(h) + i <= Len(h))
        /\ (Len(h) + i) - Len(h) = i
    BY <1>1, <1>2
  <2>2. data[Len(h) + i] = T[i]
    BY <1>3, <2>1
  <2> QED
    BY <1>2, <2>2
<1> QED
  BY <1>1, <1>2, <1>3, <1>4, <1>5 DEF data, h

\* What may follow a field: another field or the end of the object.
Follows(T) == T \in Seq(Symbol) /\ Len(T) > 0 /\ (T[1] = Comma \/ T = <<Close>>)

\* The word is found at the key of a field, when nothing before or behind it is
\* the quoted word.
LEMMA WordFound ==
  ASSUME NEW S \in Seq(Symbol), \A p \in Nat : ~HasWord(S, p),
         NEW f \in Field, NEW sep \in {Open, Comma}, f.quoted => f.text # <<Word>>,
         NEW T, Follows(T), \A p \in Nat : ~HasWord(T, p),
         NEW p \in Nat
  PROVE  HasWord((S \o Sent(sep, f)) \o T, p) <=> p = Len(S) + 2 /\ f.key = Word
<1> DEFINE s == Sent(sep, f)
<1>1. /\ T \in Seq(Symbol) /\ T[1] \in {Comma, Close}
      /\ s \in Seq(Symbol) /\ s[1] \in {Open, Comma}
      /\ Len(S) \in Nat /\ Len(s) \in Nat
  <2>1. T \in Seq(Symbol) /\ T[1] \in {Comma, Close}
    BY DEF Follows
  <2>2. s \in Seq(Symbol) /\ s[1] = sep
    BY FieldIs
  <2> QED
    BY <2>1, <2>2, LenProperties
<1>2. {Open, Comma, Close} \cap {Quote, Word} = {}
  BY Zenon DEF Open, Comma, Close, Quote, Word
<1>3. \A q \in Nat : HasWord(s, q) <=> q = 2 /\ f.key = Word
  BY FieldFinds
<1> HIDE DEF s
<1>4. \A q \in Nat : HasWord(S \o s, q) <=> q > Len(S) /\ HasWord(s, q - Len(S))
  BY <1>1, <1>2, ConcatFinds
<1>5. /\ S \o s \in Seq(Symbol) /\ Len(S \o s) = Len(S) + Len(s)
  BY <1>1, ConcatProperties
<1>6. HasWord((S \o s) \o T, p) <=>
        HasWord(S \o s, p) \/ (p > Len(S \o s) /\ HasWord(T, p - Len(S \o s)))
  BY <1>1, <1>2, <1>5, ConcatFinds
<1>7. p > Len(S \o s) => p - Len(S \o s) \in Nat
  BY <1>1, <1>5
<1>8. p > Len(S) => p - Len(S) \in Nat /\ (p - Len(S) = 2 <=> p = Len(S) + 2)
  BY <1>1
<1>9. HasWord((S \o s) \o T, p) <=> p > Len(S) /\ HasWord(s, p - Len(S))
  BY <1>4, <1>6, <1>7
<1> QED
  BY <1>1, <1>3, <1>8, <1>9 DEF s

\* Without the quoted word in it a message is dropped.
LEMMA NoWordNoName ==
  ASSUME NEW Alphabet, NEW data \in Seq(Alphabet), \A p \in Nat : ~HasWord(data, p)
  PROVE  Parse(data) = FormatError
BY StrstrNone DEF Parse

LEMMA MarksDiffer ==
  /\ Quote \notin {Word, Colon, Comma, Close}
  /\ Colon \notin {Word, Comma, Close}
  /\ Comma # Close
BY Zenon DEF Quote, Word, Colon, Comma, Close

\* Behind the colon at b stands the string t, and behind that a comma or the end.
StringAt(data, b, t, n) ==
  /\ n = Len(t) /\ b + n + 3 <= Len(data)
  /\ data[b] = Colon /\ data[b + 1] = Quote /\ data[b + n + 2] = Quote
  /\ \A k \in 1..n : data[b + 1 + k] = t[k]
  /\ data[b + n + 3] = Comma \/ (data[b + n + 3] = Close /\ Len(data) = b + n + 3)

LEMMA StringFound ==
  ASSUME NEW data \in Seq(Symbol), NEW b \in Nat \ {0}, NEW t \in Seq(Char), NEW n \in Nat,
         Strstr(data) # 0, Strchr(data, Strstr(data), Colon) = b, StringAt(data, b, t, n)
  PROVE  IF n < COMMAND_MAX_LEN /\ (data[b + n + 3] = Comma \/ \E k \in 1..n : t[k] = Comma)
         THEN Parse(data) = t
         ELSE Parse(data) \in {FormatError, TooLong}
<1> USE ParserAssumption DEF StringAt
<1> DEFINE comma == Strchr(data, b, Comma)
           p1 == Strchr(data, b, Quote)
           p2 == Strchr(data, b + 2, Quote)
           commaFollows == data[b + n + 3] = Comma \/ \E k \in 1..n : t[k] = Comma
<1>1. Len(data) \in Nat /\ \A k \in 1..n : t[k] \in Char /\ t[k] # Quote
  BY LenProperties, ElementOfSeq
<1>2. p1 = b + 1
  <2>1. b + 1 \in b..Len(data)
    BY <1>1
  <2>2. \A j \in b..((b + 1) - 1) : data[j] # Quote
    <3>1. \A j \in b..((b + 1) - 1) : j = b
      OBVIOUS
    <3> QED
      BY <3>1, MarksDiffer
  <2> QED
    BY <2>1, <2>2, StrchrFirst
<1>3. p2 = b + n + 2
  <2>1. b + n + 2 \in (b + 2)..Len(data) /\ b + 2 \in Nat \ {0}
    BY <1>1
  <2>2. ASSUME NEW j \in (b + 2)..((b + n + 2) - 1)  PROVE data[j] # Quote
    <3>1. j - (b + 1) \in 1..n /\ b + 1 + (j - (b + 1)) = j
      OBVIOUS
    <3> QED
      BY <1>1, <3>1
  <2> QED
    BY <2>1, <2>2, StrchrFirst
<1>4. comma # 0 => comma \in (b + 2)..Len(data) /\ data[comma] = Comma
  <2> SUFFICES ASSUME comma # 0  PROVE comma \in (b + 2)..Len(data) /\ data[comma] = Comma
    OBVIOUS
  <2>1. comma \in b..Len(data) /\ data[comma] = Comma
    BY StrchrIs
  <2>2. comma # b /\ comma # b + 1
    BY <2>1, MarksDiffer
  <2> QED
    BY <1>1, <2>1, <2>2
<1>5. commaFollows => comma # 0
  <2>1. ASSUME data[b + n + 3] = Comma  PROVE comma # 0
    <3>1. b + n + 3 \in b..Len(data)
      BY <1>1
    <3>2. comma \in b..(b + n + 3)
      BY <2>1, <3>1, StrchrSome
    <3> QED
      BY <3>2
  <2>2. ASSUME NEW k \in 1..n, t[k] = Comma  PROVE comma # 0
    <3>1. b + 1 + k \in b..Len(data)
      BY <1>1
    <3>2. data[b + 1 + k] = Comma
      BY <2>2
    <3>3. comma \in b..(b + 1 + k)
      BY <3>1, <3>2, StrchrSome
    <3> QED
      BY <3>3
  <2> QED
    BY <2>1, <2>2
<1>6. comma # 0 => commaFollows
  <2> SUFFICES ASSUME comma # 0, data[b + n + 3] # Comma
               PROVE  \E k \in 1..n : t[k] = Comma
    OBVIOUS
  <2>1. Len(data) = b + n + 3 /\ data[b + n + 3] # Comma
    OBVIOUS
  <2>2. comma \in (b + 2)..(b + n + 3) /\ data[comma] = Comma
    BY <1>4, <2>1
  <2>3. comma # b + n + 2 /\ comma # b + n + 3
    BY <2>1, <2>2, MarksDiffer
  <2> HIDE DEF comma
  <2>4. comma - (b + 1) \in 1..n /\ b + 1 + (comma - (b + 1)) = comma
    BY <2>2, <2>3
  <2>5. t[comma - (b + 1)] = Comma
    BY <2>2, <2>4
  <2> QED
    BY <2>4, <2>5
<1>7. SubSeq(data, b + 2, b + n + 1) = t
  <2> DEFINE sub == SubSeq(data, (b + 1) + 1, (b + n + 2) - 1)
  <2>1. b + 1 \in 1..Len(data) /\ b + n + 2 \in ((b + 1) + 1)..Len(data)
    BY <1>1
  <2>2. (b + n + 2) - (b + 1) - 1 = n
    OBVIOUS
  <2>3. Len(sub) = n /\ \A k \in 1..n : sub[k] = data[b + 1 + k]
    BY <2>1, <2>2, Between
  <2>4. sub \in Seq(Symbol)
    <3>1. \A j \in ((b + 1) + 1)..((b + n + 2) - 1) : data[j] \in Symbol
      BY <2>1, ElementOfSeq
    <3> QED
      BY <3>1, SubSeqProperties
  <2>5. sub = SubSeq(data, b + 2, b + n + 1)
    <3>1. (b + 1) + 1 = b + 2 /\ (b + n + 2) - 1 = b + n + 1
      OBVIOUS
    <3> QED
      BY <3>1
  <2>6. t \in Seq(Symbol)
    BY CharsAreSymbols
  <2> HIDE DEF sub
  <2>7. sub = t
    BY <2>3, <2>4, <2>6, SeqEqual
  <2> QED
    BY <2>5, <2>7
<1>8. Parse(data) =
        IF comma = 0 \/ b + 1 > comma THEN FormatError
        ELSE IF n + 1 > COMMAND_MAX_LEN THEN TooLong
        ELSE t
  <2> DEFINE p == Strchr(data, b, Quote)
             q == Strchr(data, p + 1, Quote)
  <2>1. p = b + 1 /\ q = b + n + 2
    <3>1. p = b + 1 /\ (b + 1) + 1 = b + 2
      BY <1>2
    <3> QED
      BY <1>3, <3>1
  <2> HIDE DEF p, q, comma
  <2>2. Parse(data) = IF comma = 0 \/ p = 0 \/ p > comma \/ q = 0 THEN FormatError
                      ELSE IF q - p > COMMAND_MAX_LEN THEN TooLong
                      ELSE SubSeq(data, p + 1, q - 1)
    BY DEF Parse, p, q, comma
  <2>3. p # 0 /\ q # 0 /\ q - p = n + 1 /\ p + 1 = b + 2 /\ q - 1 = b + n + 1
    BY <2>1
  <2>4. SubSeq(data, p + 1, q - 1) = t
    BY <1>7, <2>3
  <2> QED
    BY <2>1, <2>2, <2>3, <2>4
<1> HIDE DEF comma, p1, p2
<1>9. CASE n < COMMAND_MAX_LEN /\ commaFollows
  <2>1. comma # 0 /\ ~(b + 1 > comma) /\ ~(n + 1 > COMMAND_MAX_LEN)
    BY <1>4, <1>5, <1>9
  <2> QED
    BY <1>8, <1>9, <2>1
<1>10. CASE ~(n < COMMAND_MAX_LEN /\ commaFollows)
  <2>1. comma = 0 \/ n + 1 > COMMAND_MAX_LEN
    BY <1>6, <1>10
  <2>2. Parse(data) \in {FormatError, TooLong}
    BY <1>8, <2>1
  <2> QED
    BY <1>10, <2>2
<1> QED
  BY <1>9, <1>10

\* Behind the colon at b stands no string, and behind that a comma or the end.
LEMMA NumberSkipped ==
  ASSUME NEW data \in Seq(Symbol), NEW b \in Nat \ {0}, NEW n \in Nat,
         Strchr(data, Strstr(data), Colon) = b,
         b + n + 1 <= Len(data),
         data[b] = Colon, \A k \in 1..n : data[b + k] # Quote,
         data[b + n + 1] = Comma \/ (data[b + n + 1] = Close /\ Len(data) = b + n + 1)
  PROVE  Parse(data) = FormatError
<1> DEFINE comma == Strchr(data, b, Comma)
           p1 == Strchr(data, b, Quote)
<1>1. Len(data) \in Nat
  BY LenProperties
<1>2. p1 # 0 => p1 \in (b + n + 2)..Len(data)
  <2> SUFFICES ASSUME p1 # 0, p1 \notin (b + n + 2)..Len(data)  PROVE FALSE
    OBVIOUS
  <2>1. p1 \in b..Len(data) /\ data[p1] = Quote
    BY StrchrIs
  <2>2. p1 # b /\ p1 # b + n + 1
    BY <2>1, MarksDiffer
  <2> HIDE DEF p1
  <2>3. p1 - b \in 1..n /\ b + (p1 - b) = p1
    BY <1>1, <2>1, <2>2
  <2> QED
    BY <2>1, <2>3
<1>3. p1 = 0 \/ p1 > comma
  <2>1. CASE data[b + n + 1] = Comma
    <3>1. b + n + 1 \in b..Len(data)
      BY <1>1
    <3>2. comma \in b..(b + n + 1)
      BY <2>1, <3>1, StrchrSome
    <3> HIDE DEF comma, p1
    <3> QED
      BY <1>1, <1>2, <3>2
  <2>2. CASE data[b + n + 1] # Comma
    <3>1. Len(data) = b + n + 1
      BY <2>2
    <3> HIDE DEF comma, p1
    <3> QED
      BY <1>2, <3>1
  <2> QED
    BY <2>1, <2>2
<1> QED
  BY <1>3 DEF Parse

\* The value that is found for the word command, in an object with any number
\* of fields that has the quoted word at one place only: the string of that
\* field, if it fits and a comma follows its opening quote; else none, and for a
\* number never a string of another field.
THEOREM CommandFound ==
  ASSUME NEW S \in Seq(Symbol), \A p \in Nat : ~HasWord(S, p),
         NEW f \in Field, NEW sep \in {Open, Comma},
         f.key = Word, f.quoted => f.text # <<Word>>,
         NEW T, Follows(T), \A p \in Nat : ~HasWord(T, p)
  PROVE  LET found == Parse((S \o Sent(sep, f)) \o T)
             commaFollows == T[1] = Comma \/ \E k \in 1..Len(f.text) : f.text[k] = Comma
         IN IF f.quoted /\ Len(f.text) < COMMAND_MAX_LEN /\ commaFollows
            THEN found = f.text
            ELSE found \in {FormatError, TooLong}
<1> USE ParserAssumption
<1> DEFINE s == Sent(sep, f)
           n == Len(f.text)
           a == Len(S)
           b == a + 5
           data == (S \o s) \o T
<1>1. /\ n \in Nat /\ f.text \in Seq(Char) /\ s \in Seq(Symbol)
      /\ s[2] = Quote /\ s[3] = Word /\ s[4] = Quote /\ s[5] = Colon
  BY FieldIs
<1>2. f.quoted => /\ Len(s) = n + 7
                  /\ s[6] = Quote /\ s[n + 7] = Quote
                  /\ \A j \in 1..n : s[j + 6] = f.text[j]
  BY FieldIs
<1>3. ~f.quoted => Len(s) = n + 5 /\ \A j \in 1..n : s[j + 5] = f.text[j]
  BY FieldIs
<1>4. \A k \in 1..n : f.text[k] \in Char /\ f.text[k] # Quote
  BY <1>1, ElementOfSeq
<1>5. /\ T \in Seq(Symbol) /\ Len(T) \in Nat \ {0} /\ a \in Nat
      /\ T[1] = Comma \/ (T[1] = Close /\ Len(T) = 1)
  BY LenProperties DEF Follows
<1>6. \A p \in Nat : HasWord(data, p) <=> p = a + 2
  BY WordFound
<1>7. /\ data \in Seq(Symbol) /\ Len(data) = a + Len(s) + Len(T)
      /\ \A i \in 1..Len(s) : data[a + i] = s[i]
      /\ \A i \in 1..Len(T) : data[a + Len(s) + i] = T[i]
  BY <1>1, <1>5, Placed
<1> HIDE DEF s, n, a, data
<1>8. Len(s) >= 5 /\ Len(s) \in Nat
  BY <1>1, <1>2, <1>3
<1>9. /\ data[a + 2] = Quote /\ data[a + 3] = Word /\ data[a + 4] = Quote
      /\ data[b] = Colon
  <2>1. 2 \in 1..Len(s) /\ 3 \in 1..Len(s) /\ 4 \in 1..Len(s) /\ 5 \in 1..Len(s)
    BY <1>8
  <2>2. data[a + 2] = s[2] /\ data[a + 3] = s[3] /\ data[a + 4] = s[4] /\ data[a + 5] = s[5]
    BY <1>7, <2>1
  <2> QED
    BY <1>1, <2>2
<1>10. b \in 1..Len(data) /\ b \in Nat \ {0} /\ a + 2 \in Nat \ {0} /\ b \in (a + 2)..Len(data)
  BY <1>5, <1>7, <1>8
<1>11. Strstr(data) = a + 2
  BY <1>6, <1>7, <1>10, StrstrOnly
<1>12. Strchr(data, Strstr(data), Colon) = b
  <2>1. \A j \in (a + 2)..(b - 1) : j = a + 2 \/ j = a + 3 \/ j = a + 4
    BY <1>5
  <2>2. \A j \in (a + 2)..(b - 1) : data[j] # Colon
    BY <1>9, <2>1, MarksDiffer
  <2> HIDE DEF b
  <2>3. Strchr(data, a + 2, Colon) = b
    BY <1>7, <1>9, <1>10, <2>2, StrchrFirst
  <2> QED
    BY <1>11, <2>3
<1>13. \A i \in 6..Len(s) : data[b + (i - 5)] = s[i]
  <2>1. \A i \in 6..Len(s) : i \in 1..Len(s) /\ b + (i - 5) = a + i
    BY <1>5, <1>8
  <2> QED
    BY <1>7, <2>1
<1>14. data[a + Len(s) + 1] = T[1]
  BY <1>5, <1>7
<1>15. CASE f.quoted
  <2>1. /\ Len(data) = b + n + 2 + Len(T) /\ b + n + 3 <= Len(data)
        /\ a + Len(s) + 1 = b + n + 3
    <3>1. Len(s) = n + 7 /\ Len(data) = a + Len(s) + Len(T)
      BY <1>2, <1>7, <1>15
    <3>2. n \in Nat /\ a \in Nat /\ Len(T) \in Nat \ {0}
      BY <1>1, <1>5
    <3> QED
      BY <3>1, <3>2
  <2>2. data[b + 1] = Quote /\ data[b + n + 2] = Quote
    <3>1. 6 \in 6..Len(s) /\ n + 7 \in 6..Len(s) /\ b + ((n + 7) - 5) = b + n + 2
      BY <1>1, <1>2, <1>10, <1>15
    <3> QED
      BY <1>2, <1>13, <1>15, <3>1
  <2>3. ASSUME NEW k \in 1..n
        PROVE  data[b + 1 + k] = f.text[k]
    <3>1. k + 6 \in 6..Len(s) /\ b + ((k + 6) - 5) = b + 1 + k
      BY <1>1, <1>2, <1>10, <1>15
    <3> QED
      BY <1>2, <1>13, <1>15, <3>1
  <2>4. data[b + n + 3] = T[1]
    BY <1>14, <2>1
  <2>5. data[b + n + 3] = Comma \/ (data[b + n + 3] = Close /\ Len(data) = b + n + 3)
    <3>1. Len(T) = 1 => Len(data) = b + n + 3
      <4>1. n \in Nat /\ b \in Nat
        BY <1>1, <1>10
      <4> HIDE DEF b
      <4> QED
        BY <2>1, <4>1
    <3> QED
      BY <1>5, <2>4, <3>1
  <2>6. n = Len(f.text)
    BY DEF n
  <2>7. Strstr(data) # 0
    BY <1>10, <1>11
  <2> HIDE DEF b
  <2>8. IF n < COMMAND_MAX_LEN /\ (data[b + n + 3] = Comma \/ \E k \in 1..n : f.text[k] = Comma)
        THEN Parse(data) = f.text
        ELSE Parse(data) \in {FormatError, TooLong}
    <3>1. /\ data \in Seq(Symbol) /\ b \in Nat \ {0} /\ f.text \in Seq(Char) /\ n \in Nat
          /\ b + n + 3 <= Len(data) /\ data[b] = Colon
      BY <1>1, <1>7, <1>9, <1>10, <2>1
    <3>2. StringAt(data, b, f.text, n)
      BY <2>2, <2>3, <2>5, <2>6, <3>1 DEF StringAt
    <3> QED
      BY <1>12, <2>7, <3>1, <3>2, StringFound
  <2> QED
    BY <1>15, <2>4, <2>8 DEF n, data, s
<1>16. CASE ~f.quoted
  <2>1. /\ Len(data) = b + n + Len(T) /\ b + n + 1 <= Len(data)
        /\ a + Len(s) + 1 = b + n + 1
    <3>1. Len(s) = n + 5 /\ Len(data) = a + Len(s) + Len(T)
      BY <1>3, <1>7, <1>16
    <3>2. n \in Nat /\ a \in Nat /\ Len(T) \in Nat \ {0}
      BY <1>1, <1>5
    <3> QED
      BY <3>1, <3>2
  <2>2. ASSUME NEW k \in 1..n
        PROVE  data[b + k] # Quote
    <3>1. k + 5 \in 6..Len(s) /\ b + ((k + 5) - 5) = b + k
      BY <1>1, <1>3, <1>10, <1>16
    <3> QED
      BY <1>3, <1>4, <1>13, <1>16, <3>1
  <2>3. data[b + n + 1] = T[1]
    BY <1>14, <2>1
  <2>4. data[b + n + 1] = Comma \/ (data[b + n + 1] = Close /\ Len(data) = b + n + 1)
    <3>1. Len(T) = 1 => Len(data) = b + n + 1
      <4>1. n \in Nat /\ b \in Nat
        BY <1>1, <1>10
      <4> HIDE DEF b
      <4> QED
        BY <2>1, <4>1
    <3> QED
      BY <1>5, <2>3, <3>1
  <2> HIDE DEF b
  <2>5. Parse(data) = FormatError
    <3>1. /\ data \in Seq(Symbol) /\ b \in Nat \ {0} /\ n \in Nat
          /\ b + n + 1 <= Len(data) /\ data[b] = Colon
      BY <1>1, <1>7, <1>9, <1>10, <2>1
    <3> QED
      BY <1>12, <2>2, <2>4, <3>1, NumberSkipped
  <2> QED
    BY <1>16, <2>5 DEF data, s
<1> QED
  BY <1>15, <1>16

-----------------------------------------------------------------------------
(* A message of up to three fields.                                        *)

NoWord(s) == s \in Seq(Symbol) /\ \A p \in Nat : ~HasWord(s, p)

LEMMA ConcatNoWord ==
  ASSUME NEW s, NoWord(s), NEW t, NoWord(t), t = <<>> \/ t[1] \in {Comma, Open, Close}
  PROVE  NoWord(s \o t)
<1>1. s \in Seq(Symbol) /\ t \in Seq(Symbol) /\ s \o t \in Seq(Symbol)
  BY ConcatProperties DEF NoWord
<1>2. Len(s) \in Nat /\ (Len(t) > 0 => t # <<>>)
  BY <1>1, LenProperties
<1>3. {Open, Comma, Close} \cap {Quote, Word} = {}
  BY Zenon DEF Open, Comma, Close, Quote, Word
<1>4. Len(t) > 0 => t[1] \notin {Quote, Word}
  BY <1>2, <1>3
<1>5. ASSUME NEW p \in Nat  PROVE ~HasWord(s \o t, p)
  <2>1. HasWord(s \o t, p) <=> HasWord(s, p) \/ (p > Len(s) /\ HasWord(t, p - Len(s)))
    BY <1>1, <1>4, ConcatFinds
  <2>2. p > Len(s) => p - Len(s) \in Nat
    BY <1>2
  <2> QED
    BY <2>1, <2>2 DEF NoWord
<1> QED
  BY <1>1, <1>5 DEF NoWord

LEMMA EndNoWord ==
  /\ NoWord(<<>>) /\ Len(<<>>) = 0
  /\ NoWord(<<Close>>) /\ <<Close>>[1] = Close /\ Len(<<Close>>) = 1
<1> DEFINE e == <<Close>>
<1>1. e \in Seq(Symbol) /\ Len(e) = 1 /\ e[1] = Close
  BY DEF Symbol
<1>2. <<>> \in Seq(Symbol) /\ Len(<<>>) = 0
  OBVIOUS
<1> HIDE DEF e
<1>3. \A p \in Nat : ~HasWord(e, p)
  BY <1>1 DEF HasWord
<1>4. \A p \in Nat : ~HasWord(<<>>, p)
  BY <1>2 DEF HasWord
<1> QED
  BY <1>1, <1>2, <1>3, <1>4 DEF NoWord, e

LEMMA PieceFinds ==
  ASSUME NEW fs \in Seq(Field), Plain(fs), NEW i \in 1..3
  PROVE  /\ Piece(fs, i) \in Seq(Symbol)
         /\ i <= Len(fs) => /\ Piece(fs, i) = Sent(IF i = 1 THEN Open ELSE Comma, fs[i])
                            /\ Piece(fs, i)[1] = IF i = 1 THEN Open ELSE Comma
                            /\ Piece(fs, i) # <<>>
                            /\ fs[i].key # Word => NoWord(Piece(fs, i))
         /\ i > Len(fs) => Piece(fs, i) = <<>> /\ NoWord(Piece(fs, i))
<1>1. DOMAIN fs = 1..Len(fs) /\ Len(fs) \in Nat
  BY LenProperties
<1>2. CASE i <= Len(fs)
  <2> DEFINE sep == IF i = 1 THEN Open ELSE Comma
  <2>1. i \in DOMAIN fs /\ fs[i] \in Field /\ sep \in {Open, Comma}
    BY <1>1, <1>2, ElementOfSeq
  <2>2. Piece(fs, i) = Sent(sep, fs[i])
    BY <2>1 DEF Piece
  <2> HIDE DEF sep
  <2>3. /\ Sent(sep, fs[i]) \in Seq(Symbol) /\ Sent(sep, fs[i])[1] = sep
        /\ Len(Sent(sep, fs[i])) # 0
    <3>1. /\ Sent(sep, fs[i]) \in Seq(Symbol) /\ Sent(sep, fs[i])[1] = sep
          /\ Len(fs[i].text) \in Nat
      BY <2>1, FieldIs
    <3>2. \/ Len(Sent(sep, fs[i])) = Len(fs[i].text) + 7
          \/ Len(Sent(sep, fs[i])) = Len(fs[i].text) + 5
      BY <2>1, FieldIs
    <3> QED
      BY <3>1, <3>2
  <2>4. fs[i].quoted => fs[i].text # <<Word>>
    BY <2>1 DEF Plain
  <2>5. fs[i].key # Word => \A p \in Nat : ~HasWord(Sent(sep, fs[i]), p)
    BY <2>1, <2>4, FieldFinds
  <2> QED
    BY <1>1, <1>2, <2>2, <2>3, <2>5, EndNoWord DEF sep, NoWord
<1>3. CASE i > Len(fs)
  <2>1. i \notin DOMAIN fs
    BY <1>1, <1>3
  <2>2. Piece(fs, i) = <<>>
    BY <2>1 DEF Piece
  <2> QED
    BY <1>1, <1>3, <2>2, EndNoWord DEF NoWord
<1> QED
  BY <1>1, <1>2, <1>3

\* In a message of up to three fields that has the word command as the key of
\* one of them, and nowhere else as a string, the search finds what that field
\* says, or nothing.
THEOREM MessageHeard ==
  ASSUME NEW fs \in Seq(Field), Len(fs) \in 1..3, Plain(fs)
  PROVE  LET commands == {i \in DOMAIN fs : Found(fs, i)}
         IN IF commands = {} THEN Parse(Render(fs)) \in {FormatError, TooLong}
                             ELSE \E i \in commands : Parse(Render(fs)) = fs[i].text
<1> DEFINE P1 == Piece(fs, 1)
           P2 == Piece(fs, 2)
           P3 == Piece(fs, 3)
           E == <<Close>>
           T2 == P3 \o E
           T1 == P2 \o T2
           NotWord(i) == i <= Len(fs) => fs[i].key # Word
           After(i, T) == /\ T \in Seq(Symbol) /\ Len(T) > 0
                          /\ i < Len(fs) => T[1] = Comma
                          /\ i >= Len(fs) => T = E /\ T[1] = Close
<1>1. DOMAIN fs = 1..Len(fs) /\ Len(fs) \in 1..3
  BY LenProperties
<1>2. P1 \in Seq(Symbol) /\ P2 \in Seq(Symbol) /\ P3 \in Seq(Symbol) /\ E \in Seq(Symbol)
  BY PieceFinds, EndNoWord DEF NoWord
<1>3. /\ NotWord(1) => NoWord(P1)
      /\ NotWord(2) => NoWord(P2)
      /\ NotWord(3) => NoWord(P3)
      /\ NoWord(E) /\ NoWord(<<>>)
  BY <1>1, PieceFinds, EndNoWord
<1>4. /\ P1[1] = Open
      /\ 2 <= Len(fs) => P2[1] = Comma /\ P2 # <<>>
      /\ 3 <= Len(fs) => P3[1] = Comma /\ P3 # <<>>
      /\ 2 > Len(fs) => P2 = <<>>
      /\ 3 > Len(fs) => P3 = <<>>
      /\ E[1] = Close /\ Len(E) = 1
  BY <1>1, PieceFinds, EndNoWord
<1>5. ASSUME NEW i \in DOMAIN fs, fs[i].key = Word,
             NEW S, NoWord(S), NEW T, NoWord(T), After(i, T),
             Render(fs) = (S \o Piece(fs, i)) \o T
      PROVE  LET commands == {j \in DOMAIN fs : Found(fs, j)}
             IN IF commands = {} THEN Parse(Render(fs)) \in {FormatError, TooLong}
                                 ELSE \E j \in commands : Parse(Render(fs)) = fs[j].text
  <2> DEFINE sep == IF i = 1 THEN Open ELSE Comma
             f == fs[i]
             found == Parse((S \o Sent(sep, f)) \o T)
  <2>1. f \in Field /\ sep \in {Open, Comma} /\ i \in 1..3 /\ i <= Len(fs)
    BY <1>1, <1>5, ElementOfSeq
  <2>2. Render(fs) = (S \o Sent(sep, f)) \o T
    BY <1>5, <2>1, PieceFinds
  <2>3. f.quoted => f.text # <<Word>>
    BY <1>5 DEF Plain
  <2>4. Follows(T) /\ (T[1] = Comma <=> i < Len(fs))
    <3>1. After(i, T) /\ i \in Nat /\ Len(fs) \in Nat /\ T \in Seq(Symbol)
      BY <1>1, <1>5, <2>1
    <3> QED
      BY <3>1, MarksDiffer DEF Follows
  <2> HIDE DEF sep
  <2>5. IF /\ f.quoted /\ Len(f.text) < COMMAND_MAX_LEN
           /\ T[1] = Comma \/ \E k \in 1..Len(f.text) : f.text[k] = Comma
        THEN found = f.text
        ELSE found \in {FormatError, TooLong}
    <3>1. /\ S \in Seq(Symbol) /\ \A p \in Nat : ~HasWord(S, p)
          /\ \A p \in Nat : ~HasWord(T, p)
      BY <1>5 DEF NoWord
    <3> QED
      BY <1>5, <2>1, <2>3, <2>4, <3>1, CommandFound
  <2>6. DOMAIN f.text = 1..Len(f.text)
    BY <2>1, LenProperties DEF Field
  <2>7. Found(fs, i) <=> /\ f.quoted /\ Len(f.text) < COMMAND_MAX_LEN
                         /\ T[1] = Comma \/ \E k \in 1..Len(f.text) : f.text[k] = Comma
    BY <1>5, <2>4, <2>6 DEF Found
  <2>8. \A j \in DOMAIN fs : Found(fs, j) => j = i
    BY <1>5 DEF Found, Plain
  <2> QED
    BY <1>5, <2>2, <2>5, <2>7, <2>8
<1> HIDE DEF P1, P2, P3, E
<1>6. Render(fs) = ((P1 \o P2) \o P3) \o E
  BY DEF Render, P1, P2, P3, E
<1>7. T2 \in Seq(Symbol) /\ T1 \in Seq(Symbol) /\ P1 \o P2 \in Seq(Symbol)
  BY <1>2, ConcatProperties
<1>8. /\ ((P1 \o P2) \o P3) \o E = (P1 \o P2) \o T2
      /\ (P1 \o P2) \o T2 = P1 \o T1
      /\ P1 = <<>> \o P1
  <2>1. T2 \in Seq(Symbol)
    BY <1>7
  <2>2. P1 \o P2 \in Seq(Symbol)
    BY <1>7
  <2>3. ((P1 \o P2) \o P3) \o E = (P1 \o P2) \o (P3 \o E)
    <3> DEFINE q == P1 \o P2
    <3>1. q \in Seq(Symbol)
      BY <2>2
    <3> HIDE DEF q
    <3>2. (q \o P3) \o E = q \o (P3 \o E)
      BY <1>2, <3>1, ConcatAssociative
    <3> QED
      BY <3>2 DEF q
  <2> HIDE DEF T2
  <2>4. (P1 \o P2) \o T2 = P1 \o (P2 \o T2)
    BY <1>2, <2>1, ConcatAssociative
  <2>5. P1 = <<>> \o P1
    BY <1>2, ConcatEmptySeq
  <2> QED
    BY <2>3, <2>4, <2>5 DEF T2
<1>9. After(3, E) /\ (Len(fs) < 3 => After(2, E)) /\ (Len(fs) < 2 => After(1, E))
  <2>1. E \in Seq(Symbol) /\ E[1] = Close /\ Len(E) = 1
    BY <1>2, <1>4
  <2>2. ~(3 < Len(fs)) /\ (Len(fs) < 3 => ~(2 < Len(fs))) /\ (Len(fs) < 2 => ~(1 < Len(fs)))
    <3>1. ASSUME NEW n \in 1..3
          PROVE  ~(3 < n) /\ (n < 3 => ~(2 < n)) /\ (n < 2 => ~(1 < n))
      OBVIOUS
    <3> QED
      BY <3>1
  <2>3. Len(E) > 0
    BY <2>1
  <2> QED
    BY <2>1, <2>2, <2>3, Zenon
<1>10. After(2, T2) /\ (NotWord(3) => NoWord(T2))
  <2>1. NotWord(3) => NoWord(T2)
    BY <1>3, <1>4, ConcatNoWord
  <2>2. CASE Len(fs) = 3
    <3>1. P3[1] = Comma /\ Len(P3) \in Nat \ {0}
      BY <1>2, <1>4, <2>2, LenProperties, EmptySeq
    <3>2. T2[1] = P3[1] /\ Len(T2) > 0
      BY <1>2, <1>4, <3>1, ConcatProperties
    <3> QED
      BY <1>7, <2>1, <2>2, <3>1, <3>2
  <2>3. CASE Len(fs) < 3
    <3>1. T2 = E
      BY <1>1, <1>2, <1>4, <2>3, ConcatEmptySeq
    <3>2. After(2, E)
      BY <1>9, <2>3
    <3> QED
      BY <2>1, <3>1, <3>2
  <2> QED
    BY <1>1, <2>2, <2>3
<1>11. After(1, T1) /\ (NotWord(2) /\ NotWord(3) => NoWord(T1))
  <2>1. T2[1] \in {Comma, Close} /\ T2 \in Seq(Symbol)
    BY <1>1, <1>10
  <2> HIDE DEF T2
  <2>2. NotWord(2) /\ NotWord(3) => NoWord(T1)
    BY <1>3, <1>10, <2>1, ConcatNoWord
  <2>3. CASE Len(fs) > 1
    <3>1. P2[1] = Comma /\ Len(P2) \in Nat \ {0}
      BY <1>1, <1>2, <1>4, <2>3, LenProperties, EmptySeq
    <3>2. T1[1] = P2[1] /\ Len(T1) > 0
      BY <1>2, <2>1, <3>1, LenProperties, ConcatProperties
    <3> QED
      BY <1>7, <2>2, <2>3, <3>1, <3>2
  <2>4. CASE Len(fs) = 1
    <3>1. T1 = T2
      BY <1>1, <1>2, <1>4, <2>1, <2>4, ConcatEmptySeq
    <3> HIDE DEF T1
    <3> QED
      BY <1>1, <1>10, <2>2, <2>4, <3>1
  <2> QED
    BY <1>1, <2>3, <2>4
<1> HIDE DEF T1, T2
<1>12. CASE 1 \in DOMAIN fs /\ fs[1].key = Word
  <2>1. NotWord(2) /\ NotWord(3)
    BY <1>1, <1>12 DEF Plain
  <2>2. Render(fs) = (<<>> \o P1) \o T1
    BY <1>6, <1>8
  <2> QED
    BY <1>3, <1>5, <1>11, <1>12, <2>1, <2>2 DEF P1
<1>13. CASE 2 \in DOMAIN fs /\ fs[2].key = Word
  <2>1. NotWord(1) /\ NotWord(3)
    BY <1>1, <1>13 DEF Plain
  <2>2. Render(fs) = (P1 \o P2) \o T2
    BY <1>6, <1>8
  <2> QED
    BY <1>3, <1>5, <1>10, <1>13, <2>1, <2>2 DEF P2
<1>14. CASE 3 \in DOMAIN fs /\ fs[3].key = Word
  <2>1. NotWord(1) /\ NotWord(2)
    BY <1>1, <1>14 DEF Plain
  <2>2. NoWord(P1 \o P2)
    BY <1>1, <1>3, <1>4, <2>1, ConcatNoWord
  <2> QED
    BY <1>3, <1>5, <1>6, <1>9, <1>14, <2>2 DEF P3
<1>15. CASE \A i \in DOMAIN fs : fs[i].key # Word
  <2>1. NotWord(1) /\ NotWord(2) /\ NotWord(3)
    BY <1>1, <1>15
  <2>2. NoWord(P1) /\ NoWord(T1) /\ T1[1] \in {Comma, Close}
    BY <1>1, <1>3, <1>11, <2>1
  <2>3. NoWord(P1 \o T1)
    BY <2>2, ConcatNoWord
  <2>4. Parse(Render(fs)) = FormatError
    BY <1>6, <1>8, <2>3, NoWordNoName DEF NoWord
  <2> QED
    BY <1>15, <2>4 DEF Found
<1>16. \A i \in DOMAIN fs : i = 1 \/ i = 2 \/ i = 3
  BY <1>1
<1> QED
  BY <1>12, <1>13, <1>14, <1>15, <1>16
=============================================================================
