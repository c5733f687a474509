-------------------------- MODULE IOTServiceProofs --------------------------
(***************************************************************************)
(* Proofs about the client registry, for every set of clients and every    *)
(* value of the limits.                                                    *)
(***************************************************************************)
EXTENDS IOTService, SequenceTheorems, FiniteSetTheorems, TLAPS

-----------------------------------------------------------------------------
(* Lemmas on vectors.                                                      *)

\* Appending an element that is not there keeps a vector without duplicates.
LEMMA AppendFresh ==
  ASSUME NEW S, NEW s \in Seq(S), NEW e \in S, IsInjective(s), e \notin ToSet(s)
  PROVE  /\ Append(s, e) \in Seq(S)
         /\ IsInjective(Append(s, e))
         /\ ToSet(Append(s, e)) = ToSet(s) \cup {e}
         /\ Len(Append(s, e)) = Len(s) + 1
<1> DEFINE t == Append(s, e)
<1>1. /\ t \in Seq(S)
      /\ Len(t) = Len(s) + 1
      /\ Len(s) \in Nat
      /\ DOMAIN s = 1 .. Len(s)
      /\ DOMAIN t = 1 .. Len(s) + 1
      /\ \A i \in 1 .. Len(s) : t[i] = s[i]
      /\ t[Len(s) + 1] = e
  BY AppendProperties, LenProperties
<1>2. \A i \in 1 .. Len(s) : s[i] # e
  BY <1>1 DEF ToSet
<1> HIDE DEF t
<1>3. IsInjective(t)
  <2> SUFFICES ASSUME NEW i \in 1 .. Len(s) + 1, NEW j \in 1 .. Len(s) + 1, t[i] = t[j]
               PROVE  i = j
    BY <1>1 DEF IsInjective
  <2>1. CASE i \in 1 .. Len(s) /\ j \in 1 .. Len(s)
    BY <2>1, <1>1 DEF IsInjective
  <2>2. CASE i = Len(s) + 1 \/ j = Len(s) + 1
    BY <2>2, <1>1, <1>2
  <2> QED BY <2>1, <2>2, <1>1
<1>4. ToSet(t) = ToSet(s) \cup {e}
  BY <1>1 DEF ToSet
<1> QED BY <1>1, <1>3, <1>4 DEF t

\* Erasing the first occurrence erases every occurrence when there are no
\* duplicates, and creates none.
LEMMA RemoveFirstFromSet ==
  ASSUME NEW S, NEW s \in Seq(S), NEW e, IsInjective(s)
  PROVE  /\ RemoveFirst(s, e) \in Seq(S)
         /\ IsInjective(RemoveFirst(s, e))
         /\ ToSet(RemoveFirst(s, e)) = ToSet(s) \ {e}
         /\ Len(RemoveFirst(s, e)) \in Nat
         /\ Len(RemoveFirst(s, e)) <= Len(s)
<1>1. Len(s) \in Nat /\ DOMAIN s = 1 .. Len(s) /\ \A i \in 1 .. Len(s) : s[i] \in S
  BY LenProperties, ElementOfSeq
<1>2. CASE ~ \E i \in 1 .. Len(s) : s[i] = e
  BY <1>1, <1>2 DEF RemoveFirst, ToSet
<1>3. CASE \E i \in 1 .. Len(s) : s[i] = e
  <2>1. PICK p \in 1 .. Len(s) : s[p] = e
    BY <1>3
  <2> DEFINE I == {i \in 1 .. Len(s) : s[i] = e}
  <2>2. I = {p}
    BY <1>1, <2>1 DEF IsInjective
  <2>3. Min({p}) = p
    BY <2>1 DEF Min
  <2>4. SelectInSeq(s, LAMBDA v : v = e) = p
    BY <2>2, <2>3 DEF SelectInSeq
  <2>5. RemoveFirst(s, e) = SubSeq(s, 1, p - 1) \o SubSeq(s, p + 1, Len(s))
    BY <1>3, <2>4 DEF RemoveFirst, RemoveAt
  <2> DEFINE a == SubSeq(s, 1, p - 1)
             b == SubSeq(s, p + 1, Len(s))
             t == a \o b
  <2>6. /\ a \in Seq(S)
        /\ Len(a) = p - 1
        /\ \A i \in 1 .. p - 1 : a[i] = s[i]
    <3>1. p - 1 \in Int /\ \A i \in 1 .. p - 1 : s[i] \in S
      BY <1>1
    <3> HIDE DEF I
    <3> QED BY <3>1, SubSeqProperties
  <2>7. /\ b \in Seq(S)
        /\ Len(b) = Len(s) - p
        /\ \A i \in 1 .. Len(s) - p : b[i] = s[i + p]
    <3>1. p + 1 \in Int /\ Len(s) \in Int /\ \A i \in p + 1 .. Len(s) : s[i] \in S
      BY <1>1
    <3>2. /\ SubSeq(s, p + 1, Len(s)) \in Seq(S)
          /\ Len(SubSeq(s, p + 1, Len(s))) = IF p + 1 <= Len(s) THEN Len(s) - (p + 1) + 1 ELSE 0
          /\ \A i \in 1 .. Len(s) - (p + 1) + 1 :
               SubSeq(s, p + 1, Len(s))[i] = s[p + 1 + i - 1]
      BY <3>1, SubSeqProperties
    <3> HIDE DEF I
    <3>3. \A n \in Nat : p <= n => /\ n - (p + 1) + 1 = n - p
                                   /\ ~ (p + 1 <= n) => n - p = 0
      OBVIOUS
    <3>4. \A i \in 1 .. Len(s) - p : p + 1 + i - 1 = i + p
      OBVIOUS
    <3>5. Len(s) \in Nat /\ p <= Len(s)
      BY <1>1
    <3>6. Len(s) - (p + 1) + 1 = Len(s) - p /\ (~ (p + 1 <= Len(s)) => Len(s) - p = 0)
      BY <3>3, <3>5
    <3> QED BY <3>2, <3>4, <3>6
  <2> HIDE DEF a, b, I
  <2>8. /\ t \in Seq(S)
        /\ Len(t) = Len(s) - 1
        /\ DOMAIN t = 1 .. Len(s) - 1
        /\ \A i \in 1 .. Len(s) - 1 : t[i] = IF i < p THEN s[i] ELSE s[i + 1]
    <3>1. /\ t \in Seq(S)
          /\ Len(t) = Len(s) - 1
          /\ \A i \in 1 .. Len(s) - 1 : t[i] = IF i <= p - 1 THEN a[i] ELSE b[i - (p - 1)]
      <4>1. Len(a) + Len(b) = Len(s) - 1
        BY <1>1, <2>6, <2>7
      <4>2. /\ a \o b \in Seq(S)
            /\ Len(a \o b) = Len(a) + Len(b)
            /\ \A i \in 1 .. Len(a) + Len(b) :
                 (a \o b)[i] = IF i <= Len(a) THEN a[i] ELSE b[i - Len(a)]
        BY <2>6, <2>7, ConcatProperties
      <4>3. Len(a) = p - 1
        BY <2>6
      <4> QED BY <4>1, <4>2, <4>3
    <3>2. DOMAIN t = 1 .. Len(s) - 1
      BY <3>1, LenProperties
    <3>3. ASSUME NEW i \in 1 .. Len(s) - 1
          PROVE  t[i] = IF i < p THEN s[i] ELSE s[i + 1]
      <4>1. CASE i < p
        BY <4>1, <1>1, <2>6, <3>1
      <4>2. CASE ~ (i < p)
        <5>1. i - (p - 1) \in 1 .. Len(s) - p /\ i - (p - 1) + p = i + 1
          BY <4>2, <1>1
        <5>2. b[i - (p - 1)] = s[i + 1]
          BY <5>1, <2>7
        <5>3. ~ (i <= p - 1)
          BY <4>2, <1>1
        <5> QED BY <4>2, <5>2, <5>3, <3>1
      <4> QED BY <4>1, <4>2
    <3> QED BY <3>1, <3>2, <3>3
  <2> HIDE DEF t
  <2>9. IsInjective(t)
    <3> DEFINE shift(i) == IF i < p THEN i ELSE i + 1
    <3>1. \A i \in 1 .. Len(s) - 1 : shift(i) \in 1 .. Len(s) /\ t[i] = s[shift(i)]
      BY <1>1, <2>8
    <3>2. \A i, j \in 1 .. Len(s) - 1 : shift(i) = shift(j) => i = j
      BY <1>1
    <3> HIDE DEF shift
    <3> QED BY <1>1, <2>8, <3>1, <3>2 DEF IsInjective
  <2>10. ToSet(t) = ToSet(s) \ {e}
    <3>1. ASSUME NEW i \in 1 .. Len(s) - 1
          PROVE  t[i] \in ToSet(s) \ {e}
      <4> DEFINE j == IF i < p THEN i ELSE i + 1
      <4>1. j \in 1 .. Len(s) /\ j # p /\ t[i] = s[j]
        BY <1>1, <2>8
      <4> HIDE DEF j
      <4> QED BY <1>1, <2>1, <4>1 DEF IsInjective, ToSet
    <3>2. ASSUME NEW j \in 1 .. Len(s), s[j] # e
          PROVE  \E i \in 1 .. Len(s) - 1 : t[i] = s[j]
      <4>1. CASE j < p
        <5>1. j \in 1 .. Len(s) - 1 /\ t[j] = s[j]
          BY <4>1, <1>1, <2>1, <2>8
        <5> QED BY <5>1
      <4>2. CASE j > p
        <5>1. j - 1 \in 1 .. Len(s) - 1 /\ ~ (j - 1 < p) /\ j - 1 + 1 = j
          BY <4>2, <1>1, <2>1
        <5>2. t[j - 1] = s[j]
          BY <5>1, <2>8
        <5> QED BY <5>1, <5>2
      <4>3. j < p \/ j > p
        BY <2>1, <3>2, <1>1
      <4> QED BY <4>1, <4>2, <4>3
    <3>3. ToSet(t) = {t[i] : i \in 1 .. Len(s) - 1} /\ ToSet(s) = {s[i] : i \in 1 .. Len(s)}
      BY <1>1, <2>8 DEF ToSet
    <3>4. ToSet(t) \subseteq ToSet(s) \ {e}
      BY <3>1, <3>3
    <3>5. ToSet(s) \ {e} \subseteq ToSet(t)
      BY <3>2, <3>3
    <3> QED BY <3>4, <3>5
  <2>11. RemoveFirst(s, e) = t
    BY <2>5 DEF t, a, b
  <2>12. Len(s) - 1 \in Nat /\ Len(s) - 1 <= Len(s)
    BY <1>1
  <2> QED BY <2>11, <2>8, <2>9, <2>10, <2>12
<1> QED BY <1>2, <1>3

-----------------------------------------------------------------------------
(* Lemmas on the follow maps.                                              *)

\* What the follow relation contains.
LEMMA EdgesMember ==
  ASSUME NEW table
  PROVE  /\ \A c, k : <<c, k>> \in Edges(table) <=> k \in DOMAIN table /\ c \in ToSet(table[k])
         /\ \A f \in Edges(table) : f = <<f[1], f[2]>>
BY DEF Edges

\* addFollowing adds one follower of one name, and nothing else.
LEMMA AddFollowingMap ==
  ASSUME NEW Name, NEW val \in Name, NEW c \in Client,
         NEW table, IsFollowMap(table, Name), InjectiveVectors(table)
  PROVE  LET new == AddFollowing(table, val, c)
         IN  /\ IsFollowMap(new, Name)
             /\ InjectiveVectors(new)
             /\ Edges(new) = Edges(table) \cup {<<c, val>>}
<1> DEFINE old == IF val \in DOMAIN table THEN table[val] ELSE <<>>
           vec == IF Contains(old, c) THEN old ELSE Append(old, c)
           new == AddFollowing(table, val, c)
<1>1. /\ DOMAIN new = DOMAIN table \cup {val}
      /\ new[val] = vec
      /\ \A v \in DOMAIN table \ {val} : new[v] = table[v]
  BY DEF AddFollowing
<1>2. old \in Seq(Client) /\ IsInjective(old)
  <2>1. <<>> \in Seq(Client) /\ IsInjective(<<>>)
    BY EmptySeq, LenProperties DEF IsInjective
  <2> QED BY <2>1 DEF IsFollowMap, InjectiveVectors
<1>3. ToSet(old) = IF val \in DOMAIN table THEN ToSet(table[val]) ELSE {}
  BY EmptySeq, LenProperties DEF ToSet
<1> HIDE DEF old, new
<1>4. vec \in Seq(Client) /\ IsInjective(vec) /\ ToSet(vec) = ToSet(old) \cup {c}
  <2>1. Contains(old, c) <=> c \in ToSet(old)
    BY <1>2, LenProperties DEF Contains, ToSet
  <2>2. CASE c \in ToSet(old)
    BY <2>1, <2>2, <1>2
  <2>3. CASE c \notin ToSet(old)
    BY <2>1, <2>3, <1>2, AppendFresh
  <2> QED BY <2>2, <2>3
<1> HIDE DEF vec
<1>5. IsFollowMap(new, Name) /\ InjectiveVectors(new)
  BY <1>1, <1>4 DEF IsFollowMap, InjectiveVectors
<1>7. ASSUME NEW d, NEW k
      PROVE  <<d, k>> \in Edges(new) <=> <<d, k>> \in Edges(table) \cup {<<c, val>>}
  <2>1. /\ <<d, k>> \in Edges(new) <=> k \in DOMAIN new /\ d \in ToSet(new[k])
        /\ <<d, k>> \in Edges(table) <=> k \in DOMAIN table /\ d \in ToSet(table[k])
    BY EdgesMember, Zenon
  <2>2. CASE k = val
    BY <1>1, <1>3, <1>4, <2>1, <2>2
  <2>3. CASE k # val
    BY <1>1, <2>1, <2>3
  <2> QED BY <2>2, <2>3
<1>8. \A f \in Edges(new) \cup Edges(table) \cup {<<c, val>>} : f = <<f[1], f[2]>>
  BY EdgesMember
<1>9. Edges(new) = Edges(table) \cup {<<c, val>>}
  BY <1>7, <1>8
<1> QED BY <1>5, <1>9 DEF new

\* The loops of removeClient take one client out of every vector.
LEMMA RemoveFollowerMap ==
  ASSUME NEW Name, NEW c \in Client,
         NEW table, IsFollowMap(table, Name), InjectiveVectors(table)
  PROVE  LET new == RemoveFollower(table, c)
         IN  /\ IsFollowMap(new, Name)
             /\ InjectiveVectors(new)
             /\ DOMAIN new = DOMAIN table
             /\ \A v \in DOMAIN table : ToSet(new[v]) = ToSet(table[v]) \ {c}
<1> DEFINE new == RemoveFollower(table, c)
<1>1. DOMAIN new = DOMAIN table /\ \A v \in DOMAIN table : new[v] = RemoveFirst(table[v], c)
  BY DEF RemoveFollower
<1>2. ASSUME NEW v \in DOMAIN table
      PROVE  /\ new[v] \in Seq(Client)
             /\ IsInjective(new[v])
             /\ ToSet(new[v]) = ToSet(table[v]) \ {c}
  <2>1. table[v] \in Seq(Client) /\ IsInjective(table[v])
    BY DEF IsFollowMap, InjectiveVectors
  <2> QED BY <2>1, <1>1, RemoveFirstFromSet
<1> HIDE DEF new
<1>3. IsFollowMap(new, Name) /\ InjectiveVectors(new)
  BY <1>1, <1>2 DEF IsFollowMap, InjectiveVectors
<1> QED BY <1>1, <1>2, <1>3 DEF new

\* removeClient takes the pairs of one client out of the relation.
LEMMA RemoveFollowerEdges ==
  ASSUME NEW Name, NEW c \in Client,
         NEW table, IsFollowMap(table, Name), InjectiveVectors(table)
  PROVE  Edges(RemoveFollower(table, c)) = {f \in Edges(table) : f[1] # c}
<1> DEFINE new == RemoveFollower(table, c)
<1>1. /\ DOMAIN new = DOMAIN table
      /\ \A v \in DOMAIN table : ToSet(new[v]) = ToSet(table[v]) \ {c}
  BY RemoveFollowerMap
<1> HIDE DEF new
<1>2. ASSUME NEW d, NEW k
      PROVE  <<d, k>> \in Edges(new) <=> <<d, k>> \in Edges(table) /\ d # c
  <2>1. /\ <<d, k>> \in Edges(new) <=> k \in DOMAIN new /\ d \in ToSet(new[k])
        /\ <<d, k>> \in Edges(table) <=> k \in DOMAIN table /\ d \in ToSet(table[k])
    BY EdgesMember, Zenon
  <2> QED BY <1>1, <2>1
<1>3. \A f \in Edges(new) \cup Edges(table) : f = <<f[1], f[2]>>
  BY EdgesMember
<1>4. Edges(new) = {f \in Edges(table) : f[1] # c}
  BY <1>2, <1>3
<1> QED BY <1>4 DEF new

-----------------------------------------------------------------------------
(* The registry invariant.  NoGhostFollower is not inductive by itself: that *)
(* removeClient empties every vector needs NoDuplicates, and that only       *)
(* members and strays follow needs to know which sessions are registered.    *)

IInv == TypeOK /\ NoDuplicates /\ SessionsRegistered /\ NoGhostFollower

\* An empty registry satisfies it.
LEMMA InitIInv == Init => IInv
<1> SUFFICES ASSUME Init PROVE IInv
  OBVIOUS
<1>1. /\ <<>> \in Seq(Client)
      /\ DOMAIN <<>> = {}
  BY EmptySeq, LenProperties
<1>2. TypeOK
  BY <1>1 DEF Init, TypeOK, IsFollowMap, SessionState
<1>3. NoDuplicates
  BY <1>1 DEF Init, NoDuplicates, InjectiveVectors, IsInjective
<1>4. SessionsRegistered /\ NoGhostFollower
  BY <1>1 DEF Init, SessionsRegistered, NoGhostFollower, Follows, Edges, ToSet
<1> QED BY <1>2, <1>3, <1>4 DEF IInv

\* A step that leaves the three containers alone keeps what is said of them.
LEMMA SameRegistry ==
  ASSUME IInv, UNCHANGED <<m_clients, m_keyFollow, m_cmdFollow>>, stray \subseteq stray'
  PROVE  NoDuplicates' /\ NoGhostFollower'
BY DEF IInv, NoDuplicates, InjectiveVectors, NoGhostFollower, Follows, Edges, ToSet

\* A follow comes from a member or is stray.
LEMMA PostedBy ==
  ASSUME IInv, NEW c \in Client, NEW k, Posted(c, k)
  PROVE  /\ c \in ToSet(m_clients) \/ <<c, k>> \in stray
         /\ alive' = alive /\ stray' = stray /\ late' \subseteq late
<1>1. CASE pc[c] \in Opened /\ c \in alive /\ UNCHANGED process
  <2>1. c \in ToSet(m_clients)
    BY <1>1 DEF IInv, SessionsRegistered, TypeOK, Opened, SessionState
  <2> QED BY <1>1, <2>1 DEF process
<1>2. CASE <<c, k>> \in late /\ late' = late \ {<<c, k>>} /\ UNCHANGED <<alive, stray>>
  BY <1>2 DEF IInv, TypeOK
<1> QED BY <1>1, <1>2 DEF Posted

\* Every step of the registry preserves the invariant.
LEMMA NextIInv == IInv /\ [Next]_vars => IInv'
<1> SUFFICES ASSUME IInv, [Next]_vars
             PROVE  IInv'
  OBVIOUS
<1> USE DEF IInv
<1>1. ASSUME NEW c \in Client, CreateCheck(c)
      PROVE  IInv'
  <2>1. TypeOK'
    BY <1>1 DEF CreateCheck, TypeOK, registry, process, dispatch, SessionState
  <2>2. SessionsRegistered'
    BY <1>1 DEF CreateCheck, SessionsRegistered, TypeOK, registry, process, Opened, SessionState
  <2> QED BY <1>1, <2>1, <2>2, SameRegistry DEF CreateCheck, registry, process
<1>2. ASSUME NEW c \in Client, CreateAdd(c)
      PROVE  IInv'
  <2>1. /\ m_clients' \in Seq(Client)
        /\ IsInjective(m_clients')
        /\ ToSet(m_clients') = ToSet(m_clients) \cup {c}
    <3>1. c \notin ToSet(m_clients)
      BY <1>2 DEF CreateAdd, SessionsRegistered, Opened
    <3> QED BY <1>2, <3>1, AppendFresh DEF CreateAdd, TypeOK, NoDuplicates
  <2>2. TypeOK'
    BY <1>2, <2>1 DEF CreateAdd, TypeOK, IsFollowMap, process, dispatch, SessionState
  <2>3. NoDuplicates'
    BY <1>2, <2>1 DEF CreateAdd, NoDuplicates, InjectiveVectors
  <2>4. SessionsRegistered'
    BY <1>2, <2>1 DEF CreateAdd, SessionsRegistered, TypeOK, process, Opened, SessionState
  <2>5. NoGhostFollower'
    <3>1. Follows' = Follows /\ stray' = stray
      BY <1>2 DEF CreateAdd, Follows, process
    <3>2. \A f \in Follows : f[1] \in ToSet(m_clients') \/ f \in stray
      BY <2>1 DEF NoGhostFollower
    <3> QED BY <3>1, <3>2 DEF NoGhostFollower, ToSet
  <2> QED BY <2>2, <2>3, <2>4, <2>5
<1>3. ASSUME NEW c \in Client, NEW k \in Key, FollowProperty(c, k)
      PROVE  IInv'
  <2>1. /\ c \in ToSet(m_clients) \/ <<c, k>> \in stray
        /\ alive' = alive /\ stray' = stray /\ late' \subseteq late
    BY <1>3, PostedBy DEF FollowProperty
  <2>2. /\ IsFollowMap(m_keyFollow', Key)
        /\ InjectiveVectors(m_keyFollow')
        /\ Edges(m_keyFollow') = Edges(m_keyFollow) \cup {<<c, k>>}
    <3>1. IsFollowMap(m_keyFollow, Key) /\ InjectiveVectors(m_keyFollow)
      BY DEF TypeOK, NoDuplicates
    <3>2. m_keyFollow' = AddFollowing(m_keyFollow, k, c)
      BY <1>3 DEF FollowProperty
    <3> QED BY <3>1, <3>2, AddFollowingMap
  <2>3. TypeOK'
    BY <1>3, <2>1, <2>2 DEF FollowProperty, TypeOK, IsFollowMap, dispatch
  <2>4. NoDuplicates'
    BY <1>3, <2>2 DEF FollowProperty, NoDuplicates, InjectiveVectors
  <2>5. NoGhostFollower'
    <3>1. m_clients' = m_clients /\ Edges(m_cmdFollow') = Edges(m_cmdFollow)
      BY <1>3 DEF FollowProperty
    <3>2. Follows' = Follows \cup {<<c, k>>}
      BY <2>2, <3>1 DEF Follows
    <3>3. \A f \in Follows' : f[1] \in ToSet(m_clients) \/ f \in stray
      BY <2>1, <3>2 DEF NoGhostFollower
    <3> QED BY <2>1, <3>1, <3>3 DEF NoGhostFollower, ToSet
  <2>6. SessionsRegistered'
    BY <1>3, <2>1 DEF FollowProperty, SessionsRegistered
  <2> QED BY <2>3, <2>4, <2>5, <2>6
<1>4. ASSUME NEW c \in Client, NEW k \in Cmd, FollowCommand(c, k)
      PROVE  IInv'
  <2>1. /\ c \in ToSet(m_clients) \/ <<c, k>> \in stray
        /\ alive' = alive /\ stray' = stray /\ late' \subseteq late
    BY <1>4, PostedBy DEF FollowCommand
  <2>2. /\ IsFollowMap(m_cmdFollow', Cmd)
        /\ InjectiveVectors(m_cmdFollow')
        /\ Edges(m_cmdFollow') = Edges(m_cmdFollow) \cup {<<c, k>>}
    <3>1. IsFollowMap(m_cmdFollow, Cmd) /\ InjectiveVectors(m_cmdFollow)
      BY DEF TypeOK, NoDuplicates
    <3>2. m_cmdFollow' = AddFollowing(m_cmdFollow, k, c)
      BY <1>4 DEF FollowCommand
    <3> QED BY <3>1, <3>2, AddFollowingMap
  <2>3. TypeOK'
    BY <1>4, <2>1, <2>2 DEF FollowCommand, TypeOK, IsFollowMap, dispatch
  <2>4. NoDuplicates'
    BY <1>4, <2>2 DEF FollowCommand, NoDuplicates, InjectiveVectors
  <2>5. NoGhostFollower'
    <3>1. m_clients' = m_clients /\ Edges(m_keyFollow') = Edges(m_keyFollow)
      BY <1>4 DEF FollowCommand
    <3>2. Follows' = Follows \cup {<<c, k>>}
      BY <2>2, <3>1 DEF Follows
    <3>3. \A f \in Follows' : f[1] \in ToSet(m_clients) \/ f \in stray
      BY <2>1, <3>2 DEF NoGhostFollower
    <3> QED BY <2>1, <3>1, <3>3 DEF NoGhostFollower, ToSet
  <2>6. SessionsRegistered'
    BY <1>4, <2>1 DEF FollowCommand, SessionsRegistered
  <2> QED BY <2>3, <2>4, <2>5, <2>6
<1>5. ASSUME NEW c \in Client,
             RegistCommandCB(c) \/ RegistPropertyCB(c) \/ LinkToDeath(c) \/ ClientActive(c)
      PROVE  IInv'
  <2>1. UNCHANGED registry
    BY <1>5 DEF RegistCommandCB, RegistPropertyCB, LinkToDeath, ClientActive
  <2>2. TypeOK'
    BY <1>5 DEF RegistCommandCB, RegistPropertyCB, LinkToDeath, ClientActive, TypeOK,
                registry, process, dispatch, SessionState
  <2>3. SessionsRegistered'
    BY <1>5 DEF RegistCommandCB, RegistPropertyCB, LinkToDeath, ClientActive, TypeOK,
                SessionsRegistered, registry, process, Opened, SessionState
  <2>4. stray' = stray
    BY <1>5 DEF RegistCommandCB, RegistPropertyCB, LinkToDeath, ClientActive, process
  <2> QED BY <2>1, <2>2, <2>3, <2>4, SameRegistry DEF registry
<1>6. ASSUME NEW c \in Client, Crash(c)
      PROVE  IInv'
  <2>1. UNCHANGED registry
    BY <1>6 DEF Crash
  <2>2. PICK p \in SUBSET (Key \cup Cmd) :
          late' = late \cup {c} \X p /\ stray' = stray \cup {c} \X p
    BY <1>6 DEF Crash, Posts
  <2>3. TypeOK'
    BY <1>6, <2>2 DEF Crash, TypeOK, registry, dispatch
  <2>4. SessionsRegistered'
    BY <1>6 DEF Crash, SessionsRegistered, registry
  <2> QED BY <2>1, <2>2, <2>3, <2>4, SameRegistry DEF registry
<1>7. ASSUME NEW c \in Client, BinderDied(c)
      PROVE  IInv'
  <2>1. /\ m_clients' \in Seq(Client)
        /\ IsInjective(m_clients')
        /\ ToSet(m_clients') = ToSet(m_clients) \ {c}
    BY <1>7, RemoveFirstFromSet DEF BinderDied, TypeOK, NoDuplicates
  <2>2. /\ IsFollowMap(m_keyFollow', Key)
        /\ InjectiveVectors(m_keyFollow')
        /\ Edges(m_keyFollow') = {f \in Edges(m_keyFollow) : f[1] # c}
    <3>1. IsFollowMap(m_keyFollow, Key) /\ InjectiveVectors(m_keyFollow)
      BY DEF TypeOK, NoDuplicates
    <3>2. m_keyFollow' = RemoveFollower(m_keyFollow, c)
      BY <1>7 DEF BinderDied
    <3> QED BY <3>1, <3>2, RemoveFollowerMap, RemoveFollowerEdges
  <2>3. /\ IsFollowMap(m_cmdFollow', Cmd)
        /\ InjectiveVectors(m_cmdFollow')
        /\ Edges(m_cmdFollow') = {f \in Edges(m_cmdFollow) : f[1] # c}
    <3>1. IsFollowMap(m_cmdFollow, Cmd) /\ InjectiveVectors(m_cmdFollow)
      BY DEF TypeOK, NoDuplicates
    <3>2. m_cmdFollow' = RemoveFollower(m_cmdFollow, c)
      BY <1>7 DEF BinderDied
    <3> QED BY <3>1, <3>2, RemoveFollowerMap, RemoveFollowerEdges
  <2>4. TypeOK'
    BY <1>7, <2>1, <2>2, <2>3 DEF BinderDied, TypeOK, IsFollowMap, process, dispatch
  <2>5. NoDuplicates'
    BY <2>1, <2>2, <2>3 DEF NoDuplicates, InjectiveVectors
  <2>6. NoGhostFollower'
    <3>1. \A f \in Follows' : f \in Follows /\ f[1] # c
      BY <2>2, <2>3 DEF Follows
    <3>2. stray' = stray
      BY <1>7 DEF BinderDied, process
    <3>3. \A f \in Follows' : f[1] \in ToSet(m_clients') \/ f \in stray'
      BY <2>1, <3>1, <3>2 DEF NoGhostFollower
    <3> QED BY <3>3 DEF NoGhostFollower, ToSet
  <2>7. SessionsRegistered'
    BY <1>7, <2>1 DEF BinderDied, SessionsRegistered, process
  <2> QED BY <2>4, <2>5, <2>6, <2>7
<1>8. ASSUME SetupShadow \/ WaitForClient \/ SpuriousWakeup
      PROVE  IInv'
  <2>1. UNCHANGED registry /\ UNCHANGED session
    BY <1>8 DEF SetupShadow, WaitForClient, SpuriousWakeup
  <2>2. TypeOK' /\ SessionsRegistered'
    BY <1>8 DEF SetupShadow, WaitForClient, SpuriousWakeup, TypeOK, SessionsRegistered,
                registry, session, process, dispatch
  <2> QED BY <2>1, <2>2, SameRegistry DEF registry, session, process
<1>9. ASSUME NEW o \in Op, NEW t \in TopicsOf(o), CallBegin(o, t)
      PROVE  IInv'
  <2>1. UNCHANGED registry /\ UNCHANGED session
    BY <1>9 DEF CallBegin
  <2>2. m_command \subseteq Client /\ m_property \subseteq Client
    BY DEF TypeOK
  <2>3. Callbacks(o) \subseteq Client
    BY <2>2 DEF Callbacks
  <2>4. t \in Key \cup Cmd
    BY DEF TopicsOf, TypeOK
  <2>5. TypeOK'
    BY <1>9, <2>3, <2>4, EmptySeq DEF CallBegin, TypeOK, registry, session, process
  <2>6. SessionsRegistered'
    BY <2>1 DEF SessionsRegistered, registry, session, process
  <2> QED BY <2>1, <2>5, <2>6, SameRegistry DEF registry, session, process
<1>10. ASSUME CallFollower
       PROVE  IInv'
  <2>1. UNCHANGED registry /\ UNCHANGED session
    BY <1>10 DEF CallFollower
  <2>2. m_command \subseteq Client /\ m_property \subseteq Client
    BY DEF TypeOK
  <2>3. called' \in Seq(Client)
    <3>1. Callbacks(op) \subseteq Client /\ called \in Seq(Client)
      BY <2>2 DEF Callbacks, TypeOK
    <3>2. PICK c : called' = IF c \in Callbacks(op) \cap alive THEN Append(called, c) ELSE called
      BY <1>10 DEF CallFollower
    <3>3. CASE c \in Callbacks(op) \cap alive
      BY <3>1, <3>2, <3>3, AppendProperties
    <3> QED BY <3>1, <3>2, <3>3
  <2>4. next' \in Nat \ {0}
    BY <1>10 DEF CallFollower, TypeOK
  <2>5. TypeOK'
    BY <1>10, <2>3, <2>4 DEF CallFollower, TypeOK, registry, session, process
  <2>6. SessionsRegistered'
    BY <2>1 DEF SessionsRegistered, registry, session, process
  <2> QED BY <2>1, <2>5, <2>6, SameRegistry DEF registry, session, process
<1>11. ASSUME CallEnd
       PROVE  IInv'
  <2>1. UNCHANGED registry /\ UNCHANGED session
    BY <1>11 DEF CallEnd
  <2>2. TypeOK'
    BY <1>11, EmptySeq DEF CallEnd, TypeOK, registry, session, process
  <2>3. SessionsRegistered'
    BY <2>1 DEF SessionsRegistered, registry, session, process
  <2> QED BY <2>1, <2>2, <2>3, SameRegistry DEF registry, session, process
<1>12. CASE UNCHANGED vars
  <2>1. UNCHANGED registry /\ stray' = stray
    BY <1>12 DEF vars, session, process
  <2>2. TypeOK' /\ SessionsRegistered'
    BY <1>12 DEF vars, registry, session, process, dispatch, TypeOK, SessionsRegistered
  <2> QED BY <2>1, <2>2, SameRegistry DEF registry
<1>13. ASSUME NEW k \in Key, AddProperty(k)
       PROVE  IInv'
  <2>1. UNCHANGED <<m_clients, m_keyFollow, m_cmdFollow>> /\ UNCHANGED session
    BY <1>13 DEF AddProperty
  <2>2. TypeOK'
    BY <1>13 DEF AddProperty, TypeOK, IsFollowMap, session, process, dispatch
  <2>3. SessionsRegistered'
    BY <2>1 DEF SessionsRegistered, session, process
  <2> QED BY <2>1, <2>2, <2>3, SameRegistry DEF session, process
<1>14. CASE Next
  BY <1>14, <1>13, <1>1, <1>2, <1>3, <1>4, <1>5, <1>6, <1>7, <1>8, <1>9, <1>10, <1>11
  DEF Next, SessionNext, IotNext
<1> QED BY <1>12, <1>14

\* The registry invariant holds of the specification.
THEOREM RegistryInvariant == Spec => []IInv
<1>1. Init => IInv
  BY InitIInv
<1>2. IInv /\ [Next]_vars => IInv'
  BY NextIInv
<1> QED BY <1>1, <1>2, PTL DEF Spec

\* Every variable stays in its range.
THEOREM TypeCorrect == Spec => []TypeOK
<1>1. IInv => TypeOK
  BY DEF IInv
<1> QED BY <1>1, RegistryInvariant, PTL

\* Nobody follows but members and strays, whatever the number of clients,
\* names and dispatches.
THEOREM NoGhosts == Spec => []NoGhostFollower
<1>1. IInv => NoGhostFollower
  BY DEF IInv
<1> QED BY <1>1, RegistryInvariant, PTL

\* No vector ever holds a client twice, so that removing the first occurrence
\* removes the client.
THEOREM VectorsInjective == Spec => []NoDuplicates
<1>1. IInv => NoDuplicates
  BY DEF IInv
<1> QED BY <1>1, RegistryInvariant, PTL

\* A session stays in the registry until it is linked, and binderDied finds
\* every linked one there.
THEOREM SessionsStayRegistered == Spec => []SessionsRegistered
<1>1. IInv => SessionsRegistered
  BY DEF IInv
<1> QED BY <1>1, RegistryInvariant, PTL

\* Unless a wakeup is spurious, the IOT thread goes past its wait only when
\* some client has made the last call of its registration.
THEOREM StartsAfterClient == Spec => []AwakeOnlyAfterClient
<1>1. Init => AwakeOnlyAfterClient
  BY DEF Init, AwakeOnlyAfterClient
<1>2. TypeOK /\ AwakeOnlyAfterClient /\ [Next]_vars => AwakeOnlyAfterClient'
  <2> SUFFICES ASSUME TypeOK, AwakeOnlyAfterClient, [Next]_vars,
                      ~SpuriousWakeups, iot' = "awake"
               PROVE  \E c \in Client : pc'[c] = "active"
    BY DEF AwakeOnlyAfterClient
  <2>1. ASSUME NEW c \in Client, SessionNext(c), iot = "awake"
        PROVE  \A d \in Client : pc[d] = "active" => pc'[d] = "active"
    BY <2>1 DEF SessionNext, CreateCheck, CreateAdd, FollowProperty, FollowCommand,
                RegistCommandCB, RegistPropertyCB, LinkToDeath, ClientActive, Crash,
                BinderDied, TypeOK
  <2>2. ASSUME NEW c \in Client, SessionNext(c), iot # "awake"
        PROVE  pc'[c] = "active"
    BY <2>2 DEF SessionNext, CreateCheck, CreateAdd, FollowProperty, FollowCommand,
                RegistCommandCB, RegistPropertyCB, LinkToDeath, ClientActive, Crash,
                BinderDied, TypeOK
  <2>3. ASSUME \/ \E k \in Key : AddProperty(k)
               \/ IotNext
               \/ UNCHANGED vars
        PROVE  iot = "awake" /\ pc' = pc
    BY <2>3 DEF AddProperty, IotNext, SetupShadow, WaitForClient, SpuriousWakeup, CallBegin,
                CallFollower, CallEnd, vars, session
  <2>4. CASE \E c \in Client : SessionNext(c)
    <3>1. PICK c \in Client : SessionNext(c)
      BY <2>4
    <3>2. CASE iot = "awake"
      BY <2>1, <3>1, <3>2 DEF AwakeOnlyAfterClient
    <3>3. CASE iot # "awake"
      BY <2>2, <3>1, <3>3
    <3> QED BY <3>2, <3>3
  <2>5. CASE \/ \E k \in Key : AddProperty(k)
             \/ IotNext
             \/ UNCHANGED vars
    BY <2>3, <2>5 DEF AwakeOnlyAfterClient
  <2> QED BY <2>4, <2>5 DEF Next
<1>3. IInv => TypeOK
  BY DEF IInv
<1> QED BY <1>1, <1>2, <1>3, RegistryInvariant, PTL DEF Spec

-----------------------------------------------------------------------------
(* The bound on the vector of clients.  A thread past the unlocked test of   *)
(* createClient counts as a client already: it can no longer be refused.     *)

Checked == {d \in Client : pc[d] = "checked"}

CountInv == Len(m_clients) + Cardinality(Checked) <= MAX_CLINETS + PoolThreads - 1

\* Sets of sessions are finite, and one session more or less counts one.
LEMMA CheckedCount ==
  ASSUME TypeOK
  PROVE  /\ IsFiniteSet(Checked)
         /\ Cardinality(Checked) \in Nat
         /\ \A c \in Client :
              /\ Cardinality(Checked \cup {c}) =
                   IF c \in Checked THEN Cardinality(Checked) ELSE Cardinality(Checked) + 1
              /\ Cardinality(Checked \ {c}) =
                   IF c \in Checked THEN Cardinality(Checked) - 1 ELSE Cardinality(Checked)
<1>1. IsFiniteSet(Client) /\ Checked \in SUBSET Client
  BY ConstantsAssumption DEF ConstantsAssumption, Checked
<1>2. IsFiniteSet(Checked)
  BY <1>1, FS_Subset
<1> QED BY <1>2, FS_CardinalityType, FS_AddElement, FS_RemoveElement

\* Only createClient changes the count: its test adds a thread when there is
\* room, its second half turns the thread into a client.
LEMMA NextCountInv == IInv /\ CountInv /\ [Next]_vars => CountInv'
<1> SUFFICES ASSUME IInv, CountInv, [Next]_vars
             PROVE  CountInv'
  OBVIOUS
<1> DEFINE n == Cardinality(Checked)
<1>1. TypeOK /\ pc \in [Client -> SessionState] /\ Len(m_clients) \in Nat
  BY LenProperties DEF IInv, TypeOK
<1>2. MAX_CLINETS \in Nat \ {0} /\ PoolThreads \in Nat \ {0}
  BY ConstantsAssumption DEF ConstantsAssumption
<1>3. n \in Nat
  BY <1>1, CheckedCount
<1>4. ASSUME UNCHANGED m_clients, Checked' = Checked
      PROVE  CountInv'
  BY <1>4 DEF CountInv
<1>5. ASSUME NEW c \in Client, CreateCheck(c)
      PROVE  CountInv'
  <2>1. CASE CountCheck
    <3>1. Checked' = Checked \cup {c} /\ c \notin Checked
      BY <1>1, <1>5, <2>1 DEF CreateCheck, Checked
    <3>2. Cardinality(Checked') = n + 1
      BY <1>1, <3>1, CheckedCount
    <3>3. Len(m_clients') = Len(m_clients) /\ Len(m_clients) < MAX_CLINETS /\ n < PoolThreads
      BY <1>5, <2>1 DEF CreateCheck, CountCheck, registry, Checked
    <3>4. Len(m_clients') + Cardinality(Checked') <= MAX_CLINETS + PoolThreads - 1
      <4> HIDE DEF n
      <4> QED BY <1>1, <1>2, <1>3, <3>2, <3>3
    <3> QED BY <3>4 DEF CountInv
  <2>2. CASE ~ CountCheck
    <3>1. Checked' = Checked
      BY <1>1, <1>5, <2>2 DEF CreateCheck, Checked, SessionState
    <3> QED BY <1>4, <1>5, <3>1 DEF CreateCheck, registry
  <2> QED BY <2>1, <2>2
<1>6. ASSUME NEW c \in Client, CreateAdd(c)
      PROVE  CountInv'
  <2>1. Checked' = Checked \ {c} /\ c \in Checked
    BY <1>1, <1>6 DEF CreateAdd, Checked
  <2>2. Cardinality(Checked') = n - 1
    BY <1>1, <2>1, CheckedCount
  <2>3. Len(m_clients') = Len(m_clients) + 1
    BY <1>1, <1>6, AppendProperties DEF CreateAdd, TypeOK
  <2>4. Len(m_clients') + Cardinality(Checked') = Len(m_clients) + n
    <3> HIDE DEF n
    <3> QED BY <1>1, <1>3, <2>2, <2>3
  <2> QED BY <2>4 DEF CountInv
<1>7. ASSUME NEW c \in Client, BinderDied(c)
      PROVE  CountInv'
  <2>1. Checked' = Checked
    BY <1>7 DEF BinderDied, Checked
  <2>2. Len(m_clients') \in Nat /\ Len(m_clients') <= Len(m_clients)
    BY <1>7, RemoveFirstFromSet DEF BinderDied, IInv, TypeOK, NoDuplicates
  <2> HIDE DEF n
  <2>3. Cardinality(Checked') = n
    BY <2>1 DEF n
  <2>4. Len(m_clients) + n <= MAX_CLINETS + PoolThreads - 1
    BY DEF CountInv, n
  <2>5. Len(m_clients') + n <= MAX_CLINETS + PoolThreads - 1
    BY <1>1, <1>2, <1>3, <2>2, <2>4
  <2> QED BY <2>3, <2>5 DEF CountInv
<1>8. ASSUME NEW c \in Client,
             \/ \E k \in Key : FollowProperty(c, k)
             \/ \E k \in Cmd : FollowCommand(c, k)
             \/ Crash(c)
      PROVE  CountInv'
  <2>1. UNCHANGED <<m_clients, pc>>
    BY <1>8 DEF FollowProperty, FollowCommand, Crash, registry, session
  <2> QED BY <1>4, <2>1 DEF Checked
<1>9. ASSUME NEW c \in Client,
             RegistCommandCB(c) \/ RegistPropertyCB(c) \/ LinkToDeath(c) \/ ClientActive(c)
      PROVE  CountInv'
  <2>1. UNCHANGED m_clients
    BY <1>9 DEF RegistCommandCB, RegistPropertyCB, LinkToDeath, ClientActive, registry
  <2>2. Checked' = Checked
    BY <1>1, <1>9 DEF RegistCommandCB, RegistPropertyCB, LinkToDeath, ClientActive, Checked
  <2> QED BY <1>4, <2>1, <2>2
<1>10. ASSUME IotNext \/ (\E k \in Key : AddProperty(k)) \/ UNCHANGED vars
       PROVE  CountInv'
  <2>1. UNCHANGED <<m_clients, pc>>
    BY <1>10 DEF AddProperty, IotNext, SetupShadow, WaitForClient, SpuriousWakeup, CallBegin,
                 CallFollower, CallEnd, vars, registry, session
  <2> QED BY <1>4, <2>1 DEF Checked
<1> QED BY <1>5, <1>6, <1>7, <1>8, <1>9, <1>10 DEF Next, SessionNext

\* The vector of clients exceeds MAX_CLINETS by less than the number of
\* threads that can be inside createClient at once.
THEOREM BoundedClients == Spec => []ClientsBounded
<1>1. Init => CountInv
  <2> SUFFICES ASSUME Init PROVE CountInv
    OBVIOUS
  <2>1. Checked = {} /\ Len(m_clients) = 0
    BY EmptySeq DEF Init, Checked
  <2>2. Cardinality(Checked) = 0
    BY <2>1, FS_EmptySet
  <2> QED BY <2>1, <2>2, ConstantsAssumption DEF ConstantsAssumption, CountInv
<1>2. IInv /\ CountInv /\ [Next]_vars => CountInv'
  BY NextCountInv
<1>3. IInv /\ CountInv => ClientsBounded
  <2> SUFFICES ASSUME IInv, CountInv PROVE ClientsBounded
    OBVIOUS
  <2>1. Cardinality(Checked) \in Nat /\ Len(m_clients) \in Nat
    BY CheckedCount, LenProperties DEF IInv, TypeOK
  <2> QED BY <2>1, ConstantsAssumption DEF ConstantsAssumption, CountInv, ClientsBounded
<1> QED BY <1>1, <1>2, <1>3, RegistryInvariant, PTL DEF Spec

-----------------------------------------------------------------------------
(* Dispatches.  The mutex keeps the vector of a dispatch as it was when the  *)
(* dispatch began; what has been called is then known from the loop index.   *)

Vector == Targets(op, topic)
Visited == {Vector[i] : i \in {j \in 1 .. Len(Vector) : j < next}}

DispatchInv ==
  op # "none" =>
    /\ owed \subseteq ToSet(Vector) \cap Callbacks(op)
    /\ owed \cap alive \cap Visited \subseteq ToSet(called)
    /\ ToSet(called) \subseteq Visited
    /\ IsInjective(called)

\* A dispatch runs over a vector of clients without duplicates.
LEMMA TargetsType ==
  ASSUME IInv, NEW o, NEW t
  PROVE  Targets(o, t) \in Seq(Client) /\ IsInjective(Targets(o, t))
<1> DEFINE table == IF o = "callCommandCB" THEN m_cmdFollow ELSE m_keyFollow
<1>1. CASE t \in DOMAIN table
  <2>1. Targets(o, t) = table[t]
    BY <1>1 DEF Targets
  <2> QED BY <1>1, <2>1
          DEF IInv, TypeOK, IsFollowMap, NoDuplicates, InjectiveVectors
<1>2. CASE t \notin DOMAIN table /\ m_clients = <<>>
  <2>1. Targets(o, t) = <<>>
    BY <1>2 DEF Targets
  <2> QED BY <2>1, EmptySeq, LenProperties DEF IsInjective
<1>3. CASE t \notin DOMAIN table /\ m_clients # <<>>
  <2>1. Targets(o, t) = <<Head(m_clients)>>
    BY <1>3 DEF Targets
  <2>2. Head(m_clients) \in Client
    BY <1>3, HeadTailProperties DEF IInv, TypeOK
  <2>3. <<Head(m_clients)>> \in Seq(Client) /\ IsInjective(<<Head(m_clients)>>)
    BY <2>2 DEF IsInjective
  <2> QED BY <2>1, <2>3
<1> QED BY <1>1, <1>2, <1>3

\* While a dispatch runs, its vector does not change.
LEMMA VectorStable ==
  ASSUME UNCHANGED <<m_clients, m_keyFollow, m_cmdFollow>>, UNCHANGED <<op, topic>>
  PROVE  Vector' = Vector
BY DEF Vector, Targets

\* Steps of sessions: none touches the containers while a dispatch runs,
\* callbacks are only added and clients only die.
LEMMA SessionDispatchInv ==
  ASSUME DispatchInv, NEW c \in Client, SessionNext(c)
  PROVE  DispatchInv'
<1> SUFFICES ASSUME op # "none"
             PROVE  DispatchInv'
  BY DEF SessionNext, DispatchInv, CreateCheck, CreateAdd, FollowProperty, FollowCommand,
         RegistCommandCB, RegistPropertyCB, LinkToDeath, ClientActive, Crash, BinderDied,
         dispatch
<1>1. /\ UNCHANGED registry
      /\ UNCHANGED dispatch
      /\ m_command \subseteq m_command'
      /\ m_property \subseteq m_property'
      /\ alive' \subseteq alive
  BY DEF SessionNext, CreateCheck, CreateAdd, FollowProperty, FollowCommand,
         RegistCommandCB, RegistPropertyCB, LinkToDeath, ClientActive, Crash, BinderDied,
         LockFree, registry, process, dispatch
<1>2. Vector' = Vector /\ Visited' = Visited
  <2>1. Vector' = Vector
    BY <1>1, VectorStable DEF registry, dispatch
  <2> QED BY <1>1, <2>1 DEF Visited, dispatch
<1>3. Callbacks(op) \subseteq Callbacks(op)'
  BY <1>1 DEF Callbacks, dispatch
<1> QED BY <1>1, <1>2, <1>3 DEF DispatchInv, dispatch

\* One iteration of a dispatch visits one more element, and calls it unless
\* it has no callback or is dead.
LEMMA CallFollowerDispatchInv ==
  ASSUME IInv, DispatchInv, CallFollower
  PROVE  DispatchInv'
<1> DEFINE n == Len(Vector)
           c == Vector[next]
<1>1. /\ op # "none"
      /\ UNCHANGED <<op, topic, owed, registry, session>>
      /\ next \in 1 .. n
      /\ next' = next + 1
      /\ called' = IF c \in Callbacks(op) \cap alive THEN Append(called, c) ELSE called
  <2>1. Vector \in Seq(Client) /\ n \in Nat
    BY TargetsType, LenProperties DEF Vector
  <2> QED BY <2>1 DEF CallFollower, Vector, IInv, TypeOK
<1>2. Vector \in Seq(Client) /\ IsInjective(Vector) /\ n \in Nat /\ DOMAIN Vector = 1 .. n
  BY TargetsType, LenProperties DEF Vector
<1>3. c \in Client
  BY <1>1, <1>2, ElementOfSeq
<1>4. Vector' = Vector
  BY <1>1, VectorStable DEF registry
<1>5. Visited' = Visited \cup {c}
  <2>1. Visited' = {Vector[i] : i \in {j \in 1 .. n : j < next + 1}}
    BY <1>1, <1>4 DEF Visited
  <2>2. {j \in 1 .. n : j < next + 1} = {j \in 1 .. n : j < next} \cup {next}
    BY <1>1, <1>2
  <2> QED BY <2>1, <2>2 DEF Visited
<1>6. c \notin Visited
  BY <1>1, <1>2 DEF Visited, IsInjective
<1>7. called \in Seq(Client) /\ IsInjective(called) /\ ToSet(called) \subseteq Visited
  BY <1>1 DEF DispatchInv, IInv, TypeOK
<1>8. c \notin ToSet(called)
  BY <1>6, <1>7
<1>9. /\ owed' = owed /\ alive' = alive
      /\ Callbacks(op)' = Callbacks(op)
      /\ owed \subseteq Callbacks(op)
  BY <1>1 DEF session, process, Callbacks, DispatchInv
<1>10. CASE c \in Callbacks(op) \cap alive
  <2>1. IsInjective(called') /\ ToSet(called') = ToSet(called) \cup {c}
    BY <1>1, <1>3, <1>7, <1>8, <1>10, AppendFresh
  <2> HIDE DEF c, n
  <2> QED BY <1>1, <1>4, <1>5, <1>9, <2>1 DEF DispatchInv
<1>11. CASE c \notin Callbacks(op) \cap alive
  <2>1. called' = called /\ c \notin owed \cap alive
    BY <1>1, <1>9, <1>11
  <2> HIDE DEF c, n
  <2> QED BY <1>1, <1>4, <1>5, <1>9, <2>1 DEF DispatchInv
<1> QED BY <1>10, <1>11

\* Every step preserves what is known of the dispatch under way.
LEMMA NextDispatchInv == IInv /\ DispatchInv /\ [Next]_vars => DispatchInv'
<1> SUFFICES ASSUME IInv, DispatchInv, [Next]_vars
             PROVE  DispatchInv'
  OBVIOUS
<1>1. ASSUME NEW c \in Client, SessionNext(c)
      PROVE  DispatchInv'
  BY <1>1, SessionDispatchInv
<1>2. ASSUME NEW o \in Op, NEW t \in TopicsOf(o), CallBegin(o, t)
      PROVE  DispatchInv'
  <2>1. /\ op' = o /\ topic' = t /\ next' = 1 /\ called' = <<>>
        /\ UNCHANGED registry /\ UNCHANGED session
        /\ owed' = ToSet(Targets(o, t)) \cap Callbacks(o)
    BY <1>2 DEF CallBegin
  <2>2. Vector' = Targets(o, t)
    BY <2>1 DEF Vector, Targets, registry
  <2>3. Callbacks(op)' = Callbacks(o)
    BY <2>1 DEF Callbacks, session, process
  <2>4. Visited' = {}
    BY <2>1 DEF Visited
  <2>5. ToSet(called') = {} /\ IsInjective(called')
    BY <2>1, EmptySeq, LenProperties DEF ToSet, IsInjective
  <2> QED BY <2>1, <2>2, <2>3, <2>4, <2>5 DEF DispatchInv
<1>3. ASSUME CallFollower
      PROVE  DispatchInv'
  BY <1>3, CallFollowerDispatchInv
<1>4. ASSUME CallEnd
      PROVE  DispatchInv'
  BY <1>4 DEF CallEnd, DispatchInv
<1>5. ASSUME SetupShadow \/ WaitForClient \/ SpuriousWakeup \/ UNCHANGED vars
      PROVE  DispatchInv'
  <2>1. UNCHANGED <<registry, session, dispatch>>
    BY <1>5 DEF SetupShadow, WaitForClient, SpuriousWakeup, vars
  <2>2. Vector' = Vector
    BY <2>1, VectorStable DEF registry, dispatch
  <2>3. Visited' = Visited /\ Callbacks(op)' = Callbacks(op)
    BY <2>1, <2>2 DEF Visited, Callbacks, session, dispatch
  <2> QED BY <2>1, <2>2, <2>3 DEF DispatchInv, session, process, dispatch
<1>6. ASSUME NEW k \in Key, AddProperty(k)
      PROVE  DispatchInv'
  <2>1. UNCHANGED <<m_clients, m_keyFollow, m_cmdFollow>> /\ UNCHANGED <<session, dispatch>>
    BY <1>6 DEF AddProperty
  <2>2. Vector' = Vector
    BY <2>1, VectorStable DEF dispatch
  <2>3. Visited' = Visited /\ Callbacks(op)' = Callbacks(op)
    BY <2>1, <2>2 DEF Visited, Callbacks, session, dispatch
  <2> QED BY <2>1, <2>2, <2>3 DEF DispatchInv, session, process, dispatch
<1> QED BY <1>1, <1>2, <1>3, <1>4, <1>5, <1>6 DEF Next, IotNext

\* A dispatch that returns has called every live follower it owed a call, and
\* none twice, for any number of followers and any interleaving.
THEOREM DispatchComplete == Spec => DispatchServesFollowers
<1>1. Init => DispatchInv
  BY DEF Init, DispatchInv
<1>2. IInv /\ DispatchInv /\ [Next]_vars => DispatchInv'
  BY NextDispatchInv
<1>3. IInv /\ DispatchInv /\ [Next]_vars =>
        [op # "none" /\ op' = "none" =>
           owed \cap alive \subseteq ToSet(called) /\ IsInjective(called)]_vars
  <2> SUFFICES ASSUME IInv, DispatchInv, Next, op # "none", op' = "none"
               PROVE  owed \cap alive \subseteq ToSet(called) /\ IsInjective(called)
    OBVIOUS
  <2>1. next > Len(Vector)
    <3>1. CallEnd
      BY DEF Next, SessionNext, AddProperty, IotNext, CreateCheck, CreateAdd, FollowProperty,
             FollowCommand, RegistCommandCB, RegistPropertyCB, LinkToDeath, ClientActive,
             Crash, BinderDied, SetupShadow, WaitForClient, SpuriousWakeup, CallBegin,
             CallFollower, LockFree, dispatch, Op
    <3> QED BY <3>1 DEF CallEnd, Vector
  <2>2. Vector \in Seq(Client) /\ Len(Vector) \in Nat /\ DOMAIN Vector = 1 .. Len(Vector)
    BY TargetsType, LenProperties DEF Vector
  <2>3. Visited = ToSet(Vector)
    <3>1. next \in Nat
      BY DEF IInv, TypeOK
    <3>2. {j \in 1 .. Len(Vector) : j < next} = DOMAIN Vector
      BY <2>1, <2>2, <3>1
    <3> QED BY <3>2 DEF Visited, ToSet
  <2> QED BY <2>3 DEF DispatchInv
<1> QED BY <1>1, <1>2, <1>3, RegistryInvariant, PTL DEF Spec, DispatchServesFollowers

-----------------------------------------------------------------------------
(* The registry implements the abstract table.                             *)

\* A step that leaves the containers alone leaves the abstract table alone.
LEMMA SameTable ==
  ASSUME UNCHANGED <<m_clients, m_keyFollow, m_cmdFollow>>, UNCHANGED stray
  PROVE  UNCHANGED Table!vars
BY DEF Table!vars, Follows, Edges, ToSet

\* The registry implements a table of members and who follows what, in which
\* a member leaves with everything it follows in one step, and only what it was
\* about to follow when it died may be entered later.
THEOREM RegistryRefinesTable == Spec => ImplementsFollowTable
<1>1. Init => Table!Init
  <2> SUFFICES ASSUME Init PROVE Table!Init
    OBVIOUS
  <2>1. DOMAIN <<>> = {}
    BY EmptySeq, LenProperties
  <2>2. ToSet(m_clients) = {} /\ Follows = {} /\ stray = {}
    BY <2>1 DEF Init, ToSet, Follows, Edges
  <2> QED BY <2>2 DEF Table!Init
<1>2. IInv /\ [Next]_vars => [Table!Next]_(Table!vars)
  <2> SUFFICES ASSUME IInv, [Next]_vars
               PROVE  [Table!Next]_(Table!vars)
    OBVIOUS
  <2>1. /\ IsFollowMap(m_keyFollow, Key) /\ InjectiveVectors(m_keyFollow)
        /\ IsFollowMap(m_cmdFollow, Cmd) /\ InjectiveVectors(m_cmdFollow)
        /\ m_clients \in Seq(Client) /\ IsInjective(m_clients)
    BY DEF IInv, TypeOK, NoDuplicates
  <2>2. ASSUME NEW c \in Client, CreateAdd(c)
        PROVE  Table!Next
    <3>1. c \notin ToSet(m_clients)
      BY <2>2 DEF CreateAdd, IInv, SessionsRegistered, Opened
    <3>2. ToSet(m_clients') = ToSet(m_clients) \cup {c}
      BY <2>1, <2>2, <3>1, AppendFresh DEF CreateAdd
    <3>3. Follows' = Follows /\ stray' = stray
      BY <2>2 DEF CreateAdd, Follows, process
    <3>4. Table!Join(c)
      BY <3>1, <3>2, <3>3 DEF Table!Join, ToSet
    <3> QED BY <3>4 DEF Table!Next
  <2>3. ASSUME NEW c \in Client, NEW k \in Key, FollowProperty(c, k)
        PROVE  Table!Next
    <3>1. /\ c \in ToSet(m_clients) \/ <<c, k>> \in stray
          /\ ToSet(m_clients)' = ToSet(m_clients)
          /\ stray' = stray
      BY <2>3, PostedBy DEF FollowProperty, ToSet
    <3>2. Edges(m_keyFollow') = Edges(m_keyFollow) \cup {<<c, k>>}
      BY <2>1, <2>3, AddFollowingMap DEF FollowProperty
    <3>3. Follows' = Follows \cup {<<c, k>>}
      BY <2>3, <3>2 DEF FollowProperty, Follows
    <3>4. Table!Follow(c, k)
      BY <3>1, <3>3 DEF Table!Follow
    <3> QED BY <3>4 DEF Table!Next
  <2>4. ASSUME NEW c \in Client, NEW k \in Cmd, FollowCommand(c, k)
        PROVE  Table!Next
    <3>1. /\ c \in ToSet(m_clients) \/ <<c, k>> \in stray
          /\ ToSet(m_clients)' = ToSet(m_clients)
          /\ stray' = stray
      BY <2>4, PostedBy DEF FollowCommand, ToSet
    <3>2. Edges(m_cmdFollow') = Edges(m_cmdFollow) \cup {<<c, k>>}
      BY <2>1, <2>4, AddFollowingMap DEF FollowCommand
    <3>3. Follows' = Follows \cup {<<c, k>>}
      BY <2>4, <3>2 DEF FollowCommand, Follows
    <3>4. Table!Follow(c, k)
      BY <3>1, <3>3 DEF Table!Follow
    <3> QED BY <3>4 DEF Table!Next
  <2>5. ASSUME NEW c \in Client, BinderDied(c)
        PROVE  Table!Next
    <3>1. c \in ToSet(m_clients)
      BY <2>5 DEF BinderDied, IInv, SessionsRegistered
    <3>2. ToSet(m_clients') = ToSet(m_clients) \ {c}
      BY <2>1, <2>5, RemoveFirstFromSet DEF BinderDied
    <3>3. /\ Edges(m_keyFollow') = {f \in Edges(m_keyFollow) : f[1] # c}
          /\ Edges(m_cmdFollow') = {f \in Edges(m_cmdFollow) : f[1] # c}
      BY <2>1, <2>5, RemoveFollowerEdges DEF BinderDied
    <3>4. Follows' = {f \in Follows : f[1] # c} /\ stray' = stray
      BY <2>5, <3>3 DEF BinderDied, Follows, process
    <3>5. Table!Leave(c)
      BY <3>1, <3>2, <3>4 DEF Table!Leave, ToSet
    <3> QED BY <3>5 DEF Table!Next
  <2>6. ASSUME NEW c \in Client,
               \/ CreateCheck(c) \/ RegistCommandCB(c) \/ RegistPropertyCB(c)
               \/ LinkToDeath(c) \/ ClientActive(c)
        PROVE  UNCHANGED Table!vars
    <3>1. UNCHANGED registry /\ UNCHANGED stray
      BY <2>6 DEF CreateCheck, RegistCommandCB, RegistPropertyCB, LinkToDeath, ClientActive,
                  process
    <3> QED BY <3>1, SameTable DEF registry
  <2>7. ASSUME IotNext \/ UNCHANGED vars
        PROVE  UNCHANGED Table!vars
    <3>1. UNCHANGED registry /\ UNCHANGED stray
      BY <2>7 DEF IotNext, SetupShadow, WaitForClient, SpuriousWakeup, CallBegin,
                  CallFollower, CallEnd, vars, session, process
    <3> QED BY <3>1, SameTable DEF registry
  <2>8. ASSUME NEW c \in Client, Crash(c)
        PROVE  Table!Next
    <3>1. PICK p \in SUBSET (Key \cup Cmd) : stray' = stray \cup {c} \X p
      BY <2>8 DEF Crash, Posts
    <3>2. UNCHANGED <<ToSet(m_clients), Follows>>
      BY <2>8 DEF Crash, registry, Follows, Edges, ToSet
    <3>3. Table!Die(c)
      BY <3>1, <3>2 DEF Table!Die
    <3> QED BY <3>3 DEF Table!Next
  <2>9. ASSUME NEW k \in Key, AddProperty(k)
        PROVE  UNCHANGED Table!vars
    <3>1. UNCHANGED <<m_clients, m_keyFollow, m_cmdFollow>> /\ UNCHANGED stray
      BY <2>9 DEF AddProperty, session, process
    <3> QED BY <3>1, SameTable
  <2> QED BY <2>2, <2>3, <2>4, <2>5, <2>6, <2>7, <2>8, <2>9 DEF Next, SessionNext
<1> QED BY <1>1, <1>2, RegistryInvariant, PTL DEF Spec, ImplementsFollowTable, Table!Spec
=============================================================================
