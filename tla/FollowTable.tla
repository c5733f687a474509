----------------------------- MODULE FollowTable -----------------------------
(***************************************************************************)
(* What the client registry promises: a set of members and the relation of *)
(* who follows which topic.  A topic is followed by members, and a member  *)
(* that leaves takes everything it followed with it, in one step.  What a  *)
(* client that dies was about to follow is stray: it may be entered at any *)
(* later time.  No order, no vectors, no mutex.                            *)
(***************************************************************************)
CONSTANTS Client, Topic

VARIABLES member, follows, stray

vars == <<member, follows, stray>>

Init == member = {} /\ follows = {} /\ stray = {}

Join(c) ==
  /\ c \notin member
  /\ member' = member \cup {c}
  /\ UNCHANGED <<follows, stray>>

Follow(c, t) ==
  /\ c \in member \/ <<c, t>> \in stray
  /\ follows' = follows \cup {<<c, t>>}
  /\ UNCHANGED <<member, stray>>

Leave(c) ==
  /\ c \in member
  /\ member' = member \ {c}
  /\ follows' = {f \in follows : f[1] # c}
  /\ UNCHANGED stray

Die(c) ==
  /\ \E topics \in SUBSET Topic : stray' = stray \cup {c} \X topics
  /\ UNCHANGED <<member, follows>>

Next ==
  \E c \in Client :
    \/ Join(c)
    \/ \E t \in Topic : Follow(c, t)
    \/ Leave(c)
    \/ Die(c)

Spec == Init /\ [][Next]_vars
=============================================================================
