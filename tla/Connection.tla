----------------------------- MODULE Connection -----------------------------
(***************************************************************************)
(* What the client library promises its application: a connection.  It is  *)
(* a session with a server that lives, or none.  A session is new when it  *)
(* is opened, and is completed once: then it follows what was asked for    *)
(* and has its callbacks until it is lost or another one replaces it.  It  *)
(* is not left incomplete for ever.  No threads, no lists, no server.      *)
(***************************************************************************)
CONSTANTS Session, NULL

VARIABLES
  session,   \* the one that is connected, or NULL
  complete,  \* whether it is
  used       \* the sessions that have ever been opened

vars == <<session, complete, used>>

Init == session = NULL /\ complete = FALSE /\ used = {}

Open(s) ==
  /\ s \notin used
  /\ session' = s
  /\ complete' = FALSE
  /\ used' = used \cup {s}

Finish ==
  /\ session # NULL
  /\ ~complete
  /\ complete' = TRUE
  /\ UNCHANGED <<session, used>>

Lose ==
  /\ session # NULL
  /\ session' = NULL
  /\ complete' = FALSE
  /\ UNCHANGED used

Next == (\E s \in Session : Open(s)) \/ Finish \/ Lose

Spec == Init /\ [][Next]_vars

Fairness == WF_vars(Finish)
=============================================================================
