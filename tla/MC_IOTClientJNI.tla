--------------------------- MODULE MC_IOTClientJNI ---------------------------
(* Sets of threads, names and sessions for the runs of IOTClientJNI.        *)
EXTENDS IOTClientJNI, TLC

CONSTANTS temp, play, a1, a2, b1, b2, s1, s2, s3, s4, s5, s6, s7, s8

Keys1 == {temp}
Cmds1 == {play}
App1 == {a1}
App2 == {a1, a2}
Binder1 == {b1}
Binder2 == {b1, b2}
Sessions3 == {s1, s2, s3}
Sessions8 == {s1, s2, s3, s4, s5, s6, s7, s8}
Symmetry == Permutations(App)
=============================================================================
