---------------------------- MODULE MCHostLimiter ----------------------------
(* HostLimiter for TLC.  The lane of a request that has ended and what was   *)
(* late for one that is not asleep are read by nothing before they are next  *)
(* written; no step changes only these.                                      *)
EXTENDS HostLimiter

View ==
    <<pc, [c \in Callers |-> IF pc[c] = "idle" THEN "none" ELSE lane[c]],
      shared, gate, order, ahead, sleep, age,
      [c \in Callers |-> IF pc[c] = "sleep" THEN late[c] ELSE {}]>>
=============================================================================
