-------------------------- MODULE MCCircuitBreaker --------------------------
(* CircuitBreaker for TLC. *)
EXTENDS CircuitBreaker, TLC

Symmetry == Permutations(Callers) \cup Permutations(Arcs)

Free(b) ==
    /\ b # Global
    /\ \A h \in Hosts : cell[h] # b
    /\ \A c \in Callers : Refers(c) => harc[c] # b

\* Two states that differ only in a field nothing reads before it is next
\* written are one state: the timer of a closed breaker with no ejection to
\* forget, the permit after the host was asked, the report once recorded, a
\* host breaker nothing refers to.
View ==
    <<[b \in Breakers |->
          IF Free(b) THEN Fresh
          ELSE IF brk[b].phase = "closed" /\ brk[b].ejections = 0
          THEN [brk[b] EXCEPT !.left = 0] ELSE brk[b]],
      cell, pc,
      [c \in Callers |-> IF Refers(c) THEN <<harc[c]>> ELSE <<>>],
      [c \in Callers |-> IF pc[c] = "idle" THEN <<>> ELSE <<host[c]>>],
      [c \in Callers |-> pc[c] = "askHost" /\ gprobe[c]],
      armed,
      [c \in Callers |->
          CASE pc[c] = "recGlobal" -> report[c]
            [] pc[c] = "recHost" -> [report[c] EXCEPT !.g = "none"]
            [] OTHER -> [NoReport EXCEPT !.end =
                            IF pc[c] = "recorded" THEN report[c].end ELSE "disarm"]],
      [c \in Callers |-> {b \in ticket[c] : ~Free(b)}],
      [b \in Breakers |-> IF Free(b) THEN 0 ELSE orphans[b]]>>
=============================================================================
