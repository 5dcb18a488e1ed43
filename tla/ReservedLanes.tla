---------------------------- MODULE ReservedLanes ----------------------------
(***************************************************************************)
(* What a two-lane semaphore promises (the module documentation of         *)
(* crw-core/src/reserved_sem.rs): at most Total requests are let through   *)
(* at a time, and at most Total - Reserved of them are batch requests, so  *)
(* that batch never occupies the last Reserved permits.                    *)
(***************************************************************************)
EXTENDS Integers, FiniteSets

CONSTANTS Callers, Total, Reserved

VARIABLES interactive, batch    \* the requests let through
vars == <<interactive, batch>>

Fits(i, b) ==
    /\ Cardinality(i \cup b) <= Total
    /\ Cardinality(b) <= Total - Reserved

Init == interactive = {} /\ batch = {}

\* One of the requests let through may leave, and one may come in: a permit
\* that is handed over to a request that waits is not free in between.
Change(out, in) ==
    \/ interactive' = (interactive \ out) \cup in /\ batch' = batch \ out
    \/ interactive' = interactive \ out /\ batch' = (batch \ out) \cup in

Optional(set) == {{}} \cup {{x} : x \in set}

Next ==
    /\ \E out \in Optional(interactive \cup batch),
          in \in Optional(Callers \ (interactive \cup batch)) : Change(out, in)
    /\ Fits(interactive', batch')

Spec == Init /\ [][Next]_vars
=============================================================================
