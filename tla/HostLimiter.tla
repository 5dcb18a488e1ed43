----------------------------- MODULE HostLimiter -----------------------------
(***************************************************************************)
(* The limiter every fetch of one host goes through: the reserved          *)
(* semaphore of crw-core/src/reserved_sem.rs (a permit of `shared' for     *)
(* everybody, one of `gate' first for batch requests) and the minimum      *)
(* interval of crw-renderer/src/host_limiter.rs, as fetch_inner of         *)
(* crw-renderer/src/lib.rs uses them: acquire under the request's          *)
(* deadline, sleep with the permit in hand, fetch, drop the permit.        *)
(*                                                                         *)
(* tokio's semaphore is external: it queues first come first served and a  *)
(* released permit goes straight to the first in the queue.                *)
(* Time is counted in ticks and `ahead' is last_request minus now.         *)
(***************************************************************************)
EXTENDS Integers, FiniteSets

CONSTANTS
    Callers,        \* requests to the host, one at a time per name
    Permits,        \* per_host_max_concurrent + per_host_interactive_reserve
    Reserve,        \* per_host_interactive_reserve
    Interval        \* min_interval, in ticks

ASSUME LimitAssumption ==
    /\ IsFiniteSet(Callers)
    /\ Permits \in Nat
    /\ Reserve \in Nat
    /\ Interval \in Nat

VARIABLES
    pc, lane,       \* where each request is, and its ScrapeClass
    shared, gate,   \* permits free in the two semaphores
    order,          \* <<a, b>>: a is before b in the queue both wait in
    ahead,          \* last_request - now, not less than -Interval
    sleep,          \* what is left of a request's sleep
    age,            \* history: ticks since each request last began to fetch
    late            \* history: who began to fetch since a request was paced
vars == <<pc, lane, shared, gate, order, ahead, sleep, age, late>>
semVars == <<shared, gate, order>>
timeVars == <<ahead, sleep, age, late>>

Stage == {"idle", "waitGate", "gated", "waitShared", "permit", "sleep",
          "fetch", "dropGate"}
Lane == {"interactive", "batch"}

\* Mutant: the reserve is not clamped, and a large one leaves batch no gate.
M_Reserved == Reserve

Greatest(a, b) == IF a >= b THEN a ELSE b
Least(a, b) == IF a <= b THEN a ELSE b
Total == Greatest(Permits, 1)
Reserved == Least(Reserve, Total - 1)

Init ==
    /\ pc = [c \in Callers |-> "idle"]
    /\ lane \in [Callers -> Lane]
    /\ shared = Total
    /\ gate = Total - Reserved
    /\ order = {}
    /\ ahead = -Interval
    /\ sleep = [c \in Callers |-> 0]
    /\ age = [c \in Callers |-> Interval]
    /\ late = [c \in Callers |-> {}]

-----------------------------------------------------------------------------
(* The semaphores. *)

Waiting(stage) == {c \in Callers : pc[c] = stage}
First(stage) ==
    {c \in Waiting(stage) : \A a \in Waiting(stage) : <<a, c>> \notin order}
Behind(c, stage) == order \cup {<<a, c>> : a \in Waiting(stage)}
Without(c) == {p \in order : p[1] # c /\ p[2] # c}

\* c releases a permit of `shared' and goes on to `stage'.
GiveShared(c, stage) ==
    \/ /\ Waiting("waitShared") = {}
       /\ shared' = shared + 1
       /\ pc' = [pc EXCEPT ![c] = stage]
       /\ order' = order
    \/ \E w \in First("waitShared") :
          /\ shared' = shared
          /\ pc' = [pc EXCEPT ![c] = stage, ![w] = "permit"]
          /\ order' = Without(w)

GiveGate(c) ==
    \/ /\ Waiting("waitGate") = {}
       /\ gate' = gate + 1
       /\ pc' = [pc EXCEPT ![c] = "idle"]
       /\ order' = order
    \/ \E w \in First("waitGate") :
          /\ gate' = gate
          /\ pc' = [pc EXCEPT ![c] = "idle", ![w] = "gated"]
          /\ order' = Without(w)

\* Batch takes a gate permit first.
AskGate(c) ==
    /\ pc[c] = "idle"
    /\ lane' = [lane EXCEPT ![c] = "batch"]
    /\ IF gate > 0
       THEN /\ gate' = gate - 1
            /\ pc' = [pc EXCEPT ![c] = "gated"]
            /\ order' = order
       ELSE /\ gate' = gate
            /\ pc' = [pc EXCEPT ![c] = "waitGate"]
            /\ order' = Behind(c, "waitGate")
    /\ UNCHANGED <<shared, timeVars>>

\* Mutant: batch goes for the shared permit without the gate.
M_AskShared(c) ==
    /\ pc[c] \in {"idle", "gated"}
    /\ \E l \in Lane :
          /\ pc[c] = "gated" => l = "batch"
          /\ lane' = [lane EXCEPT ![c] = l]
    /\ IF shared > 0
       THEN /\ shared' = shared - 1
            /\ pc' = [pc EXCEPT ![c] = "permit"]
            /\ order' = order
       ELSE /\ shared' = shared
            /\ pc' = [pc EXCEPT ![c] = "waitShared"]
            /\ order' = Behind(c, "waitShared")
    /\ UNCHANGED <<gate, timeVars>>

\* Interactive goes straight for a shared permit, batch with its gate permit.
AskShared(c) ==
    /\ \/ pc[c] = "idle" /\ lane' = [lane EXCEPT ![c] = "interactive"]
       \/ pc[c] = "gated" /\ UNCHANGED lane
    /\ IF shared > 0
       THEN /\ shared' = shared - 1
            /\ pc' = [pc EXCEPT ![c] = "permit"]
            /\ order' = order
       ELSE /\ shared' = shared
            /\ pc' = [pc EXCEPT ![c] = "waitShared"]
            /\ order' = Behind(c, "waitShared")
    /\ UNCHANGED <<gate, timeVars>>

-----------------------------------------------------------------------------
(* The minimum interval. *)

\* Mutant: a request in the future is taken for one long past.
M_NextSleep == IF ahead < 0 THEN Interval + ahead ELSE 0

\* elapsed() is zero when last_request lies in the future.
NextSleep ==
    LET elapsed == IF ahead < 0 THEN -ahead ELSE 0
    IN IF elapsed < Interval THEN Interval - elapsed ELSE 0

Pace(c) ==
    /\ pc[c] = "permit"
    /\ ahead' = NextSleep
    /\ sleep' = [sleep EXCEPT ![c] = NextSleep]
    /\ late' = [late EXCEPT ![c] = {}]
    /\ pc' = [pc EXCEPT ![c] = "sleep"]
    /\ UNCHANGED <<lane, semVars, age>>

Fetch(c) ==
    /\ pc[c] = "sleep" /\ sleep[c] = 0
    /\ pc' = [pc EXCEPT ![c] = "fetch"]
    /\ age' = [age EXCEPT ![c] = 0]
    /\ late' = [d \in Callers |->
                   IF pc[d] = "sleep" /\ d # c THEN late[d] \cup {c} ELSE {}]
    /\ UNCHANGED <<lane, semVars, ahead, sleep>>

\* A sleep ends on its tick: no time passes while somebody is due.
Tick ==
    /\ \A c \in Callers : pc[c] = "sleep" => sleep[c] > 0
    /\ \/ ahead > -Interval
       \/ \E c \in Callers : age[c] < Interval
    /\ ahead' = IF ahead > -Interval THEN ahead - 1 ELSE ahead
    /\ sleep' = [c \in Callers |-> IF pc[c] = "sleep" THEN sleep[c] - 1 ELSE 0]
    /\ age' = [c \in Callers |-> IF age[c] < Interval THEN age[c] + 1 ELSE age[c]]
    /\ UNCHANGED <<pc, lane, semVars, late>>

-----------------------------------------------------------------------------
(* The end of a request. *)

AfterShared(c) == IF lane[c] = "batch" THEN "dropGate" ELSE "idle"

\* The permit goes when the fetch is over; or with the request's future, or
\* because the sleep does not fit the deadline.
Release(c) ==
    /\ pc[c] \in {"permit", "sleep", "fetch"}
    /\ GiveShared(c, AfterShared(c))
    /\ UNCHANGED <<lane, gate, timeVars>>

\* The request times out, or is dropped, while it waits for `shared'.
CancelShared(c) ==
    /\ pc[c] = "waitShared"
    /\ pc' = [pc EXCEPT ![c] = AfterShared(c)]
    /\ order' = Without(c)
    /\ UNCHANGED <<lane, shared, gate, timeVars>>

\* Mutant: a batch request that gives up keeps its gate permit.
M_DropGate(c) ==
    /\ pc[c] \in {"gated", "dropGate"}
    /\ pc' = [pc EXCEPT ![c] = "idle"]
    /\ UNCHANGED <<lane, semVars, timeVars>>

\* BatchPermit drops its fields in order: `shared', then the gate.
DropGate(c) ==
    /\ pc[c] \in {"gated", "dropGate"}
    /\ GiveGate(c)
    /\ UNCHANGED <<lane, shared, timeVars>>

CancelGate(c) ==
    /\ pc[c] = "waitGate"
    /\ pc' = [pc EXCEPT ![c] = "idle"]
    /\ order' = Without(c)
    /\ UNCHANGED <<lane, shared, gate, timeVars>>

Request(c) ==
    \/ AskGate(c) \/ AskShared(c) \/ Pace(c) \/ Fetch(c)
    \/ Release(c) \/ CancelShared(c) \/ DropGate(c) \/ CancelGate(c)

Next == (\E c \in Callers : Request(c)) \/ Tick

Spec == Init /\ [][Next]_vars

\* tokio runs what is ready, time passes, and a fetch ends (it has a deadline).
\* Nothing here makes a request that waits give up.
FairSpec ==
    /\ Spec
    /\ WF_vars(Tick)
    /\ \A c \in Callers :
          /\ WF_vars(pc[c] = "gated" /\ AskShared(c))
          /\ WF_vars(Pace(c)) /\ WF_vars(Fetch(c))
          /\ WF_vars(pc[c] = "fetch" /\ Release(c))
          /\ WF_vars(pc[c] = "dropGate" /\ DropGate(c))

-----------------------------------------------------------------------------
(* Properties. *)

TypeOK ==
    /\ pc \in [Callers -> Stage]
    /\ lane \in [Callers -> Lane]
    /\ shared \in 0 .. Total
    /\ gate \in 0 .. Total - Reserved
    /\ order \subseteq Callers \X Callers
    /\ ahead \in -Interval .. Interval
    /\ sleep \in [Callers -> 0 .. Interval]
    /\ age \in [Callers -> 0 .. Interval]
    /\ late \in [Callers -> SUBSET Callers]

Inside == {c \in Callers : pc[c] \in {"permit", "sleep", "fetch"}}
InLane(l) == {c \in Inside : lane[c] = l}

\* Batch is never the reason that an interactive request waits: while one
\* does, at least `reserved' interactive requests hold a permit.
InteractiveReserve ==
    \A c \in Callers :
        pc[c] = "waitShared" /\ lane[c] = "interactive" =>
            Cardinality(InLane("interactive")) >= Reserved

\* No permit is made or lost, and the reserve is kept.
LanesSound == TypeOK /\ InteractiveReserve

\* A fetch begins at least the interval after every fetch that had begun when
\* it was paced, whoever was cancelled in between.
PacedStep ==
    \A c \in Callers :
        pc[c] = "sleep" /\ pc'[c] = "fetch" =>
            \A d \in Callers \ late[c] : age[d] >= Interval
Paced == [][PacedStep]_vars

\* A request that waits gets its permit although nobody gives up: batch cannot
\* be locked out by the gate, even one misconfigured to reserve everything.
Served ==
    \A c \in Callers :
        pc[c] \in {"waitGate", "waitShared"} ~> pc[c] \in {"idle", "permit"}

\* The lanes' promise.
Lanes == INSTANCE ReservedLanes
    WITH Total <- Total, Reserved <- Reserved,
         interactive <- InLane("interactive"), batch <- InLane("batch")
ImplementsLanes == Lanes!Spec

\* Both sides of the reserve: batch stays within its share of the permits, as
\* the lanes promise, and interactive requests wait for nobody but each other
\* while they hold less than theirs.
LanesKept == []LanesSound /\ ImplementsLanes
=============================================================================
