-------------------------- MODULE HostLimiterProofs --------------------------
(***************************************************************************)
(* Proofs about HostLimiter, for any number of requests, permits, reserved *)
(* permits and any interval.                                               *)
(***************************************************************************)
EXTENDS HostLimiter, FiniteSetTheorems, TLAPS

\* Who holds a permit of the gate.
GateHeld ==
    {c \in Callers :
        \/ pc[c] \in {"gated", "dropGate"}
        \/ lane[c] = "batch" /\ pc[c] \in {"waitShared", "permit", "sleep", "fetch"}}

\* Every permit is free or held, and nobody waits for a permit that is free.
Conserved ==
    /\ shared + Cardinality(Inside) = Total
    /\ gate + Cardinality(GateHeld) = Total - Reserved
    /\ \A c \in Callers : pc[c] = "waitShared" => shared = 0
    /\ \A c \in Callers : pc[c] \in {"waitGate", "gated", "dropGate"} => lane[c] = "batch"

\* last_request is no earlier than any start, past or still slept for, and
\* whoever sleeps will start an interval after the starts it knew of.
Timely ==
    /\ \A d \in Callers : age[d] + ahead >= 0
    /\ \A c \in Callers :
          pc[c] = "sleep" =>
              /\ sleep[c] <= ahead
              /\ \A d \in Callers \ late[c] : age[d] + sleep[c] >= Interval

Types ==
    /\ pc \in [Callers -> Stage]
    /\ lane \in [Callers -> Lane]
    /\ shared \in Nat
    /\ gate \in Nat
    /\ order \subseteq Callers \X Callers
    /\ ahead \in -Interval .. Interval
    /\ sleep \in [Callers -> 0 .. Interval]
    /\ age \in [Callers -> 0 .. Interval]
    /\ late \in [Callers -> SUBSET Callers]

IInv == Types /\ Conserved /\ Timely

-----------------------------------------------------------------------------
\* The clamping of ReservedSemaphore::new: there is a permit, and batch has one.
LEMMA Sizes ==
    /\ Total \in Nat \ {0}
    /\ Reserved \in Nat
    /\ Total - Reserved \in Nat \ {0}
    /\ Interval \in Nat
BY LimitAssumption DEF Total, Reserved, Greatest, Least

\* The subsets of Callers can be counted.
LEMMA Countable ==
    ASSUME NEW S \in SUBSET Callers
    PROVE  IsFiniteSet(S) /\ Cardinality(S) \in Nat
BY LimitAssumption, FS_Subset, FS_CardinalityType

\* One more, one less.
LEMMA OneIn ==
    ASSUME NEW S \in SUBSET Callers, NEW c \in Callers, c \notin S
    PROVE  Cardinality(S \cup {c}) = Cardinality(S) + 1
BY Countable, FS_AddElement

LEMMA OneOut ==
    ASSUME NEW S \in SUBSET Callers, NEW c \in S
    PROVE  Cardinality(S \ {c}) = Cardinality(S) - 1
BY Countable, FS_RemoveElement

LEMMA OneForOne ==
    ASSUME NEW S \in SUBSET Callers, NEW c \in S, NEW d \in Callers, d \notin S
    PROVE  Cardinality((S \ {c}) \cup {d}) = Cardinality(S)
<1>1. Cardinality(S \ {c}) = Cardinality(S) - 1
  BY OneOut
<1>2. Cardinality((S \ {c}) \cup {d}) = Cardinality(S \ {c}) + 1
  BY OneIn
<1> QED BY <1>1, <1>2, Countable

LEMMA Initially == Init => IInv
<1> SUFFICES ASSUME Init PROVE IInv
  OBVIOUS
<1>1. Types
  BY Sizes DEF Init, Types, Stage, Lane
<1>2. Inside = {} /\ GateHeld = {}
  BY DEF Init, Inside, GateHeld
<1>3. Conserved
  BY <1>2, FS_EmptySet, Sizes DEF Init, Conserved
<1>4. Timely
  BY Sizes DEF Init, Timely
<1> QED BY <1>1, <1>3, <1>4 DEF IInv

-----------------------------------------------------------------------------
(* Each action keeps Conserved: who comes in, who goes out. *)

\* Enough for Conserved': how the two sets of holders change with the counters.
LEMMA AskGateConserves ==
    ASSUME IInv, NEW c \in Callers, AskGate(c)
    PROVE  Conserved'
<1> USE DEF IInv, Types, Stage, Lane
<1>1. Inside' = Inside
  BY DEF AskGate, Inside
<1>2. shared' = shared
  BY DEF AskGate
<1>3. /\ \A d \in Callers : pc'[d] = "waitShared" => shared' = 0
      /\ \A d \in Callers : pc'[d] \in {"waitGate", "gated", "dropGate"} => lane'[d] = "batch"
  BY DEF AskGate, Conserved
<1>4. gate' + Cardinality(GateHeld') = Total - Reserved
  <2>1. CASE gate > 0
    <3>1. GateHeld' = GateHeld \cup {c} /\ c \notin GateHeld
      BY <2>1 DEF AskGate, GateHeld
    <3>2. Cardinality(GateHeld') = Cardinality(GateHeld) + 1
      BY <3>1, OneIn DEF GateHeld
    <3> QED BY <2>1, <3>2, Countable, Sizes DEF AskGate, Conserved, GateHeld
  <2>2. CASE ~(gate > 0)
    <3>1. GateHeld' = GateHeld
      BY <2>2 DEF AskGate, GateHeld
    <3> QED BY <2>2, <3>1 DEF AskGate, Conserved
  <2> QED BY <2>1, <2>2
<1> QED BY <1>1, <1>2, <1>3, <1>4 DEF Conserved

LEMMA AskSharedConserves ==
    ASSUME IInv, NEW c \in Callers, AskShared(c)
    PROVE  Conserved'
<1> USE DEF IInv, Types, Stage, Lane
<1>1. GateHeld' = GateHeld
  BY DEF AskShared, GateHeld, Conserved
<1>2. gate' = gate
  BY DEF AskShared
<1>3. \A d \in Callers : pc'[d] \in {"waitGate", "gated", "dropGate"} => lane'[d] = "batch"
  BY DEF AskShared, Conserved
<1>4. CASE shared > 0
  <2>1. Inside' = Inside \cup {c} /\ c \notin Inside
    BY <1>4 DEF AskShared, Inside
  <2>2. Cardinality(Inside') = Cardinality(Inside) + 1
    BY <2>1, OneIn DEF Inside
  <2>3. shared' + Cardinality(Inside') = Total
    BY <1>4, <2>2, Countable, Sizes DEF AskShared, Conserved, Inside
  <2>4. \A d \in Callers : pc'[d] = "waitShared" => shared' = 0
    BY <1>4 DEF AskShared, Conserved
  <2> QED BY <1>1, <1>2, <1>3, <2>3, <2>4 DEF Conserved
<1>5. CASE ~(shared > 0)
  <2>1. Inside' = Inside /\ shared' = 0 /\ shared = 0
    BY <1>5 DEF AskShared, Inside
  <2> QED BY <1>1, <1>2, <1>3, <2>1 DEF Conserved
<1> QED BY <1>4, <1>5

LEMMA ReleaseConserves ==
    ASSUME IInv, NEW c \in Callers, Release(c)
    PROVE  Conserved'
<1> USE DEF IInv, Types, Stage, Lane
<1>1. gate' = gate /\ lane' = lane
  BY DEF Release
<1>2. CASE /\ Waiting("waitShared") = {}
           /\ shared' = shared + 1
           /\ pc' = [pc EXCEPT ![c] = AfterShared(c)]
  <2>1. GateHeld' = GateHeld
    BY <1>1, <1>2 DEF Release, GateHeld, AfterShared
  <2>2. Inside' = Inside \ {c} /\ c \in Inside
    BY <1>2 DEF Release, Inside, AfterShared
  <2>3. Cardinality(Inside') = Cardinality(Inside) - 1
    BY <2>2, OneOut DEF Inside
  <2>4. shared' + Cardinality(Inside') = Total
    BY <1>2, <2>3, Countable, Sizes DEF Conserved, Inside
  <2>5. \A d \in Callers : pc'[d] # "waitShared"
    BY <1>2 DEF Waiting, AfterShared
  <2>6. \A d \in Callers : pc'[d] \in {"waitGate", "gated", "dropGate"} => lane'[d] = "batch"
    BY <1>1, <1>2 DEF AfterShared, Conserved
  <2> QED BY <1>1, <2>1, <2>4, <2>5, <2>6 DEF Conserved
<1>3. ASSUME NEW w \in First("waitShared"), shared' = shared,
             pc' = [pc EXCEPT ![c] = AfterShared(c), ![w] = "permit"]
      PROVE  Conserved'
  <2>0. w \in Callers /\ pc[w] = "waitShared" /\ pc[c] \in {"permit", "sleep", "fetch"}
    BY <1>3 DEF First, Waiting, Release
  <2>1. GateHeld' = GateHeld
    BY <1>1, <1>3, <2>0 DEF GateHeld, AfterShared
  <2>2. Inside' = (Inside \ {c}) \cup {w} /\ c \in Inside /\ w \notin Inside
    BY <1>3, <2>0 DEF Inside, AfterShared
  <2>3. Cardinality(Inside') = Cardinality(Inside)
    <3>1. Inside \in SUBSET Callers
      BY DEF Inside
    <3>2. Cardinality((Inside \ {c}) \cup {w}) = Cardinality(Inside)
      BY <2>0, <2>2, <3>1, OneForOne
    <3> QED BY <2>2, <3>2
  <2>4. shared' + Cardinality(Inside') = Total
    BY <1>3, <2>3 DEF Conserved
  <2>5. \A d \in Callers : pc'[d] = "waitShared" => shared' = 0
    BY <1>3, <2>0 DEF AfterShared, Conserved
  <2>6. \A d \in Callers : pc'[d] \in {"waitGate", "gated", "dropGate"} => lane'[d] = "batch"
    BY <1>1, <1>3, <2>0 DEF AfterShared, Conserved
  <2> QED BY <1>1, <2>1, <2>4, <2>5, <2>6 DEF Conserved
<1> QED BY <1>2, <1>3 DEF Release, GiveShared

LEMMA DropGateConserves ==
    ASSUME IInv, NEW c \in Callers, DropGate(c)
    PROVE  Conserved'
<1> USE DEF IInv, Types, Stage, Lane
<1>1. shared' = shared /\ lane' = lane /\ pc[c] \in {"gated", "dropGate"}
  BY DEF DropGate
<1>2. CASE /\ Waiting("waitGate") = {}
           /\ gate' = gate + 1
           /\ pc' = [pc EXCEPT ![c] = "idle"]
  <2>1. Inside' = Inside
    BY <1>1, <1>2 DEF Inside
  <2>2. GateHeld' = GateHeld \ {c} /\ c \in GateHeld
    BY <1>1, <1>2 DEF GateHeld
  <2>3. Cardinality(GateHeld') = Cardinality(GateHeld) - 1
    BY <2>2, OneOut DEF GateHeld
  <2>4. gate' + Cardinality(GateHeld') = Total - Reserved
    BY <1>2, <2>3, Countable, Sizes DEF Conserved, GateHeld
  <2>5. /\ \A d \in Callers : pc'[d] = "waitShared" => shared' = 0
        /\ \A d \in Callers : pc'[d] \in {"waitGate", "gated", "dropGate"} => lane'[d] = "batch"
    BY <1>1, <1>2 DEF Conserved
  <2> QED BY <1>1, <2>1, <2>4, <2>5 DEF Conserved
<1>3. ASSUME NEW w \in First("waitGate"), gate' = gate,
             pc' = [pc EXCEPT ![c] = "idle", ![w] = "gated"]
      PROVE  Conserved'
  <2>0. w \in Callers /\ pc[w] = "waitGate"
    BY <1>3 DEF First, Waiting
  <2>1. Inside' = Inside
    BY <1>1, <1>3, <2>0 DEF Inside
  <2>2. GateHeld' = (GateHeld \ {c}) \cup {w} /\ c \in GateHeld /\ w \notin GateHeld
    BY <1>1, <1>3, <2>0 DEF GateHeld
  <2>3. Cardinality(GateHeld') = Cardinality(GateHeld)
    <3>1. GateHeld \in SUBSET Callers
      BY DEF GateHeld
    <3>2. Cardinality((GateHeld \ {c}) \cup {w}) = Cardinality(GateHeld)
      BY <2>0, <2>2, <3>1, OneForOne
    <3> QED BY <2>2, <3>2
  <2>4. /\ \A d \in Callers : pc'[d] = "waitShared" => shared' = 0
        /\ \A d \in Callers : pc'[d] \in {"waitGate", "gated", "dropGate"} => lane'[d] = "batch"
    BY <1>1, <1>3, <2>0 DEF Conserved
  <2> QED BY <1>1, <1>3, <2>1, <2>3, <2>4 DEF Conserved
<1> QED BY <1>1, <1>2, <1>3 DEF DropGate, GiveGate

\* The other actions move no permit.
LEMMA OthersConserve ==
    ASSUME IInv, NEW c \in Callers,
           Pace(c) \/ Fetch(c) \/ CancelShared(c) \/ CancelGate(c)
    PROVE  Conserved'
<1> USE DEF IInv, Types, Stage, Lane
<1>1. shared' = shared /\ gate' = gate /\ lane' = lane
  BY DEF Pace, Fetch, CancelShared, CancelGate, semVars
<1>2. Inside' = Inside
  BY DEF Pace, Fetch, CancelShared, CancelGate, AfterShared, Inside
<1>3. GateHeld' = GateHeld
  BY <1>1 DEF Pace, Fetch, CancelShared, CancelGate, AfterShared, GateHeld
<1>4. /\ \A d \in Callers : pc'[d] = "waitShared" => pc[d] = "waitShared"
      /\ \A d \in Callers : pc'[d] \in {"waitGate", "gated", "dropGate"} => lane[d] = "batch"
  BY DEF Pace, Fetch, CancelShared, CancelGate, AfterShared, Conserved
<1> QED BY <1>1, <1>2, <1>3, <1>4 DEF Conserved

-----------------------------------------------------------------------------
(* Each action keeps the types and Timely. *)

LEMMA PaceKeepsTime ==
    ASSUME IInv, NEW c \in Callers, Pace(c)
    PROVE  Types' /\ Timely'
<1> USE DEF IInv, Types, Stage, Lane
<1>1. NextSleep \in 0 .. Interval /\ ahead <= NextSleep
  BY Sizes DEF NextSleep
<1>2. \A d \in Callers : age[d] + NextSleep >= Interval
  BY Sizes DEF NextSleep, Timely
<1>3. Types'
  BY <1>1, Sizes DEF Pace, semVars
<1>4. \A d \in Callers : age'[d] + ahead' >= 0
  BY <1>1, <1>2, Sizes DEF Pace
<1>5. ASSUME NEW d \in Callers, pc'[d] = "sleep"
      PROVE  /\ sleep'[d] <= ahead'
             /\ \A e \in Callers \ late'[d] : age'[e] + sleep'[d] >= Interval
  <2>1. CASE d = c
    BY <2>1, <1>1, <1>2, Sizes DEF Pace
  <2>2. CASE d # c
    <3>1. pc[d] = "sleep" /\ sleep'[d] = sleep[d] /\ late'[d] = late[d]
      BY <1>5, <2>2 DEF Pace
    <3>2. sleep[d] <= ahead /\ \A e \in Callers \ late[d] : age[e] + sleep[d] >= Interval
      BY <3>1 DEF Timely
    <3> QED BY <3>1, <3>2, <1>1, Sizes DEF Pace
  <2> QED BY <2>1, <2>2
<1> QED BY <1>3, <1>4, <1>5 DEF Timely

LEMMA FetchKeepsTime ==
    ASSUME IInv, NEW c \in Callers, Fetch(c)
    PROVE  Types' /\ Timely'
<1> USE DEF IInv, Types, Stage, Lane
<1>1. Types'
  BY Sizes DEF Fetch, semVars
<1>2. \A d \in Callers : age'[d] + ahead' >= 0
  BY Sizes DEF Fetch, Timely
<1>3. ASSUME NEW d \in Callers, pc'[d] = "sleep"
      PROVE  /\ sleep'[d] <= ahead'
             /\ \A e \in Callers \ late'[d] : age'[e] + sleep'[d] >= Interval
  <2>1. pc[d] = "sleep" /\ d # c /\ late'[d] = late[d] \cup {c}
    BY <1>3 DEF Fetch
  <2>2. sleep[d] <= ahead /\ \A e \in Callers \ late[d] : age[e] + sleep[d] >= Interval
    BY <2>1 DEF Timely
  <2> QED BY <2>1, <2>2 DEF Fetch
<1> QED BY <1>1, <1>2, <1>3 DEF Timely

LEMMA TickKeepsTime ==
    ASSUME IInv, Tick
    PROVE  Types' /\ Timely'
<1> USE DEF IInv, Types, Stage, Lane
<1>1. ahead' \in -Interval .. Interval
  BY Sizes DEF Tick
<1>2. sleep' \in [Callers -> 0 .. Interval]
  BY Sizes DEF Tick
<1>3. age' \in [Callers -> 0 .. Interval]
  BY Sizes DEF Tick
<1>4. \A d \in Callers : age'[d] + ahead' >= 0
  BY Sizes DEF Tick, Timely
<1>5. ASSUME NEW d \in Callers, pc'[d] = "sleep"
      PROVE  /\ sleep'[d] <= ahead'
             /\ \A e \in Callers \ late'[d] : age'[e] + sleep'[d] >= Interval
  <2>1. pc[d] = "sleep" /\ late'[d] = late[d] /\ sleep[d] > 0 /\ sleep'[d] = sleep[d] - 1
    BY <1>5 DEF Tick
  <2>2. sleep[d] <= ahead /\ \A e \in Callers \ late[d] : age[e] + sleep[d] >= Interval
    BY <2>1 DEF Timely
  <2>3. sleep[d] \in 0 .. Interval
    OBVIOUS
  <2>4. sleep'[d] <= ahead'
    BY <2>1, <2>2, <2>3, Sizes DEF Tick
  <2>5. ASSUME NEW e \in Callers \ late'[d] PROVE age'[e] + sleep'[d] >= Interval
    BY <2>1, <2>2, <2>3, Sizes DEF Tick
  <2> QED BY <2>4, <2>5
<1> QED BY <1>1, <1>2, <1>3, <1>4, <1>5 DEF Tick, semVars, Timely

\* The remaining actions touch no time and put nobody to sleep.
LEMMA OthersKeepTime ==
    ASSUME IInv, NEW c \in Callers,
           \/ AskGate(c) \/ AskShared(c) \/ Release(c)
           \/ CancelShared(c) \/ DropGate(c) \/ CancelGate(c)
    PROVE  Types' /\ Timely'
<1> USE DEF IInv, Types, Stage, Lane
<1>1. UNCHANGED timeVars
  BY DEF AskGate, AskShared, Release, CancelShared, DropGate, CancelGate
<1>2. \A d \in Callers : pc'[d] = "sleep" => pc[d] = "sleep"
  BY DEF AskGate, AskShared, Release, CancelShared, DropGate, CancelGate,
         GiveShared, GiveGate, AfterShared
<1>3. pc' \in [Callers -> Stage] /\ lane' \in [Callers -> Lane]
  BY DEF AskGate, AskShared, Release, CancelShared, DropGate, CancelGate,
         GiveShared, GiveGate, AfterShared
<1>4. shared' \in Nat /\ gate' \in Nat
  BY DEF AskGate, AskShared, Release, CancelShared, DropGate, CancelGate,
         GiveShared, GiveGate
<1>5. order' \subseteq Callers \X Callers
  BY DEF AskGate, AskShared, Release, CancelShared, DropGate, CancelGate,
         GiveShared, GiveGate, Behind, Without, Waiting
<1> QED BY <1>1, <1>2, <1>3, <1>4, <1>5 DEF Timely, timeVars

LEMMA Inductive == IInv /\ [Next]_vars => IInv'
<1> SUFFICES ASSUME IInv, [Next]_vars PROVE IInv'
  OBVIOUS
<1>1. ASSUME NEW c \in Callers, AskGate(c) PROVE IInv'
  BY <1>1, AskGateConserves, OthersKeepTime DEF IInv
<1>2. ASSUME NEW c \in Callers, AskShared(c) PROVE IInv'
  BY <1>2, AskSharedConserves, OthersKeepTime DEF IInv
<1>3. ASSUME NEW c \in Callers, Pace(c) PROVE IInv'
  BY <1>3, OthersConserve, PaceKeepsTime DEF IInv
<1>4. ASSUME NEW c \in Callers, Fetch(c) PROVE IInv'
  BY <1>4, OthersConserve, FetchKeepsTime DEF IInv
<1>5. ASSUME NEW c \in Callers, Release(c) PROVE IInv'
  BY <1>5, ReleaseConserves, OthersKeepTime DEF IInv
<1>6. ASSUME NEW c \in Callers, CancelShared(c) PROVE IInv'
  BY <1>6, OthersConserve, OthersKeepTime DEF IInv
<1>7. ASSUME NEW c \in Callers, DropGate(c) PROVE IInv'
  BY <1>7, DropGateConserves, OthersKeepTime DEF IInv
<1>8. ASSUME NEW c \in Callers, CancelGate(c) PROVE IInv'
  BY <1>8, OthersConserve, OthersKeepTime DEF IInv
<1>9. CASE Tick
  <2>1. Conserved'
    BY <1>9 DEF IInv, Tick, semVars, Conserved, Inside, GateHeld
  <2> QED BY <1>9, <2>1, TickKeepsTime DEF IInv
<1>10. CASE UNCHANGED vars
  BY <1>10 DEF vars, IInv, Types, Conserved, Timely, Inside, GateHeld
<1> QED BY <1>1, <1>2, <1>3, <1>4, <1>5, <1>6, <1>7, <1>8, <1>9, <1>10 DEF Next, Request

\* Permits, queues and starts are as the invariant says in every reachable state
\* (acquire, next_sleep, the drop of a permit).
THEOREM Invariance == Spec => []IInv
BY Initially, Inductive, PTL DEF Spec

-----------------------------------------------------------------------------
(* What follows. *)

\* No more permits are ever free than were created: nothing is returned twice.
THEOREM TypeCorrect == Spec => []TypeOK
<1>1. IInv => TypeOK
  <2> SUFFICES ASSUME IInv PROVE TypeOK
    OBVIOUS
  <2>1. Cardinality(Inside) \in Nat /\ Cardinality(GateHeld) \in Nat
    BY Countable DEF Inside, GateHeld
  <2> QED BY <2>1, Sizes DEF IInv, Types, Conserved, TypeOK
<1> QED BY <1>1, Invariance, PTL

\* The batch requests inside are fewer than the permits by the reserve.
Fitting ==
    /\ Cardinality(Inside) <= Total
    /\ Cardinality(InLane("batch")) <= Total - Reserved

LEMMA BatchFits == IInv => Fitting
<1> SUFFICES ASSUME IInv PROVE Fitting
  OBVIOUS
<1>1. InLane("batch") \subseteq GateHeld
  BY DEF InLane, Inside, GateHeld
<1>2. Cardinality(InLane("batch")) <= Cardinality(GateHeld)
  BY <1>1, Countable, FS_Subset DEF GateHeld
<1>3. Cardinality(Inside) \in Nat /\ Cardinality(GateHeld) \in Nat /\ Cardinality(InLane("batch")) \in Nat
  BY Countable DEF Inside, GateHeld, InLane
<1> QED BY <1>2, <1>3, Sizes DEF IInv, Types, Conserved, Fitting

\* Batch is never the reason that an interactive request waits.
THEOREM ReserveKept == Spec => []InteractiveReserve
<1>1. IInv => InteractiveReserve
  <2> SUFFICES ASSUME IInv, NEW c \in Callers, pc[c] = "waitShared"
               PROVE  Cardinality(InLane("interactive")) >= Reserved
    BY DEF InteractiveReserve
  <2>1. Cardinality(Inside) = Total
    BY Countable, Sizes DEF IInv, Conserved, Inside
  <2>2. /\ Inside = InLane("interactive") \cup InLane("batch")
        /\ InLane("interactive") \cap InLane("batch") = {}
    BY DEF IInv, Types, Lane, InLane, Inside
  <2>3. /\ IsFiniteSet(InLane("interactive")) /\ Cardinality(InLane("interactive")) \in Nat
        /\ IsFiniteSet(InLane("batch")) /\ Cardinality(InLane("batch")) \in Nat
    BY Countable DEF InLane, Inside
  <2>4. Cardinality(Inside) = Cardinality(InLane("interactive")) + Cardinality(InLane("batch"))
    <3>1. Cardinality(InLane("interactive") \cup InLane("batch"))
            = Cardinality(InLane("interactive")) + Cardinality(InLane("batch"))
              - Cardinality(InLane("interactive") \cap InLane("batch"))
      BY <2>3, FS_Union
    <3>2. Cardinality(InLane("interactive") \cap InLane("batch")) = 0
      BY <2>2, FS_EmptySet
    <3>3. Cardinality(InLane("interactive") \cup InLane("batch")) = Cardinality(Inside)
      BY <2>2
    <3> QED BY <3>1, <3>2, <3>3, <2>3
  <2> QED BY <2>1, <2>3, <2>4, BatchFits, Sizes DEF Fitting
<1> QED BY <1>1, Invariance, PTL

\* Both: permits are conserved, and the reserve is kept.
THEOREM LanesAreSound == Spec => []LanesSound
BY TypeCorrect, ReserveKept, PTL DEF LanesSound

\* A fetch begins an interval after those that had begun when it was paced.
THEOREM PacedAlways == Spec => Paced
<1>1. IInv /\ [Next]_vars => [PacedStep]_vars
  <2> SUFFICES ASSUME IInv, [Next]_vars, NEW c \in Callers,
                      pc[c] = "sleep", pc'[c] = "fetch",
                      NEW d \in Callers \ late[c]
               PROVE  age[d] >= Interval
    BY DEF PacedStep
  <2>1. Fetch(c)
    BY DEF IInv, Types, Next, vars, Request, AskGate, AskShared, Pace, Fetch, Release,
           CancelShared, DropGate, CancelGate, GiveShared, GiveGate, AfterShared,
           First, Waiting, Tick
  <2>2. sleep[c] = 0 /\ age[d] + sleep[c] >= Interval
    BY <2>1 DEF Fetch, IInv, Timely
  <2> QED BY <2>2 DEF IInv, Types
<1> QED BY <1>1, Invariance, PTL DEF Spec, Paced

-----------------------------------------------------------------------------
(* The semaphore keeps the promise of the lanes. *)

I == InLane("interactive")
B == InLane("batch")

LEMMA InsideIsLanes ==
    ASSUME Types
    PROVE  Inside = I \cup B
BY DEF Types, Lane, I, B, InLane, Inside

\* A step in which out leaves and in comes in, and nobody changes lanes.
LEMMA ChangeForm ==
    ASSUME Types, Types', NEW out \in SUBSET Callers, NEW in \in SUBSET Callers,
           Inside' = (Inside \ out) \cup in, in \cap Inside = {},
           \A d \in Inside : lane'[d] = lane[d],
           NEW l \in Lane, \A d \in in : lane'[d] = l
    PROVE  Lanes!Change(out, in)
<1>1. I' = {d \in Inside' : lane'[d] = "interactive"} /\ B' = {d \in Inside' : lane'[d] = "batch"}
  BY DEF I, B, InLane
<1>2. I = {d \in Inside : lane[d] = "interactive"} /\ B = {d \in Inside : lane[d] = "batch"}
  BY DEF I, B, InLane
<1>3. CASE l = "interactive"
  <2>1. I' = (I \ out) \cup in /\ B' = B \ out
    BY <1>1, <1>2, <1>3
  <2> QED BY <2>1 DEF Lanes!Change, I, B
<1>4. CASE l = "batch"
  <2>1. I' = I \ out /\ B' = (B \ out) \cup in
    BY <1>1, <1>2, <1>4
  <2> QED BY <2>1 DEF Lanes!Change, I, B
<1> QED BY <1>3, <1>4 DEF Lane

\* The abstract module counts as this one does.
LEMMA SameCount == \A S : Lanes!Cardinality(S) = Cardinality(S)
BY DEF Lanes!Cardinality, Cardinality, Lanes!IsFiniteSet, IsFiniteSet

\* When such a step moves at most one request each way, the abstract
\* semaphore allows it: what is inside afterwards fits.
LEMMA Allowed ==
    ASSUME IInv, IInv', NEW out \in Lanes!Optional(Inside),
           NEW in \in Lanes!Optional(Callers \ Inside), Lanes!Change(out, in)
    PROVE  Lanes!Next
<1>1. Inside = I \cup B
  BY InsideIsLanes DEF IInv
<1>2. Inside' = I' \cup B'
  BY DEF IInv, Types, Lane, I, B, InLane, Inside
<1>3. Cardinality(Inside') <= Total /\ Cardinality(B') <= Total - Reserved
  <2>1. Fitting'
    BY BatchFits, PTL
  <2> QED BY <2>1 DEF Fitting, B
<1>4. Lanes!Fits(I', B')
  BY <1>2, <1>3, SameCount DEF Lanes!Fits
<1> QED BY <1>1, <1>4 DEF Lanes!Next, I, B

LEMMA Stutters ==
    ASSUME Inside' = Inside, \A d \in Inside : lane'[d] = lane[d]
    PROVE  UNCHANGED Lanes!vars
BY DEF Lanes!vars, InLane

LEMMA StepRefines ==
    ASSUME IInv, IInv', [Next]_vars
    PROVE  [Lanes!Next]_(Lanes!vars)
<1> USE DEF IInv, Types, Stage
<1>1. ASSUME NEW c \in Callers, AskShared(c)
      PROVE  [Lanes!Next]_(Lanes!vars)
  <2>1. CASE shared > 0
    <3>1. Inside' = (Inside \ {}) \cup {c} /\ c \notin Inside
      BY <1>1, <2>1 DEF AskShared, Inside
    <3>2. \A d \in Inside : lane'[d] = lane[d]
      BY <1>1 DEF AskShared, Inside
    <3>3. lane'[c] \in Lane
      OBVIOUS
    <3>4. Lanes!Change({}, {c})
      BY <3>1, <3>2, <3>3, ChangeForm
    <3>5. {} \in Lanes!Optional(Inside) /\ {c} \in Lanes!Optional(Callers \ Inside)
      BY <3>1 DEF Lanes!Optional
    <3> QED BY <3>4, <3>5, Allowed
  <2>2. CASE ~(shared > 0)
    BY <1>1, <2>2, Stutters DEF AskShared, Inside
  <2> QED BY <2>1, <2>2
<1>2. ASSUME NEW c \in Callers, Release(c)
      PROVE  [Lanes!Next]_(Lanes!vars)
  <2>0. c \in Inside /\ lane' = lane /\ {c} \in Lanes!Optional(Inside)
    BY <1>2 DEF Release, Inside, Lanes!Optional
  <2>1. CASE pc' = [pc EXCEPT ![c] = AfterShared(c)]
    <3>1. Inside' = (Inside \ {c}) \cup {}
      BY <2>1 DEF Inside, AfterShared
    <3>2. Lanes!Change({c}, {})
      BY <2>0, <3>1, ChangeForm DEF Lane
    <3>3. {} \in Lanes!Optional(Callers \ Inside)
      BY DEF Lanes!Optional
    <3> QED BY <2>0, <3>2, <3>3, Allowed
  <2>2. ASSUME NEW w \in First("waitShared"),
               pc' = [pc EXCEPT ![c] = AfterShared(c), ![w] = "permit"]
        PROVE  [Lanes!Next]_(Lanes!vars)
    <3>1. w \in Callers /\ w # c /\ w \notin Inside
      BY <1>2 DEF First, Waiting, Release, Inside
    <3>2. Inside' = (Inside \ {c}) \cup {w}
      BY <2>2, <3>1 DEF Inside, AfterShared
    <3>3. lane'[w] \in Lane
      BY <3>1
    <3>4. Lanes!Change({c}, {w})
      BY <2>0, <3>1, <3>2, <3>3, ChangeForm
    <3>5. {w} \in Lanes!Optional(Callers \ Inside)
      BY <3>1 DEF Lanes!Optional
    <3> QED BY <2>0, <3>4, <3>5, Allowed
  <2> QED BY <1>2, <2>1, <2>2 DEF Release, GiveShared
<1>3. ASSUME NEW c \in Callers,
             \/ AskGate(c) \/ Pace(c) \/ Fetch(c)
             \/ CancelShared(c) \/ DropGate(c) \/ CancelGate(c)
      PROVE  [Lanes!Next]_(Lanes!vars)
  <2>1. Inside' = Inside
    BY <1>3 DEF AskGate, Pace, Fetch, CancelShared, DropGate, CancelGate,
                GiveGate, First, Waiting, AfterShared, Inside
  <2>2. \A d \in Inside : lane'[d] = lane[d]
    BY <1>3 DEF AskGate, Pace, Fetch, CancelShared, DropGate, CancelGate, Inside
  <2> QED BY <2>1, <2>2, Stutters
<1>4. CASE Tick \/ UNCHANGED vars
  BY <1>4, Stutters DEF Tick, vars, Inside
<1> QED BY <1>1, <1>2, <1>3, <1>4 DEF Next, Request

\* The semaphore implements the lanes: at most Total inside, at most
\* Total - Reserved of them batch, whatever is cancelled or handed over.
THEOREM LanesImplemented == Spec => ImplementsLanes
<1>1. Init => Lanes!Init
  BY DEF Init, Lanes!Init, InLane, Inside
<1>2. IInv /\ IInv' /\ [Next]_vars => [Lanes!Next]_(Lanes!vars)
  BY StepRefines
<1> QED BY <1>1, <1>2, Invariance, PTL DEF Spec, ImplementsLanes, Lanes!Spec

\* Both sides of the reserve (ReservedSemaphore): batch never has more than its
\* share, and no interactive request waits while its lane has less.
THEOREM LanesAreKept == Spec => LanesKept
BY LanesAreSound, LanesImplemented, PTL DEF LanesKept
=============================================================================
