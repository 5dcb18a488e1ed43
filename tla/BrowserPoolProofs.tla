------------------------- MODULE BrowserPoolProofs -------------------------
(* Theorems about BrowserPool for any clients, slots and number of permits. *)
EXTENDS BrowserPool, FiniteSetTheorems, TLAPS

\* Where a client holds a slot, and where it holds none.
SlotPcs   == {"Check", "Health", "CheckOut", "Count", "Using"} \cup (TokenPcs \ {"Commit"})
NoSlotPcs == {"Out", "Waiting", "Pop", "Create"}

\* The control state says whether a client, or shutdown, refers to a slot.
SlotHeld ==
  /\ \A c \in Clients : /\ pc[c] \in SlotPcs => slot[c] \in Slots
                        /\ pc[c] \in NoSlotPcs => slot[c] = NoSlot
  /\ spc \in {"ForceTake", "ForceDec"} => cur \in Slots

TypeInv == TypeOK /\ SlotHeld

\* A connection is in its slot, or owned by a close task, or closed, at most
\* one of the three at a time.
ConnOwned ==
  \A s \in Slots : /\ HasConn(s) => closes[s] = 0 /\ s \notin reap
                   /\ s \in reap => closes[s] = 0
                   /\ closes[s] <= 1

\* A guard's slot is checked out or taken away from it, and an idle slot or
\* one just checked out has a clean context.
ContextClean ==
  /\ \A s \in Slots : st[s] = "Idle" => ~dirty[s]
  /\ \A c \in Clients : pc[c] \in {"Count", "Using", "Snapshot"} => st[slot[c]] # "Idle"
  /\ CleanCheckout

\* No more clients hold a permit than there are permits.
PermitsKept == IsFiniteSet(Holders) /\ Cardinality(Holders) <= Size

\* A client that found the free list empty, or took a slot from it, has a place
\* in the pool; the free slots have the other places.
Placed      == {c \in Clients : slot[c] # NoSlot \/ pc[c] = "Create"}
PlacesKept  == Len(idle) + Cardinality(Placed) <= Size

\* Before shutdown forces slots, the guards' terminators are theirs alone.
GuardsOwnTerm ==
  BeforeForce => \A c \in Clients : pc[c] \in {"Count", "Using"} => ~term[slot[c]]

\* Phase 2 of shutdown closes slots that nobody can reach any more.
TakenApart ==
  spc = "CloseIdle" => \A s \in todo : ~InIdle(s) /\ \A c \in Clients : slot[c] # s

\* Before shutdown forces slots, those in the free list, on the way out of it
\* or back into it, and those in use have their connection.
ConnPcs == {"Check", "Health", "CheckOut", "Count", "Using", "PushBack"}
Connected ==
  BeforeForce => /\ \A s \in Slots : InIdle(s) => HasConn(s)
                 /\ \A c \in Clients : pc[c] \in ConnPcs => HasConn(slot[c])

IInv == /\ TypeInv /\ SlotExclusive /\ ConnOwned /\ ContextClean
        /\ PermitsKept /\ PlacesKept /\ InflightExact
        /\ GuardsOwnTerm /\ TakenApart /\ Connected

-----------------------------------------------------------------------------
\* Counting up one entry of a table of naturals, with or without a bound.
LEMMA IncrementTyped ==
  ASSUME NEW S, NEW x \in S, NEW f \in [S -> Nat]
  PROVE  [f EXCEPT ![x] = @ + 1] \in [S -> Nat]
PROOF OBVIOUS

LEMMA BoundedIncrementTyped ==
  ASSUME NEW S, NEW x \in S, NEW f \in [S -> 0..2], f[x] < 2
  PROVE  [f EXCEPT ![x] = @ + 1] \in [S -> 0..2]
PROOF OBVIOUS

\* Going back to the head of acquire()'s loop, or out of it.
LEMMA RetryTyped ==
  ASSUME TypeOK, NEW c \in Clients, RetryOrFail(c)
  PROVE  /\ pc' \in [Clients -> ClientPc]
         /\ attempt' \in [Clients -> 0..2]
         /\ slot' = [slot EXCEPT ![c] = NoSlot]
         /\ \E l \in {"Pop", "Out"} : pc' = [pc EXCEPT ![c] = l]
PROOF
<1> USE DEF TypeOK, ClientPc, AcquirePcs
<1>1. CASE attempt[c] < 2
  <2>1. /\ pc' = [pc EXCEPT ![c] = "Pop"]
        /\ attempt' = [attempt EXCEPT ![c] = @ + 1]
    BY <1>1 DEF RetryOrFail, Goto
  <2>2. attempt' \in [Clients -> 0..2]
    BY <1>1, <2>1, BoundedIncrementTyped
  <2>3. QED
    BY <2>1, <2>2 DEF RetryOrFail
<1>2. CASE ~(attempt[c] < 2)
  BY <1>2 DEF RetryOrFail, Goto
<1>3. QED
  BY <1>1, <1>2

\* mark_slot_dead_and_drop() on an existing slot.
LEMMA MarkDeadTyped ==
  ASSUME TypeOK, NEW s \in Slots, MarkDead(s)
  PROVE  st' \in [Slots -> SlotState] /\ reap' \in SUBSET Slots
PROOF BY DEF TypeOK, MarkDead, TakeConn, SlotState

\* Every step keeps the variables in their types and the references in place.
LEMMA TypeStep ==
  ASSUME TypeInv, [Next]_vars PROVE TypeInv'
PROOF
<1> USE NoSlotAssumption DEF TypeInv, TypeOK, SlotHeld, SlotPcs, NoSlotPcs, ClientPc, AcquirePcs,
         RecyclePcs, TokenPcs, ShutdownPc, SlotState, vars, clientVars, slotVars, shutVars
<1>1. ASSUME NEW c \in Clients, Request(c) PROVE TypeInv'
  BY <1>1 DEF Request, Goto
<1>2. ASSUME NEW c \in Clients, GetPermit(c) PROVE TypeInv'
  BY <1>2 DEF GetPermit, Goto
<1>3. ASSUME NEW c \in Clients, GiveUpWaiting(c) PROVE TypeInv'
  BY <1>3 DEF GiveUpWaiting, Leave, Goto
<1>4. ASSUME NEW c \in Clients, PopIdle(c) PROVE TypeInv'
  BY <1>4 DEF PopIdle, Goto
<1>5. ASSUME NEW c \in Clients, PopNone(c) PROVE TypeInv'
  BY <1>5 DEF PopNone, Goto
<1>6. ASSUME NEW c \in Clients, StaleCheck(c) PROVE TypeInv'
  <2>1. slot[c] \in Slots
    BY <1>6 DEF StaleCheck
  <2>2. CASE (Goto(c, "CheckOut") \/ Goto(c, "Health")) /\ UNCHANGED <<attempt, slot, st, reap>>
    BY <1>6, <2>1, <2>2 DEF StaleCheck, Goto
  <2>3. CASE MarkDead(slot[c]) /\ RetryOrFail(c)
    <3>1. st' \in [Slots -> SlotState] /\ reap' \in SUBSET Slots
      BY <2>1, <2>3, MarkDeadTyped
    <3>2. PICK l \in {"Pop", "Out"} : pc' = [pc EXCEPT ![c] = l]
      BY <2>3, RetryTyped
    <3>3. /\ attempt' \in [Clients -> 0..2]
          /\ slot' = [slot EXCEPT ![c] = NoSlot]
      BY <2>3, RetryTyped
    <3>4. TypeOK'
      BY <1>6, <3>1, <3>2, <3>3 DEF StaleCheck
    <3>5. SlotHeld'
      BY <1>6, <3>2, <3>3 DEF StaleCheck
    <3>6. QED
      BY <3>4, <3>5
  <2>4. QED
    BY <1>6, <2>2, <2>3 DEF StaleCheck
<1>7. ASSUME NEW c \in Clients, HealthCheck(c) PROVE TypeInv'
  <2>1. slot[c] \in Slots
    BY <1>7 DEF HealthCheck
  <2>2. CASE Goto(c, "CheckOut") /\ UNCHANGED <<attempt, slot, st, reap>>
    BY <1>7, <2>1, <2>2 DEF HealthCheck, Goto
  <2>3. CASE MarkDead(slot[c]) /\ RetryOrFail(c)
    <3>1. st' \in [Slots -> SlotState] /\ reap' \in SUBSET Slots
      BY <2>1, <2>3, MarkDeadTyped
    <3>2. PICK l \in {"Pop", "Out"} : pc' = [pc EXCEPT ![c] = l]
      BY <2>3, RetryTyped
    <3>3. /\ attempt' \in [Clients -> 0..2]
          /\ slot' = [slot EXCEPT ![c] = NoSlot]
      BY <2>3, RetryTyped
    <3>4. TypeOK'
      BY <1>7, <3>1, <3>2, <3>3 DEF HealthCheck
    <3>5. SlotHeld'
      BY <1>7, <3>2, <3>3 DEF HealthCheck
    <3>6. QED
      BY <3>4, <3>5
  <2>4. QED
    BY <1>7, <2>2, <2>3 DEF HealthCheck
<1>8. ASSUME NEW c \in Clients, CreateSlot(c) PROVE TypeInv'
  BY <1>8 DEF CreateSlot, Goto, Held
<1>9. ASSUME NEW c \in Clients, AbandonAcquire(c) PROVE TypeInv'
  BY <1>9 DEF AbandonAcquire, Leave, Goto
<1>10. ASSUME NEW c \in Clients, CheckOut(c) PROVE TypeInv'
  <2>1. CASE st[slot[c]] = "Idle"
    <3>1. /\ st' \in [Slots -> SlotState]
          /\ term' \in [Slots -> BOOLEAN]
          /\ target' \in [Slots -> BOOLEAN]
      BY <1>10, <2>1 DEF CheckOut
    <3>2. pc' = [pc EXCEPT ![c] = "Count"] /\ UNCHANGED <<attempt, slot>>
      BY <1>10, <2>1 DEF CheckOut, Goto
    <3>3. QED
      BY <1>10, <3>1, <3>2 DEF CheckOut
  <2>2. CASE st[slot[c]] # "Idle"
    <3>1. PICK l \in {"Pop", "Out"} : pc' = [pc EXCEPT ![c] = l]
      BY <1>10, <2>2, RetryTyped DEF CheckOut
    <3>2. /\ attempt' \in [Clients -> 0..2]
          /\ slot' = [slot EXCEPT ![c] = NoSlot]
      BY <1>10, <2>2, RetryTyped DEF CheckOut
    <3>3. UNCHANGED <<idle, st, term, target, dirty, reap, closes, inflight, shutVars>>
      BY <1>10, <2>2 DEF CheckOut
    <3>4. TypeOK'
      BY <3>1, <3>2, <3>3
    <3>5. SlotHeld'
      BY <3>1, <3>2, <3>3
    <3>6. QED
      BY <3>4, <3>5
  <2>3. QED
    BY <2>1, <2>2
<1>11. ASSUME NEW c \in Clients, CountInflight(c) PROVE TypeInv'
  BY <1>11 DEF CountInflight, Goto
<1>12. ASSUME NEW c \in Clients, RecordTarget(c) PROVE TypeInv'
  BY <1>12 DEF RecordTarget
<1>13. ASSUME NEW c \in Clients, NEW next \in {"Snapshot", "DropTake"}, Claim(c, next)
       PROVE  TypeInv'
  <2>1. /\ UNCHANGED <<attempt, idle, st, target, dirty, reap, closes, inflight, shutVars>>
        /\ term' \in [Slots -> BOOLEAN]
        /\ slot[c] \in Slots
    BY <1>13 DEF Claim, Leave
  <2>2. \/ /\ pc' = [pc EXCEPT ![c] = "Out"]
           /\ slot' = [slot EXCEPT ![c] = NoSlot]
        \/ /\ pc' = [pc EXCEPT ![c] = next]
           /\ slot' = slot
    BY <1>13 DEF Claim, Leave, Goto
  <2>3. TypeOK'
    <3>1. pc' \in [Clients -> ClientPc] /\ slot' \in [Clients -> Slots \cup {NoSlot}]
      BY <2>2
    <3>2. QED
      BY <2>1, <3>1
  <2>4. SlotHeld'
    <3>1. \A d \in Clients \ {c} : pc'[d] = pc[d] /\ slot'[d] = slot[d]
      BY <2>2
    <3>2. \/ pc'[c] = "Out" /\ slot'[c] = NoSlot
          \/ pc'[c] = next /\ slot'[c] = slot[c]
      BY <2>2
    <3>3. QED
      BY <2>1, <3>1, <3>2
  <2>5. QED
    BY <2>3, <2>4
<1>14. ASSUME NEW c \in Clients, Release(c) \/ DropGuard(c) PROVE TypeInv'
  BY <1>13, <1>14 DEF Release, DropGuard
<1>15. ASSUME NEW c \in Clients, Snapshot(c) PROVE TypeInv'
  <2>1. pc[c] = "Snapshot" /\ slot[c] \in Slots
    BY <1>15 DEF Snapshot
  <2>2. st' \in [Slots -> SlotState]
    BY <1>15 DEF Snapshot
  <2>3. PICK l \in TokenPcs : pc' = [pc EXCEPT ![c] = l]
    BY <1>15 DEF Snapshot, Goto
  <2>4. UNCHANGED <<attempt, slot, idle, term, target, dirty, reap, closes, inflight, shutVars>>
    BY <1>15 DEF Snapshot
  <2>5. QED
    BY <2>1, <2>2, <2>3, <2>4
<1>16. ASSUME NEW c \in Clients, NEW from \in RecyclePcs, NEW mayFail,
              NEW next \in {"Dispose", "Renew", "PushBack"},
              NEW newSt \in {"Recycling", "Idle"},
              Recycle(c, from, mayFail, next, newSt), dirty' \in [Slots -> BOOLEAN]
       PROVE  TypeInv'
  <2>1. pc[c] \in RecyclePcs /\ slot[c] \in Slots
    BY <1>16 DEF Recycle
  <2>2. st' \in [Slots -> SlotState]
    <3>1. \E x \in SlotState : st' = st \/ st' = [st EXCEPT ![slot[c]] = x]
      BY <1>16 DEF Recycle
    <3>2. QED
      BY <3>1
  <2>3. PICK l \in TokenPcs : pc' = [pc EXCEPT ![c] = l]
    BY <1>16 DEF Recycle, Goto
  <2>4. UNCHANGED <<attempt, slot, idle, term, target, reap, closes, inflight, shutVars>>
    BY <1>16 DEF Recycle
  <2>5. TypeOK'
    BY <1>16, <2>2, <2>3, <2>4
  <2>6. SlotHeld'
    BY <2>1, <2>3, <2>4
  <2>7. QED
    BY <2>5, <2>6
<1>17. ASSUME NEW c \in Clients, CloseTarget(c) \/ DisposeCtx(c) PROVE TypeInv'
  BY <1>16, <1>17 DEF CloseTarget, DisposeCtx
<1>18. ASSUME NEW c \in Clients, RenewCtx(c) PROVE TypeInv'
  <2>1. dirty' \in [Slots -> BOOLEAN]
    BY <1>18 DEF RenewCtx
  <2>2. QED
    BY <1>16, <1>18, <2>1 DEF RenewCtx
<1>19. ASSUME NEW c \in Clients, PushBack(c) PROVE TypeInv'
  BY <1>19 DEF PushBack, Goto
<1>20. ASSUME NEW c \in Clients, TakeDead(c) PROVE TypeInv'
  <2>1. CASE HasConn(slot[c])
    <3>1. TypeOK'
      <4>1. closes' \in [Slots -> Nat] /\ pc' \in [Clients -> ClientPc]
        <5>1. /\ pc' = [pc EXCEPT ![c] = "CloseWait"]
              /\ closes' = [closes EXCEPT ![slot[c]] = @ + 1]
          BY <1>20, <2>1 DEF TakeDead, CloseConn, Goto
        <5>2. slot[c] \in Slots
          BY <1>20 DEF TakeDead
        <5>3. closes' \in [Slots -> Nat]
          BY <5>1, <5>2, IncrementTyped
        <5>4. QED
          BY <5>1, <5>3
      <4>2. st' \in [Slots -> SlotState]
        BY <1>20 DEF TakeDead, TakeConn
      <4>3. QED
        BY <1>20, <4>1, <4>2 DEF TakeDead
    <3>2. SlotHeld'
      BY <1>20, <2>1 DEF TakeDead, Goto, TakeConn, CloseConn
    <3>3. QED
      BY <3>1, <3>2
  <2>2. CASE ~HasConn(slot[c])
    BY <1>20, <2>2 DEF TakeDead, Goto, TakeConn
  <2>3. QED
    BY <2>1, <2>2
<1>21. ASSUME NEW c \in Clients, CloseWait(c) PROVE TypeInv'
  BY <1>21 DEF CloseWait, Goto
<1>22. ASSUME NEW c \in Clients, Commit(c) PROVE TypeInv'
  BY <1>22 DEF Commit, Decremented, Leave, Goto
<1>23. ASSUME NEW c \in Clients, CancelRelease(c) PROVE TypeInv'
  BY <1>23 DEF CancelRelease, Decremented, Leave, Goto, RecyclePcs
<1>24. ASSUME NEW c \in Clients, DropTake(c) PROVE TypeInv'
  <2>1. pc[c] = "DropTake" /\ slot[c] \in Slots
    BY <1>24 DEF DropTake
  <2>2. st' \in [Slots -> SlotState] /\ reap' \in SUBSET Slots
    <3>1. CASE st[slot[c]] \in {"CheckedOut", "Recycling"}
      <4>1. st' = [st EXCEPT ![slot[c]] = "Dead"] /\ reap' = reap \cup {slot[c]}
        BY <1>24, <3>1 DEF DropTake
      <4>2. QED
        BY <2>1, <4>1
    <3>2. CASE st[slot[c]] \notin {"CheckedOut", "Recycling"}
      BY <1>24, <3>2 DEF DropTake
    <3>3. QED
      BY <3>1, <3>2
  <2>3. pc' = [pc EXCEPT ![c] = "Commit"]
    BY <1>24 DEF DropTake, Goto
  <2>4. UNCHANGED <<attempt, slot, idle, term, target, dirty, closes, inflight, shutVars>>
    BY <1>24 DEF DropTake
  <2>5. QED
    BY <2>1, <2>2, <2>3, <2>4
<1>25. ASSUME NEW s \in Slots, Reap(s) PROVE TypeInv'
  BY <1>25 DEF Reap, CloseConn
<1>26. ASSUME NEW s \in Slots, CloseIdle(s) PROVE TypeInv'
  BY <1>26 DEF CloseIdle, TakeConn, HasConn, CloseConn
<1>27. ASSUME NEW s \in Slots, ForceClaim(s) PROVE TypeInv'
  BY <1>27 DEF ForceClaim
<1>28. CASE BeginShutdown
  BY <1>28 DEF BeginShutdown
<1>29. CASE EndDrain
  BY <1>29 DEF EndDrain
<1>30. CASE TakeIdle
  BY <1>30 DEF TakeIdle
<1>31. CASE EndCloseIdle
  BY <1>31 DEF EndCloseIdle
<1>32. CASE ReadRegistry
  BY <1>32 DEF ReadRegistry
<1>33. CASE ForceTake
  <2>1. CASE HasConn(cur)
    <3>1. TypeOK'
      <4>1. closes' \in [Slots -> Nat]
        BY <1>33, <2>1, IncrementTyped DEF ForceTake, CloseConn
      <4>2. st' \in [Slots -> SlotState]
        BY <1>33 DEF ForceTake, TakeConn
      <4>3. QED
        BY <1>33, <4>1, <4>2 DEF ForceTake
    <3>2. SlotHeld'
      BY <1>33, <2>1 DEF ForceTake, TakeConn, CloseConn
    <3>3. QED
      BY <3>1, <3>2
  <2>2. CASE ~HasConn(cur)
    BY <1>33, <2>2 DEF ForceTake, TakeConn
  <2>3. QED
    BY <2>1, <2>2
<1>34. CASE ForceDec
  <2>1. inflight' \in Nat
    BY <1>34 DEF ForceDec, Decremented
  <2>2. QED
    BY <1>34, <2>1 DEF ForceDec
<1>35. CASE EndForce
  BY <1>35 DEF EndForce
<1>36. CASE Sweep
  BY <1>36 DEF Sweep
<1>37. CASE UNCHANGED vars
  BY <1>37
<1>38. QED
  BY <1>1, <1>2, <1>3, <1>4, <1>5, <1>6, <1>7, <1>8, <1>9, <1>10, <1>11, <1>12, <1>14,
     <1>15, <1>17, <1>18, <1>19, <1>20, <1>21, <1>22, <1>23, <1>24, <1>25, <1>26,
     <1>27, <1>28, <1>29, <1>30, <1>31, <1>32, <1>33, <1>34, <1>35, <1>36, <1>37
     DEF Next, AcquireStep, ReleaseStep, Shutdown

\* A client starts without a slot, and no slot has a connection.
LEMMA InitInv == Init => IInv
PROOF
<1> SUFFICES ASSUME Init PROVE IInv
  OBVIOUS
<1> USE NoSlotAssumption DEF Init
<1>1. TypeInv
  <2>1. TypeOK
    <3>1. pc \in [Clients -> ClientPc] /\ attempt \in [Clients -> 0..2]
      BY DEF ClientPc
    <3>2. idle \in Seq(Slots)
      OBVIOUS
    <3>3. st \in [Slots -> SlotState] /\ closes \in [Slots -> Nat] /\ spc \in ShutdownPc
      BY DEF SlotState, ShutdownPc
    <3>4. QED
      BY <3>1, <3>2, <3>3 DEF TypeOK
  <2>2. SlotHeld
    BY DEF SlotHeld, SlotPcs, NoSlotPcs, TokenPcs, RecyclePcs
  <2>3. QED
    BY <2>1, <2>2 DEF TypeInv
<1>2. SlotExclusive
  BY DEF SlotExclusive, InIdle
<1>3. ConnOwned /\ ContextClean
  BY DEF ConnOwned, HasConn, ContextClean, CleanCheckout
<1>4. PermitsKept /\ PlacesKept /\ InflightExact
  <2>1. Holders = {} /\ Placed = {} /\ Counted = {} /\ Len(idle) = 0 /\ inflight = 0
    BY DEF Holders, Placed, Counted, TokenPcs, RecyclePcs
  <2>2. IsFiniteSet({}) /\ Cardinality({}) = 0
    BY FS_EmptySet
  <2>3. QED
    BY <2>1, <2>2, SizeAssumption DEF PermitsKept, PlacesKept, InflightExact
<1>5. GuardsOwnTerm /\ TakenApart /\ Connected
  BY DEF GuardsOwnTerm, TakenApart, Connected, InIdle, ConnPcs
<1>6. QED
  BY <1>1, <1>2, <1>3, <1>4, <1>5 DEF IInv

-----------------------------------------------------------------------------
\* How the steps treat slot references and the free list: they leave both
\* alone, drop one reference, empty the list, or move a slot in or out.
LEMMA ReferenceSteps ==
  ASSUME TypeInv, [Next]_vars
  PROVE  \/ UNCHANGED <<idle, slot>>
         \/ \E c \in Clients : idle' = idle /\ slot' = [slot EXCEPT ![c] = NoSlot]
         \/ idle' = <<>> /\ slot' = slot
         \/ \E c \in Clients : PopIdle(c) \/ CreateSlot(c) \/ PushBack(c)
PROOF
<1> USE DEF slotVars, shutVars, clientVars
<1>1. ASSUME NEW c \in Clients,
             \/ Request(c) \/ GetPermit(c) \/ PopNone(c) \/ CountInflight(c)
             \/ RecordTarget(c) \/ Snapshot(c) \/ CloseTarget(c) \/ DisposeCtx(c)
             \/ RenewCtx(c) \/ TakeDead(c) \/ CloseWait(c) \/ DropTake(c)
      PROVE  UNCHANGED <<idle, slot>>
  BY <1>1 DEF Request, GetPermit, PopNone, CountInflight, RecordTarget, Snapshot,
     CloseTarget, DisposeCtx, RenewCtx, Recycle, TakeDead, CloseWait, DropTake
<1>2. ASSUME NEW c \in Clients,
             \/ GiveUpWaiting(c) \/ StaleCheck(c) \/ HealthCheck(c) \/ AbandonAcquire(c)
             \/ CheckOut(c) \/ Release(c) \/ DropGuard(c) \/ Commit(c) \/ CancelRelease(c)
      PROVE  \/ UNCHANGED <<idle, slot>>
             \/ idle' = idle /\ slot' = [slot EXCEPT ![c] = NoSlot]
  BY <1>2 DEF GiveUpWaiting, StaleCheck, HealthCheck, AbandonAcquire, CheckOut, Release,
     DropGuard, Claim, Commit, CancelRelease, Leave, RetryOrFail
<1>3. ASSUME \/ BeginShutdown \/ EndDrain \/ EndCloseIdle \/ ReadRegistry
             \/ ForceTake \/ ForceDec \/ EndForce
             \/ \E s \in Slots : Reap(s) \/ CloseIdle(s) \/ ForceClaim(s)
      PROVE  UNCHANGED <<idle, slot>>
  BY <1>3 DEF BeginShutdown, EndDrain, EndCloseIdle, ReadRegistry, ForceTake, ForceDec,
     EndForce, Reap, CloseIdle, ForceClaim
<1>4. CASE TakeIdle \/ Sweep
  BY <1>4 DEF TakeIdle, Sweep
<1>5. CASE UNCHANGED vars
  BY <1>5 DEF vars
<1>6. QED
  BY <1>1, <1>2, <1>3, <1>4, <1>5 DEF Next, AcquireStep, ReleaseStep, Shutdown

\* A slot that leaves the free list is no longer in it; the others keep their
\* order.
LEMMA ExclusiveStep ==
  ASSUME TypeInv, SlotExclusive, [Next]_vars PROVE SlotExclusive'
PROOF
<1> USE NoSlotAssumption DEF SlotExclusive, InIdle, TypeInv, TypeOK
<1>1. CASE UNCHANGED <<idle, slot>>
  BY <1>1
<1>2. ASSUME NEW c \in Clients, idle' = idle, slot' = [slot EXCEPT ![c] = NoSlot]
      PROVE  SlotExclusive'
  BY <1>2
<1>3. CASE idle' = <<>> /\ slot' = slot
  BY <1>3
<1>4. ASSUME NEW c \in Clients, PopIdle(c) PROVE SlotExclusive'
  <2>1. /\ idle # <<>>
        /\ slot' = [slot EXCEPT ![c] = Head(idle)]
        /\ idle' = Tail(idle)
    BY <1>4 DEF PopIdle
  <2>2. /\ Len(idle) > 0 /\ Head(idle) = idle[1]
        /\ DOMAIN idle' = 1 .. Len(idle) - 1
        /\ \A i \in DOMAIN idle' : i + 1 \in DOMAIN idle /\ idle'[i] = idle[i + 1]
    BY <2>1
  <2>3. \A i, j \in DOMAIN idle' : idle'[i] = idle'[j] => i = j
    BY <2>2
  <2>4. \A d \in Clients : ~InIdle(slot[d])'
    BY <2>1, <2>2
  <2>5. \A d, e \in Clients : slot'[d] = slot'[e] => d = e \/ slot'[d] = NoSlot
    BY <2>1, <2>2
  <2>6. QED
    BY <2>3, <2>4, <2>5
<1>5. ASSUME NEW c \in Clients, CreateSlot(c) PROVE SlotExclusive'
  BY <1>5 DEF CreateSlot, Held
<1>6. ASSUME NEW c \in Clients, PushBack(c) PROVE SlotExclusive'
  <2>1. /\ slot[c] \in Slots
        /\ slot' = [slot EXCEPT ![c] = NoSlot]
        /\ idle' = Append(idle, slot[c])
    BY <1>6 DEF PushBack, SlotHeld, SlotPcs, TokenPcs
  <2>2. /\ DOMAIN idle' = 1 .. Len(idle) + 1
        /\ \A i \in DOMAIN idle : idle'[i] = idle[i]
        /\ idle'[Len(idle) + 1] = slot[c]
        /\ \A i \in DOMAIN idle' : i \in DOMAIN idle \/ i = Len(idle) + 1
    BY <2>1
  <2>3. \A i, j \in DOMAIN idle' : idle'[i] = idle'[j] => i = j
    <3>1. \A i \in DOMAIN idle : idle[i] # slot[c]
      OBVIOUS
    <3>2. QED
      BY <2>2, <3>1
  <2>4. \A d \in Clients : ~InIdle(slot[d])'
    BY <2>1, <2>2
  <2>5. QED
    BY <2>1, <2>3, <2>4
<1>7. QED
  BY <1>1, <1>2, <1>3, <1>4, <1>5, <1>6, ReferenceSteps

-----------------------------------------------------------------------------
\* The three ways a connection leaves its slot.
LEMMA MarkDeadOwned ==
  ASSUME TypeOK, ConnOwned, NEW s \in Slots, MarkDead(s), UNCHANGED closes
  PROVE  ConnOwned'
PROOF BY DEF TypeOK, ConnOwned, HasConn, MarkDead, TakeConn

LEMMA TakeAndCloseOwned ==
  ASSUME TypeOK, ConnOwned, NEW s \in Slots, TakeConn(s), UNCHANGED reap,
         IF HasConn(s) THEN CloseConn(s) ELSE UNCHANGED closes
  PROVE  ConnOwned'
PROOF
<1> USE DEF TypeOK, ConnOwned
<1>1. CASE HasConn(s)
  <2>1. /\ \A r \in Slots \ {s} : closes'[r] = closes[r] /\ (HasConn(r)' => HasConn(r))
        /\ closes'[s] = 1 /\ s \notin reap /\ ~HasConn(s)'
    BY <1>1 DEF HasConn, TakeConn, CloseConn
  <2>2. QED
    BY <2>1
<1>2. CASE ~HasConn(s)
  <2>1. \A r \in Slots : HasConn(r)' => HasConn(r)
    BY <1>2 DEF HasConn, TakeConn
  <2>2. QED
    BY <1>2, <2>1
<1>3. QED
  BY <1>1, <1>2

\* A step that puts no connection into a slot, closes none and starts no close
\* task.
LEMMA UntouchedOwned ==
  ASSUME ConnOwned, UNCHANGED <<closes, reap>>, \A s \in Slots : HasConn(s)' => HasConn(s)
  PROVE  ConnOwned'
PROOF BY DEF ConnOwned

LEMMA OwnedStep ==
  ASSUME TypeInv, ConnOwned, [Next]_vars PROVE ConnOwned'
PROOF
<1> USE DEF TypeInv, clientVars, slotVars, shutVars
<1>1. ASSUME NEW c \in Clients,
             \/ Request(c) \/ GetPermit(c) \/ GiveUpWaiting(c) \/ PopIdle(c) \/ PopNone(c)
             \/ AbandonAcquire(c) \/ CountInflight(c) \/ RecordTarget(c)
             \/ Release(c) \/ DropGuard(c) \/ PushBack(c) \/ CloseWait(c)
             \/ Commit(c) \/ CancelRelease(c)
      PROVE  ConnOwned'
  <2>1. UNCHANGED <<st, closes, reap>>
    BY <1>1 DEF Request, GetPermit, GiveUpWaiting, PopIdle, PopNone, AbandonAcquire,
       CountInflight, RecordTarget, Release, DropGuard, Claim, PushBack, CloseWait,
       Commit, CancelRelease
  <2>2. QED
    BY <2>1, UntouchedOwned DEF HasConn
<1>2. ASSUME NEW c \in Clients, StaleCheck(c) \/ HealthCheck(c) PROVE ConnOwned'
  <2>1. slot[c] \in Slots
    BY <1>2 DEF StaleCheck, HealthCheck, SlotHeld, SlotPcs
  <2>2. UNCHANGED closes /\ (UNCHANGED <<st, reap>> \/ MarkDead(slot[c]))
    BY <1>2 DEF StaleCheck, HealthCheck
  <2>3. CASE UNCHANGED <<st, reap>>
    BY <2>2, <2>3, UntouchedOwned DEF HasConn
  <2>4. QED
    BY <2>1, <2>2, <2>3, MarkDeadOwned
<1>3. ASSUME NEW c \in Clients, CreateSlot(c) PROVE ConnOwned'
  BY <1>3 DEF CreateSlot, ConnOwned, HasConn, TypeOK
<1>4. ASSUME NEW c \in Clients,
             \/ CheckOut(c) \/ Snapshot(c) \/ CloseTarget(c) \/ DisposeCtx(c) \/ RenewCtx(c)
      PROVE  ConnOwned'
  <2>1. UNCHANGED <<closes, reap>>
    BY <1>4 DEF CheckOut, Snapshot, CloseTarget, DisposeCtx, RenewCtx, Recycle
  <2>2. \A s \in Slots : HasConn(s)' => HasConn(s)
    <3>1. CASE CheckOut(c) \/ Snapshot(c)
      BY <3>1 DEF CheckOut, Snapshot, HasConn, TypeOK
    <3>2. CASE CloseTarget(c) \/ DisposeCtx(c) \/ RenewCtx(c)
      BY <3>2 DEF CloseTarget, DisposeCtx, RenewCtx, Recycle, HasConn, TypeOK
    <3>3. QED
      BY <1>4, <3>1, <3>2
  <2>3. QED
    BY <2>1, <2>2, UntouchedOwned
<1>5. ASSUME NEW c \in Clients, TakeDead(c) PROVE ConnOwned'
  <2>1. slot[c] \in Slots
    BY <1>5 DEF TakeDead, SlotHeld, SlotPcs, TokenPcs
  <2>2. /\ TakeConn(slot[c]) /\ UNCHANGED reap
        /\ IF HasConn(slot[c]) THEN CloseConn(slot[c]) ELSE UNCHANGED closes
    BY <1>5 DEF TakeDead
  <2>3. QED
    BY <2>1, <2>2, TakeAndCloseOwned
<1>6. ASSUME NEW c \in Clients, DropTake(c) PROVE ConnOwned'
  BY <1>6 DEF DropTake, ConnOwned, HasConn, TypeOK
<1>7. ASSUME NEW s \in Slots, Reap(s) PROVE ConnOwned'
  <2>1. /\ \A r \in Slots \ {s} : closes'[r] = closes[r]
        /\ closes'[s] = 1 /\ reap' = reap \ {s} /\ ~HasConn(s) /\ UNCHANGED st
    BY <1>7 DEF Reap, CloseConn, ConnOwned, TypeOK
  <2>2. QED
    BY <2>1 DEF ConnOwned, HasConn
<1>8. ASSUME NEW s \in Slots, CloseIdle(s) PROVE ConnOwned'
  BY <1>8, TakeAndCloseOwned DEF CloseIdle
<1>9. CASE ForceTake
  BY <1>9, TakeAndCloseOwned DEF ForceTake, SlotHeld
<1>10. CASE \/ BeginShutdown \/ EndDrain \/ TakeIdle \/ EndCloseIdle \/ ReadRegistry
            \/ ForceDec \/ EndForce \/ Sweep \/ UNCHANGED vars
            \/ \E s \in Slots : ForceClaim(s)
  <2>1. UNCHANGED <<st, closes, reap>>
    BY <1>10 DEF BeginShutdown, EndDrain, TakeIdle, EndCloseIdle, ReadRegistry,
       ForceDec, EndForce, Sweep, ForceClaim, vars
  <2>2. QED
    BY <2>1, UntouchedOwned DEF HasConn
<1>11. QED
  BY <1>1, <1>2, <1>3, <1>4, <1>5, <1>6, <1>7, <1>8, <1>9, <1>10
     DEF Next, AcquireStep, ReleaseStep, Shutdown

-----------------------------------------------------------------------------
\* A step that neither moves a client to a place where its context matters, nor
\* makes a slot idle or a context dirty.
LEMMA UntouchedClean ==
  ASSUME TypeInv, ContextClean,
         \A s \in Slots : /\ st'[s] = "Idle" => st[s] = "Idle"
                          /\ dirty'[s] = dirty[s],
         \A c \in Clients : pc'[c] \in {"Count", "Using", "Snapshot"} =>
                              /\ pc[c] \in {"Count", "Using", "Snapshot"}
                              /\ pc'[c] = "Count" => pc[c] = "Count"
                              /\ slot'[c] = slot[c]
  PROVE  ContextClean'
PROOF
<1> USE DEF TypeInv, TypeOK, SlotHeld, SlotPcs, TokenPcs, ContextClean, CleanCheckout
<1>1. \A c \in Clients : pc[c] \in {"Count", "Using", "Snapshot"} => slot[c] \in Slots
  OBVIOUS
<1>2. QED
  BY <1>1

LEMMA CleanStep ==
  ASSUME TypeInv, SlotExclusive, ContextClean, [Next]_vars PROVE ContextClean'
PROOF
<1> USE DEF TypeInv, TypeOK, clientVars, slotVars, shutVars
<1>1. ASSUME NEW c \in Clients,
             \/ Request(c) \/ GetPermit(c) \/ GiveUpWaiting(c) \/ PopIdle(c) \/ PopNone(c)
             \/ AbandonAcquire(c) \/ CountInflight(c) \/ Release(c) \/ DropGuard(c)
             \/ PushBack(c) \/ CloseWait(c) \/ Commit(c) \/ CancelRelease(c)
      PROVE  ContextClean'
  <2>1. UNCHANGED <<st, dirty>>
    BY <1>1 DEF Request, GetPermit, GiveUpWaiting, PopIdle, PopNone, AbandonAcquire,
       CountInflight, Release, DropGuard, Claim, PushBack, CloseWait, Commit, CancelRelease
  <2>2. CASE CountInflight(c) \/ Release(c) \/ DropGuard(c)
    BY <2>1, <2>2, UntouchedClean DEF CountInflight, Release, DropGuard, Claim, Leave, Goto
  <2>3. CASE ~(CountInflight(c) \/ Release(c) \/ DropGuard(c))
    BY <1>1, <2>1, <2>3, UntouchedClean DEF Request, GetPermit, GiveUpWaiting, PopIdle,
       PopNone, AbandonAcquire, PushBack, CloseWait, Commit, CancelRelease, Leave, Goto
  <2>4. QED
    BY <2>2, <2>3
<1>2. ASSUME NEW c \in Clients, StaleCheck(c) \/ HealthCheck(c) PROVE ContextClean'
  <2>1. PICK l \in {"CheckOut", "Health", "Pop", "Out"} : pc' = [pc EXCEPT ![c] = l]
    BY <1>2 DEF StaleCheck, HealthCheck, RetryOrFail, Goto
  <2>2. \A d \in Clients \ {c} : slot'[d] = slot[d]
    BY <1>2 DEF StaleCheck, HealthCheck, RetryOrFail
  <2>3. UNCHANGED dirty /\ \A s \in Slots : st'[s] = "Idle" => st[s] = "Idle"
    BY <1>2 DEF StaleCheck, HealthCheck, MarkDead, TakeConn
  <2>4. QED
    BY <2>1, <2>2, <2>3, UntouchedClean
<1>3. ASSUME NEW c \in Clients, CreateSlot(c) PROVE ContextClean'
  <2>1. PICK s \in Slots : /\ ~Held(s)
                           /\ slot' = [slot EXCEPT ![c] = s]
                           /\ st' = [st EXCEPT ![s] = "Idle"]
                           /\ dirty' = [dirty EXCEPT ![s] = FALSE]
    BY <1>3 DEF CreateSlot
  <2>2. \A d \in Clients : slot[d] # s
    BY <2>1 DEF Held
  <2>3. pc' = [pc EXCEPT ![c] = "CheckOut"]
    BY <1>3 DEF CreateSlot, Goto
  <2>4. QED
    BY <2>1, <2>2, <2>3 DEF ContextClean, CleanCheckout
<1>4. ASSUME NEW c \in Clients, CheckOut(c) PROVE ContextClean'
  <2>1. CASE st[slot[c]] = "Idle"
    <3>1. /\ slot[c] \in Slots
          /\ st' = [st EXCEPT ![slot[c]] = "CheckedOut"]
          /\ pc' = [pc EXCEPT ![c] = "Count"]
          /\ UNCHANGED <<slot, dirty>>
      BY <1>4, <2>1 DEF CheckOut, Goto, SlotHeld, SlotPcs
    <3>2. \A d \in Clients \ {c} : pc'[d] = pc[d]
      BY <3>1
    <3>3. ~dirty[slot[c]]
      BY <2>1, <3>1 DEF ContextClean
    <3>4. QED
      BY <3>1, <3>2, <3>3 DEF ContextClean, CleanCheckout
  <2>2. CASE st[slot[c]] # "Idle"
    BY <1>4, <2>2, UntouchedClean DEF CheckOut, RetryOrFail, Goto
  <2>3. QED
    BY <2>1, <2>2
<1>5. ASSUME NEW c \in Clients, RecordTarget(c) PROVE ContextClean'
  <2>1. /\ pc[c] = "Using" /\ slot[c] \in Slots
        /\ dirty' = [dirty EXCEPT ![slot[c]] = TRUE]
        /\ UNCHANGED <<pc, slot, st>>
    BY <1>5 DEF RecordTarget, SlotHeld, SlotPcs
  <2>2. st[slot[c]] # "Idle"
    BY <2>1 DEF ContextClean
  <2>3. \A d \in Clients : pc[d] = "Count" => slot[d] # slot[c]
    BY <2>1, NoSlotAssumption DEF SlotExclusive
  <2>4. QED
    BY <2>1, <2>2, <2>3 DEF ContextClean, CleanCheckout
<1>6. ASSUME NEW c \in Clients,
             Snapshot(c) \/ TakeDead(c) \/ DropTake(c) \/ CloseTarget(c) \/ DisposeCtx(c)
      PROVE  ContextClean'
  <2>1. /\ UNCHANGED <<slot, dirty>>
        /\ \A s \in Slots : st'[s] = "Idle" => st[s] = "Idle"
    BY <1>6 DEF Snapshot, TakeDead, TakeConn, DropTake, CloseTarget, DisposeCtx, Recycle
  <2>2. PICK l \in TokenPcs \ {"Snapshot"} : pc' = [pc EXCEPT ![c] = l]
    BY <1>6 DEF Snapshot, TakeDead, DropTake, CloseTarget, DisposeCtx, Recycle, Goto,
       TokenPcs, RecyclePcs
  <2>3. QED
    BY <2>1, <2>2, UntouchedClean DEF TokenPcs, RecyclePcs
<1>7. ASSUME NEW c \in Clients, RenewCtx(c) PROVE ContextClean'
  <2>1. slot[c] \in Slots /\ pc[c] = "Renew" /\ UNCHANGED slot
    BY <1>7 DEF RenewCtx, Recycle, SlotHeld, SlotPcs, TokenPcs, RecyclePcs
  <2>2. CASE pc' = [pc EXCEPT ![c] = "PushBack"]
    <3>1. /\ dirty' = [dirty EXCEPT ![slot[c]] = FALSE]
          /\ st' = [st EXCEPT ![slot[c]] = "Idle"]
      BY <1>7, <2>1, <2>2 DEF RenewCtx, Recycle, Goto
    <3>2. \A d \in Clients \ {c} : slot[d] # slot[c]
      BY <2>1, NoSlotAssumption DEF SlotExclusive
    <3>3. QED
      BY <2>1, <2>2, <3>1, <3>2 DEF ContextClean, CleanCheckout
  <2>3. CASE pc' # [pc EXCEPT ![c] = "PushBack"]
    <3>1. PICK l \in {"Commit", "TakeDead"} : pc' = [pc EXCEPT ![c] = l]
      BY <1>7, <2>3 DEF RenewCtx, Recycle, Goto
    <3>2. \A s \in Slots : st'[s] = "Idle" => st[s] = "Idle"
      BY <1>7, <2>3 DEF RenewCtx, Recycle, Goto
    <3>3. UNCHANGED dirty
      BY <1>7, <2>1, <3>1 DEF RenewCtx
    <3>4. QED
      BY <2>1, <3>1, <3>2, <3>3, UntouchedClean
  <2>4. QED
    BY <2>2, <2>3
<1>8. CASE \/ BeginShutdown \/ EndDrain \/ TakeIdle \/ EndCloseIdle \/ ReadRegistry
           \/ ForceTake \/ ForceDec \/ EndForce \/ Sweep \/ UNCHANGED vars
           \/ \E s \in Slots : Reap(s) \/ CloseIdle(s) \/ ForceClaim(s)
  <2>1. /\ UNCHANGED <<pc, slot, dirty>>
        /\ \A s \in Slots : st'[s] = "Idle" => st[s] = "Idle"
    BY <1>8 DEF BeginShutdown, EndDrain, TakeIdle, EndCloseIdle, ReadRegistry, ForceTake,
       ForceDec, EndForce, Sweep, Reap, CloseIdle, ForceClaim, TakeConn, vars
  <2>2. QED
    BY <2>1, UntouchedClean
<1>9. QED
  BY <1>1, <1>2, <1>3, <1>4, <1>5, <1>6, <1>7, <1>8
     DEF Next, AcquireStep, ReleaseStep, Shutdown

-----------------------------------------------------------------------------
\* A set that gains or loses at most one element.
LEMMA CountOne ==
  ASSUME NEW S, NEW T, NEW c, IsFiniteSet(S), T \ {c} = S \ {c}
  PROVE  /\ IsFiniteSet(T) /\ Cardinality(S) \in Nat /\ Cardinality(T) \in Nat
         /\ Cardinality(T) = (Cardinality(S) - (IF c \in S THEN 1 ELSE 0))
                             + (IF c \in T THEN 1 ELSE 0)
PROOF
<1>1. /\ IsFiniteSet(S \ {c}) /\ Cardinality(S) \in Nat
      /\ Cardinality(S \ {c}) = Cardinality(S) - (IF c \in S THEN 1 ELSE 0)
  <2>1. Cardinality(S) \in Nat
    BY FS_CardinalityType
  <2>2. /\ IsFiniteSet(S \ {c})
        /\ Cardinality(S \ {c}) = IF c \in S THEN Cardinality(S) - 1 ELSE Cardinality(S)
    BY FS_RemoveElement
  <2>3. QED
    BY <2>1, <2>2
<1>2. CASE c \in T
  <2>1. T = (S \ {c}) \cup {c} /\ c \notin S \ {c}
    BY <1>2
  <2>2. IsFiniteSet(T) /\ Cardinality(T) = Cardinality(S \ {c}) + 1
    BY <1>1, <2>1, FS_AddElement
  <2>3. Cardinality(T) \in Nat
    BY <2>2, FS_CardinalityType
  <2>4. QED
    BY <1>1, <1>2, <2>2, <2>3
<1>3. CASE c \notin T
  <2>1. T = S \ {c}
    BY <1>3
  <2>2. Cardinality(T) \in Nat
    BY <1>1, <2>1, FS_CardinalityType
  <2>3. QED
    BY <1>1, <1>3, <2>1, <2>2
<1>4. QED
  BY <1>2, <1>3

\* A step of a client leaves the place and the slot of the others alone.
OthersKept(c) == \A d \in Clients \ {c} : pc'[d] = pc[d] /\ slot'[d] = slot[d]

ClientStep(c) ==
  \/ Request(c) \/ GetPermit(c) \/ GiveUpWaiting(c) \/ AcquireStep(c) \/ AbandonAcquire(c)
  \/ RecordTarget(c) \/ Release(c) \/ DropGuard(c) \/ ReleaseStep(c) \/ CancelRelease(c)

LEMMA ClientStepKeepsOthers ==
  ASSUME TypeInv, NEW c \in Clients, ClientStep(c)
  PROVE  OthersKept(c)
PROOF
<1> USE DEF TypeInv, TypeOK, OthersKept, Goto, Leave, clientVars
<1>1. CASE Request(c) \/ GetPermit(c) \/ GiveUpWaiting(c) \/ AbandonAcquire(c) \/ RecordTarget(c)
  BY <1>1 DEF Request, GetPermit, GiveUpWaiting, AbandonAcquire, RecordTarget
<1>2. CASE PopIdle(c) \/ PopNone(c) \/ CreateSlot(c) \/ CountInflight(c)
  BY <1>2 DEF PopIdle, PopNone, CreateSlot, CountInflight
<1>3. CASE StaleCheck(c) \/ HealthCheck(c) \/ CheckOut(c)
  BY <1>3 DEF StaleCheck, HealthCheck, CheckOut, RetryOrFail
<1>4. CASE Release(c) \/ DropGuard(c) \/ Commit(c) \/ CancelRelease(c)
  BY <1>4 DEF Release, DropGuard, Claim, Commit, CancelRelease
<1>5. CASE Snapshot(c) \/ PushBack(c) \/ TakeDead(c) \/ CloseWait(c) \/ DropTake(c)
  BY <1>5 DEF Snapshot, PushBack, TakeDead, CloseWait, DropTake
<1>6. CASE CloseTarget(c) \/ DisposeCtx(c) \/ RenewCtx(c)
  BY <1>6 DEF CloseTarget, DisposeCtx, RenewCtx, Recycle
<1>7. QED
  BY <1>1, <1>2, <1>3, <1>4, <1>5, <1>6 DEF ClientStep, AcquireStep, ReleaseStep

\* Every other step leaves all clients where they are, and the free list is
\* kept or emptied.
LEMMA OtherSteps ==
  ASSUME [Next]_vars
  PROVE  \/ \E c \in Clients : ClientStep(c)
         \/ UNCHANGED <<pc, slot>> /\ (idle' = idle \/ idle' = <<>>)
PROOF
<1>1. CASE \E s \in Slots : Reap(s) \/ CloseIdle(s) \/ ForceClaim(s)
  BY <1>1 DEF Reap, CloseIdle, ForceClaim, clientVars
<1>2. CASE \/ BeginShutdown \/ EndDrain \/ TakeIdle \/ EndCloseIdle \/ ReadRegistry
           \/ ForceTake \/ ForceDec \/ EndForce \/ Sweep
  BY <1>2 DEF BeginShutdown, EndDrain, TakeIdle, EndCloseIdle, ReadRegistry, ForceTake,
     ForceDec, EndForce, Sweep, clientVars
<1>3. QED
  BY <1>1, <1>2 DEF Next, Shutdown, ClientStep, vars, clientVars

-----------------------------------------------------------------------------
\* Whether a step of client c lets it hold a permit, or a place, it did not have.
LEMMA PermitSteps ==
  ASSUME TypeInv, NEW c \in Clients, ClientStep(c), c \in Holders'
  PROVE  c \in Holders \/ Cardinality(Holders) < Size
PROOF
<1> USE DEF TypeInv, TypeOK, Holders, Goto, Leave, clientVars
<1>1. CASE Request(c) \/ GetPermit(c) \/ GiveUpWaiting(c) \/ AbandonAcquire(c) \/ RecordTarget(c)
  BY <1>1 DEF Request, GetPermit, GiveUpWaiting, AbandonAcquire, RecordTarget
<1>2. CASE ~(pc[c] \in {"Out", "Waiting"})
  BY <1>2
<1>3. CASE AcquireStep(c) \/ Release(c) \/ DropGuard(c) \/ ReleaseStep(c) \/ CancelRelease(c)
  <2>1. ~(pc[c] \in {"Out", "Waiting"})
    BY <1>3 DEF AcquireStep, PopIdle, PopNone, StaleCheck, HealthCheck, CreateSlot, CheckOut,
       CountInflight, Release, DropGuard, Claim, ReleaseStep, Snapshot, CloseTarget, DisposeCtx,
       RenewCtx, Recycle, PushBack, TakeDead, CloseWait, Commit, DropTake, CancelRelease,
       RecyclePcs
  <2>2. QED
    BY <2>1
<1>4. QED
  BY <1>1, <1>3 DEF ClientStep

\* The permits are kept: a client enters only while one is free.
LEMMA PermitsStep ==
  ASSUME TypeInv, PermitsKept, [Next]_vars PROVE PermitsKept'
PROOF
<1>1. CASE UNCHANGED <<pc, slot>>
  BY <1>1 DEF PermitsKept, Holders
<1>2. ASSUME NEW c \in Clients, ClientStep(c) PROVE PermitsKept'
  <2>1. OthersKept(c)
    BY <1>2, ClientStepKeepsOthers
  <2>2. Holders' \ {c} = Holders \ {c}
    BY <2>1 DEF OthersKept, Holders
  <2>3. IsFiniteSet(Holders) /\ Cardinality(Holders) <= Size
    BY DEF PermitsKept
  <2>4. /\ IsFiniteSet(Holders') /\ Cardinality(Holders) \in Nat /\ Cardinality(Holders') \in Nat
        /\ Cardinality(Holders') = (Cardinality(Holders) - (IF c \in Holders THEN 1 ELSE 0))
                                   + (IF c \in Holders' THEN 1 ELSE 0)
    BY <2>2, <2>3, CountOne
  <2>5. c \in Holders' => c \in Holders \/ Cardinality(Holders) < Size
    BY <1>2, PermitSteps
  <2>6. Cardinality(Holders') <= Size
    BY <2>3, <2>4, <2>5, SizeAssumption
  <2>7. QED
    BY <2>4, <2>6 DEF PermitsKept
<1>3. QED
  BY <1>1, <1>2, OtherSteps

-----------------------------------------------------------------------------
\* A step of client c moves a slot between the free list and its hands, takes a
\* place when the free list is empty, or takes no place.
LEMMA PlaceSteps ==
  ASSUME TypeInv, NEW c \in Clients, ClientStep(c)
  PROVE  \/ idle' = idle /\ (c \in Placed' => c \in Placed)
         \/ PopIdle(c)
         \/ PushBack(c)
         \/ PopNone(c)
PROOF
<1> USE DEF TypeInv, TypeOK, Placed, Goto, Leave, clientVars
<1>1. CASE Request(c) \/ GetPermit(c) \/ GiveUpWaiting(c) \/ AbandonAcquire(c) \/ RecordTarget(c)
  BY <1>1 DEF Request, GetPermit, GiveUpWaiting, AbandonAcquire, RecordTarget
<1>2. CASE CreateSlot(c) \/ CountInflight(c)
  BY <1>2 DEF CreateSlot, CountInflight
<1>3. CASE StaleCheck(c) \/ HealthCheck(c) \/ CheckOut(c)
  BY <1>3 DEF StaleCheck, HealthCheck, CheckOut, RetryOrFail
<1>4. CASE Release(c) \/ DropGuard(c) \/ Commit(c) \/ CancelRelease(c)
  <2>1. idle' = idle
    BY <1>4 DEF Release, DropGuard, Claim, Commit, CancelRelease
  <2>2. pc'[c] # "Create"
    BY <1>4 DEF Release, DropGuard, Claim, Commit, CancelRelease
  <2>3. slot'[c] # NoSlot => slot[c] # NoSlot
    BY <1>4 DEF Release, DropGuard, Claim, Commit, CancelRelease
  <2>4. QED
    BY <2>1, <2>2, <2>3
<1>5. CASE Snapshot(c) \/ TakeDead(c) \/ CloseWait(c) \/ DropTake(c)
  BY <1>5 DEF Snapshot, TakeDead, CloseWait, DropTake
<1>6. CASE CloseTarget(c) \/ DisposeCtx(c) \/ RenewCtx(c)
  BY <1>6 DEF CloseTarget, DisposeCtx, RenewCtx, Recycle
<1>7. QED
  BY <1>1, <1>2, <1>3, <1>4, <1>5, <1>6 DEF ClientStep, AcquireStep, ReleaseStep

\* Only a client that holds a permit has a place.
LEMMA PlacedHold == ASSUME TypeInv PROVE Placed \subseteq Holders
PROOF BY DEF TypeInv, SlotHeld, NoSlotPcs, Placed, Holders

\* The places are kept: the one new place is taken by a client that saw the
\* free list empty, and then no more have a place than have a permit.
LEMMA PlacesStep ==
  ASSUME TypeInv, PermitsKept, PermitsKept', TypeInv', PlacesKept, [Next]_vars
  PROVE  PlacesKept'
PROOF
<1>0. /\ IsFiniteSet(Placed) /\ Cardinality(Placed) \in Nat
      /\ IsFiniteSet(Placed') /\ Cardinality(Placed') \in Nat /\ Cardinality(Placed') <= Size
      /\ Len(idle) \in Nat /\ Len(idle') \in Nat
      /\ Len(idle) + Cardinality(Placed) <= Size
  <2>1. IsFiniteSet(Placed)
    BY PlacedHold, FS_Subset DEF PermitsKept
  <2>2. Placed' \subseteq Holders'
    BY DEF TypeInv, SlotHeld, NoSlotPcs, Placed, Holders
  <2>3. /\ IsFiniteSet(Placed') /\ Cardinality(Placed') <= Cardinality(Holders')
        /\ Cardinality(Holders') \in Nat
    BY <2>2, FS_Subset, FS_CardinalityType DEF PermitsKept
  <2>4. Cardinality(Placed) \in Nat /\ Cardinality(Placed') \in Nat
    BY <2>1, <2>3, FS_CardinalityType
  <2>5. Cardinality(Placed') <= Size
    BY <2>3, <2>4, SizeAssumption DEF PermitsKept
  <2>6. Len(idle) \in Nat /\ Len(idle') \in Nat
    BY DEF TypeInv, TypeOK
  <2>7. QED
    BY <2>1, <2>3, <2>4, <2>5, <2>6 DEF PlacesKept
<1>1. CASE UNCHANGED <<pc, slot>> /\ (idle' = idle \/ idle' = <<>>)
  <2>1. Placed' = Placed
    BY <1>1 DEF Placed
  <2>2. Len(idle') <= Len(idle)
    BY <1>0, <1>1
  <2>3. QED
    BY <1>0, <2>1, <2>2, SizeAssumption DEF PlacesKept
<1>2. ASSUME NEW c \in Clients, ClientStep(c) PROVE PlacesKept'
  <2>1. OthersKept(c)
    BY <1>2, ClientStepKeepsOthers
  <2>2. Placed' \ {c} = Placed \ {c}
    BY <2>1 DEF OthersKept, Placed
  <2>3. Cardinality(Placed') = (Cardinality(Placed) - (IF c \in Placed THEN 1 ELSE 0))
                               + (IF c \in Placed' THEN 1 ELSE 0)
    BY <1>0, <2>2, CountOne
  <2>4. CASE idle' = idle /\ (c \in Placed' => c \in Placed)
    BY <1>0, <2>3, <2>4, SizeAssumption DEF PlacesKept
  <2>5. CASE PopIdle(c)
    <3>1. Len(idle') = Len(idle) - 1
      BY <2>5 DEF PopIdle, TypeInv, TypeOK
    <3>2. c \notin Placed
      BY <2>5 DEF PopIdle, TypeInv, SlotHeld, NoSlotPcs, Placed
    <3>3. QED
      BY <1>0, <2>3, <3>1, <3>2, SizeAssumption DEF PlacesKept
  <2>6. CASE PushBack(c)
    <3>1. Len(idle') = Len(idle) + 1
      BY <2>6 DEF PushBack, TypeInv, TypeOK
    <3>2. c \in Placed
      BY <2>6, NoSlotAssumption DEF PushBack, TypeInv, SlotHeld, SlotPcs, TokenPcs, Placed
    <3>3. c \notin Placed'
      BY <2>6 DEF PushBack, Goto, TypeInv, TypeOK, Placed
    <3>4. QED
      BY <1>0, <2>3, <3>1, <3>2, <3>3, SizeAssumption DEF PlacesKept
  <2>7. CASE PopNone(c)
    <3>1. Len(idle') = 0
      BY <2>7 DEF PopNone
    <3>2. QED
      BY <1>0, <3>1, SizeAssumption DEF PlacesKept
  <2>8. QED
    BY <1>2, <2>4, <2>5, <2>6, <2>7, PlaceSteps
<1>3. QED
  BY <1>1, <1>2, OtherSteps

\* Every pooled slot is in a place of the free list or of a client.
LEMMA PooledPlaced ==
  ASSUME TypeInv, PermitsKept, PlacesKept PROVE PoolBound
PROOF
<1> DEFINE InHand  == {s \in Slots : \E c \in Clients : slot[c] = s}
           Waiting == {s \in Slots : InIdle(s)}
           Takers  == {c \in Clients : slot[c] \in Slots}
           hand    == [c \in Takers |-> slot[c]]
<1>1. /\ IsFiniteSet(Waiting) /\ Cardinality(Waiting) <= Len(idle) /\ Len(idle) \in Nat
  <2>1. Len(idle) \in Nat /\ DOMAIN idle = 1 .. Len(idle) /\ idle \in [1 .. Len(idle) -> Slots]
    BY DEF TypeInv, TypeOK
  <2>2. idle \in Surjection(1 .. Len(idle), Waiting)
    BY <2>1 DEF Surjection, InIdle
  <2>3. IsFiniteSet(1 .. Len(idle)) /\ Cardinality(1 .. Len(idle)) = Len(idle)
    BY <2>1, FS_Interval
  <2>4. QED
    BY <2>1, <2>2, <2>3, FS_Surjection
<1>2. /\ IsFiniteSet(InHand) /\ Cardinality(InHand) <= Cardinality(Placed)
      /\ Cardinality(Placed) \in Nat
  <2>1. IsFiniteSet(Placed)
    BY PlacedHold, FS_Subset DEF PermitsKept
  <2>2. Takers \subseteq Placed
    BY NoSlotAssumption DEF Placed
  <2>3. IsFiniteSet(Takers) /\ Cardinality(Takers) <= Cardinality(Placed)
    BY <2>1, <2>2, FS_Subset
  <2>4. hand \in Surjection(Takers, InHand)
    BY DEF Surjection
  <2>5. IsFiniteSet(InHand) /\ Cardinality(InHand) <= Cardinality(Takers)
    BY <2>3, <2>4, FS_Surjection
  <2>6. /\ Cardinality(Placed) \in Nat /\ Cardinality(Takers) \in Nat
        /\ Cardinality(InHand) \in Nat
    BY <2>1, <2>3, <2>5, FS_CardinalityType
  <2>7. QED
    BY <2>3, <2>5, <2>6
<1>3. {s \in Slots : InIdle(s) \/ \E c \in Clients : slot[c] = s} = Waiting \cup InHand
  OBVIOUS
<1>4. /\ IsFiniteSet(Waiting \cup InHand) /\ IsFiniteSet(Waiting \cap InHand)
      /\ Cardinality(Waiting \cup InHand)
           = Cardinality(Waiting) + Cardinality(InHand) - Cardinality(Waiting \cap InHand)
  BY <1>1, <1>2, FS_Union, FS_Intersection
<1>5. /\ Cardinality(Waiting) \in Nat /\ Cardinality(InHand) \in Nat
      /\ Cardinality(Waiting \cap InHand) \in Nat
  BY <1>1, <1>2, <1>4, FS_CardinalityType
<1>6. Cardinality(Waiting \cup InHand) <= Size
  <2> HIDE DEF Waiting, InHand
  <2>1. QED
    BY <1>1, <1>2, <1>4, <1>5, SizeAssumption DEF PlacesKept
<1>7. QED
  BY <1>3, <1>6 DEF PoolBound

-----------------------------------------------------------------------------
\* Clients leave shutdown alone, and shutdown never goes back to its phases
\* before the forced one.
LEMMA PhaseSteps ==
  ASSUME [Next]_vars
  PROVE  /\ BeforeForce' => BeforeForce
         /\ \A c \in Clients : ClientStep(c) => UNCHANGED shutVars
PROOF
<1>1. ASSUME NEW c \in Clients, ClientStep(c) PROVE UNCHANGED shutVars
  <2>1. CASE Request(c) \/ GetPermit(c) \/ GiveUpWaiting(c) \/ AbandonAcquire(c) \/ RecordTarget(c)
    BY <2>1 DEF Request, GetPermit, GiveUpWaiting, AbandonAcquire, RecordTarget
  <2>2. CASE AcquireStep(c)
    BY <2>2 DEF AcquireStep, PopIdle, PopNone, StaleCheck, HealthCheck, CreateSlot, CheckOut,
       CountInflight
  <2>3. CASE Release(c) \/ DropGuard(c) \/ ReleaseStep(c) \/ CancelRelease(c)
    BY <2>3 DEF Release, DropGuard, Claim, ReleaseStep, Snapshot, CloseTarget, DisposeCtx,
       RenewCtx, Recycle, PushBack, TakeDead, CloseWait, Commit, DropTake, CancelRelease
  <2>4. QED
    BY <1>1, <2>1, <2>2, <2>3 DEF ClientStep
<1>2. ASSUME NEW c \in Clients, ClientStep(c) PROVE BeforeForce' => BeforeForce
  BY <1>1, <1>2 DEF BeforeForce, shutVars
<1>3. ASSUME NEW s \in Slots, Reap(s) \/ CloseIdle(s) \/ ForceClaim(s)
      PROVE  BeforeForce' => BeforeForce
  BY <1>3 DEF Reap, CloseIdle, ForceClaim, BeforeForce, shutVars
<1>4. ASSUME \/ BeginShutdown \/ EndDrain \/ TakeIdle \/ EndCloseIdle \/ ReadRegistry
             \/ ForceTake \/ ForceDec \/ EndForce \/ Sweep \/ UNCHANGED vars
      PROVE  BeforeForce' => BeforeForce
  BY <1>4 DEF BeginShutdown, EndDrain, TakeIdle, EndCloseIdle, ReadRegistry, ForceTake,
     ForceDec, EndForce, Sweep, BeforeForce, vars, shutVars
<1>5. QED
  BY <1>1, <1>2, <1>3, <1>4 DEF Next, Shutdown, ClientStep

\* A step of client c counts it in, counts it out, or does neither: a guard
\* whose terminator is its own does not leave without the decrement.
LEMMA CountSteps ==
  ASSUME TypeInv, GuardsOwnTerm, BeforeForce, NEW c \in Clients, ClientStep(c)
  PROVE  \/ inflight' = inflight /\ (c \in Counted' <=> c \in Counted)
         \/ inflight' = inflight + 1 /\ c \notin Counted /\ c \in Counted'
         \/ inflight' = Decremented /\ c \in Counted /\ c \notin Counted'
PROOF
<1> USE DEF TypeInv, TypeOK, Counted, TokenPcs, RecyclePcs, Goto, Leave, clientVars
<1>1. CASE Request(c) \/ GetPermit(c) \/ GiveUpWaiting(c) \/ AbandonAcquire(c) \/ RecordTarget(c)
  BY <1>1 DEF Request, GetPermit, GiveUpWaiting, AbandonAcquire, RecordTarget
<1>2. CASE PopIdle(c) \/ PopNone(c) \/ CreateSlot(c)
  BY <1>2 DEF PopIdle, PopNone, CreateSlot
<1>3. CASE CountInflight(c)
  BY <1>3 DEF CountInflight
<1>4. CASE StaleCheck(c) \/ HealthCheck(c) \/ CheckOut(c)
  BY <1>4 DEF StaleCheck, HealthCheck, CheckOut, RetryOrFail
<1>5. CASE Release(c) \/ DropGuard(c)
  <2>1. pc[c] = "Using" /\ ~term[slot[c]] /\ inflight' = inflight
    BY <1>5 DEF Release, DropGuard, Claim, GuardsOwnTerm
  <2>2. PICK l \in {"Snapshot", "DropTake"} : pc' = [pc EXCEPT ![c] = l]
    BY <1>5, <2>1 DEF Release, DropGuard, Claim
  <2>3. QED
    BY <2>1, <2>2
<1>6. CASE Commit(c) \/ CancelRelease(c)
  BY <1>6 DEF Commit, CancelRelease
<1>7. CASE Snapshot(c) \/ PushBack(c) \/ TakeDead(c) \/ CloseWait(c) \/ DropTake(c)
  BY <1>7 DEF Snapshot, PushBack, TakeDead, CloseWait, DropTake
<1>8. CASE CloseTarget(c) \/ DisposeCtx(c) \/ RenewCtx(c)
  BY <1>8 DEF CloseTarget, DisposeCtx, RenewCtx, Recycle
<1>9. QED
  BY <1>1, <1>2, <1>3, <1>4, <1>5, <1>6, <1>7, <1>8 DEF ClientStep, AcquireStep, ReleaseStep

\* inflight follows the guards and recycles until the forced phase.
LEMMA InflightStep ==
  ASSUME TypeInv, PermitsKept, GuardsOwnTerm, InflightExact, [Next]_vars
  PROVE  InflightExact'
PROOF
<1> SUFFICES ASSUME BeforeForce' PROVE inflight' = Cardinality(Counted')
  BY DEF InflightExact
<1>0. BeforeForce /\ inflight = Cardinality(Counted) /\ inflight \in Nat
  BY PhaseSteps DEF InflightExact, TypeInv, TypeOK
<1>1. CASE \E s \in Slots : Reap(s) \/ CloseIdle(s) \/ ForceClaim(s)
  <2>1. inflight' = inflight /\ pc' = pc
    BY <1>1 DEF Reap, CloseIdle, ForceClaim, clientVars
  <2>2. QED
    BY <1>0, <2>1 DEF Counted
<1>2. CASE \/ BeginShutdown \/ EndDrain \/ TakeIdle \/ EndCloseIdle \/ ReadRegistry
           \/ ForceTake \/ ForceDec \/ EndForce \/ Sweep \/ UNCHANGED vars
  <2>1. inflight' = inflight /\ pc' = pc
    BY <1>0, <1>2 DEF BeginShutdown, EndDrain, TakeIdle, EndCloseIdle, ReadRegistry, ForceTake,
       ForceDec, EndForce, Sweep, BeforeForce, vars, clientVars
  <2>2. QED
    BY <1>0, <2>1 DEF Counted
<1>3. ASSUME NEW c \in Clients, ClientStep(c) PROVE inflight' = Cardinality(Counted')
  <2>1. OthersKept(c)
    BY <1>3, ClientStepKeepsOthers
  <2>2. Counted' \ {c} = Counted \ {c}
    BY <2>1 DEF OthersKept, Counted
  <2>3. IsFiniteSet(Counted)
    <3>1. Counted \subseteq Holders
      BY DEF Counted, Holders, TokenPcs, RecyclePcs
    <3>2. QED
      BY <3>1, FS_Subset DEF PermitsKept
  <2>4. /\ Cardinality(Counted) \in Nat /\ Cardinality(Counted') \in Nat
        /\ Cardinality(Counted') = (Cardinality(Counted) - (IF c \in Counted THEN 1 ELSE 0))
                                   + (IF c \in Counted' THEN 1 ELSE 0)
    BY <2>2, <2>3, CountOne
  <2>5. c \in Counted => Cardinality(Counted) # 0
    BY <2>3, FS_EmptySet
  <2>6. \/ inflight' = inflight /\ (c \in Counted' <=> c \in Counted)
        \/ inflight' = inflight + 1 /\ c \notin Counted /\ c \in Counted'
        \/ inflight' = Decremented /\ c \in Counted /\ c \notin Counted'
    BY <1>0, <1>3, CountSteps
  <2>7. QED
    BY <1>0, <2>4, <2>5, <2>6 DEF Decremented
<1>4. QED
  BY <1>1, <1>2, <1>3 DEF Next, Shutdown, ClientStep

-----------------------------------------------------------------------------
\* No other client's guard is on the slot client c holds.
LEMMA OthersElsewhere ==
  ASSUME SlotExclusive, NEW c \in Clients, slot[c] # NoSlot
  PROVE  \A d \in Clients \ {c} : slot[d] # slot[c]
PROOF BY DEF SlotExclusive

\* A terminator is taken only by the guard it belongs to, which is then no
\* longer in use, or in the forced phase.
LEMMA GuardStep ==
  ASSUME TypeInv, SlotExclusive, GuardsOwnTerm, [Next]_vars PROVE GuardsOwnTerm'
PROOF
<1> SUFFICES ASSUME BeforeForce',
                    NEW d \in Clients, pc'[d] \in {"Count", "Using"}
             PROVE  ~term'[slot'[d]]
  BY DEF GuardsOwnTerm
<1> USE DEF TypeInv, TypeOK, Goto, Leave, clientVars, slotVars
<1>0. BeforeForce /\ (pc[d] \in {"Count", "Using"} => ~term[slot[d]] /\ slot[d] \in Slots)
  BY PhaseSteps DEF GuardsOwnTerm, SlotHeld, SlotPcs
<1>1. ASSUME term' = term, pc'[d] = pc[d], slot'[d] = slot[d] PROVE ~term'[slot'[d]]
  BY <1>0, <1>1
<1>2. CASE \E s \in Slots : Reap(s) \/ CloseIdle(s) \/ ForceClaim(s)
  <2>1. term' = term /\ pc' = pc /\ slot' = slot
    BY <1>0, <1>2 DEF Reap, CloseIdle, ForceClaim, BeforeForce
  <2>2. QED
    BY <1>1, <2>1
<1>3. CASE \/ BeginShutdown \/ EndDrain \/ TakeIdle \/ EndCloseIdle \/ ReadRegistry
           \/ ForceTake \/ ForceDec \/ EndForce \/ Sweep \/ UNCHANGED vars
  <2>1. term' = term /\ pc' = pc /\ slot' = slot
    BY <1>3 DEF BeginShutdown, EndDrain, TakeIdle, EndCloseIdle, ReadRegistry,
       ForceTake, ForceDec, EndForce, Sweep, vars
  <2>2. QED
    BY <1>1, <2>1
<1>4. ASSUME NEW c \in Clients, ClientStep(c) PROVE ~term'[slot'[d]]
  <2>0. d # c => pc'[d] = pc[d] /\ slot'[d] = slot[d]
    BY <1>4, ClientStepKeepsOthers DEF OthersKept
  <2>1. CASE CreateSlot(c)
    BY <1>0, <2>0, <2>1 DEF CreateSlot
  <2>2. CASE CheckOut(c)
    <3>1. CASE st[slot[c]] = "Idle"
      BY <1>0, <2>0, <2>2, <3>1 DEF CheckOut, SlotHeld, SlotPcs
    <3>2. CASE st[slot[c]] # "Idle"
      <4>1. term' = term /\ pc'[c] \notin {"Count", "Using"}
        BY <2>2, <3>2 DEF CheckOut, RetryOrFail
      <4>2. QED
        BY <1>1, <2>0, <4>1
    <3>3. QED
      BY <3>1, <3>2
  <2>3. CASE Release(c) \/ DropGuard(c)
    <3>1. pc'[c] \notin {"Count", "Using"} /\ slot[c] \in Slots
      BY <2>3 DEF Release, DropGuard, Claim, SlotHeld, SlotPcs
    <3>2. d # c /\ slot[d] # slot[c]
      BY <2>0, <3>1, OthersElsewhere, NoSlotAssumption
    <3>3. term'[slot[d]] = term[slot[d]]
      BY <1>0, <2>0, <2>3, <3>1, <3>2 DEF Release, DropGuard, Claim
    <3>4. QED
      BY <1>0, <2>0, <3>2, <3>3
  <2>4. CASE CountInflight(c) \/ RecordTarget(c)
    <3>1. term' = term /\ slot' = slot /\ pc[c] \in {"Count", "Using"}
      BY <2>4 DEF CountInflight, RecordTarget
    <3>2. QED
      BY <1>0, <2>0, <3>1
  <2>5. CASE \/ Request(c) \/ GetPermit(c) \/ GiveUpWaiting(c) \/ AbandonAcquire(c)
             \/ PopIdle(c) \/ PopNone(c) \/ StaleCheck(c) \/ HealthCheck(c)
    <3>1. term' = term /\ pc'[c] \notin {"Count", "Using"}
      BY <2>5 DEF Request, GetPermit, GiveUpWaiting, AbandonAcquire, PopIdle, PopNone,
         StaleCheck, HealthCheck, RetryOrFail
    <3>2. QED
      BY <1>1, <2>0, <3>1
  <2>6. CASE \/ Snapshot(c) \/ CloseTarget(c) \/ DisposeCtx(c) \/ RenewCtx(c) \/ PushBack(c)
             \/ TakeDead(c) \/ CloseWait(c) \/ Commit(c) \/ DropTake(c) \/ CancelRelease(c)
    <3>1. term' = term /\ pc'[c] \notin {"Count", "Using"}
      BY <2>6 DEF Snapshot, CloseTarget, DisposeCtx, RenewCtx, Recycle, PushBack, TakeDead,
         CloseWait, Commit, DropTake, CancelRelease
    <3>2. QED
      BY <1>1, <2>0, <3>1
  <2>7. QED
    BY <1>4, <2>1, <2>2, <2>3, <2>4, <2>5, <2>6 DEF ClientStep, AcquireStep, ReleaseStep
<1>5. QED
  BY <1>2, <1>3, <1>4 DEF Next, Shutdown, ClientStep

-----------------------------------------------------------------------------
\* acquire() takes what was in the free list; release() adds the slot it held.
LEMMA PopTakes ==
  ASSUME TypeInv, NEW c \in Clients, PopIdle(c)
  PROVE  /\ InIdle(slot'[c]) /\ slot'[c] \in Slots
         /\ \A s : InIdle(s)' => InIdle(s)
PROOF
<1>1. idle # <<>> /\ idle' = Tail(idle) /\ slot' = [slot EXCEPT ![c] = Head(idle)]
  BY DEF PopIdle
<1>2. idle \in Seq(Slots) /\ Len(idle) \in Nat \ {0} /\ slot'[c] = idle[1]
  BY <1>1 DEF TypeInv, TypeOK
<1>3. /\ DOMAIN idle = 1 .. Len(idle) /\ DOMAIN idle' = 1 .. Len(idle) - 1
      /\ \A i \in DOMAIN idle' : i + 1 \in DOMAIN idle /\ idle'[i] = idle[i + 1]
  BY <1>1, <1>2
<1>4. 1 \in DOMAIN idle
  BY <1>2, <1>3
<1>5. QED
  BY <1>2, <1>3, <1>4 DEF InIdle

LEMMA PushAdds ==
  ASSUME TypeInv, NEW c \in Clients, PushBack(c)
  PROVE  /\ slot[c] \in Slots
         /\ \A s : InIdle(s)' => InIdle(s) \/ s = slot[c]
PROOF
<1>1. idle' = Append(idle, slot[c]) /\ slot[c] \in Slots /\ idle \in Seq(Slots)
  BY DEF PushBack, TypeInv, TypeOK, SlotHeld, SlotPcs, TokenPcs
<1>2. /\ DOMAIN idle = 1 .. Len(idle) /\ DOMAIN idle' = 1 .. Len(idle) + 1
      /\ \A i \in DOMAIN idle' :
            \/ i \in DOMAIN idle /\ idle'[i] = idle[i]
            \/ idle'[i] = slot[c]
  BY <1>1
<1>3. QED
  BY <1>1, <1>2 DEF InIdle

\* When phase 2 of shutdown has slots to close: it took them in this step, or
\* it had them.
LEMMA TakenSteps ==
  ASSUME [Next]_vars, spc' = "CloseIdle"
  PROVE  \/ TakeIdle
         \/ spc = "CloseIdle" /\ todo' \subseteq todo
PROOF
<1>1. ASSUME NEW c \in Clients, ClientStep(c) PROVE spc = "CloseIdle" /\ todo' \subseteq todo
  BY <1>1, PhaseSteps DEF shutVars
<1>2. ASSUME NEW s \in Slots, Reap(s) \/ CloseIdle(s) \/ ForceClaim(s)
      PROVE  spc = "CloseIdle" /\ todo' \subseteq todo
  BY <1>2 DEF Reap, CloseIdle, ForceClaim, shutVars
<1>3. ASSUME \/ BeginShutdown \/ EndDrain \/ EndCloseIdle \/ ReadRegistry \/ ForceTake
             \/ ForceDec \/ EndForce \/ Sweep \/ UNCHANGED vars
      PROVE  spc = "CloseIdle" /\ todo' \subseteq todo
  BY <1>3 DEF BeginShutdown, EndDrain, EndCloseIdle, ReadRegistry, ForceTake, ForceDec,
     EndForce, Sweep, vars, shutVars
<1>4. QED
  BY <1>1, <1>2, <1>3 DEF Next, Shutdown, ClientStep

\* The slots phase 2 took stay out of reach: they were only in the free list,
\* which is empty then, and a new slot gets another name.
LEMMA TakenStep ==
  ASSUME TypeInv, SlotExclusive, TakenApart, [Next]_vars PROVE TakenApart'
PROOF
<1> SUFFICES ASSUME spc' = "CloseIdle", NEW s \in todo'
             PROVE  ~InIdle(s)' /\ \A c \in Clients : slot'[c] # s
  BY DEF TakenApart
<1> USE DEF TypeInv, TypeOK
<1>1. CASE TakeIdle
  <2>1. InIdle(s) /\ idle' = <<>> /\ slot' = slot
    BY <1>1 DEF TakeIdle, InIdle, clientVars
  <2>2. QED
    BY <2>1 DEF SlotExclusive, InIdle
<1>2. CASE spc = "CloseIdle" /\ todo' \subseteq todo
  <2>0. /\ s \in Slots /\ s # NoSlot /\ s \in todo /\ ~InIdle(s)
        /\ \A c \in Clients : slot[c] # s
    BY <1>2, NoSlotAssumption DEF TakenApart
  <2>1. CASE UNCHANGED <<idle, slot>> \/ (idle' = <<>> /\ slot' = slot)
    BY <2>0, <2>1 DEF InIdle
  <2>2. ASSUME NEW c \in Clients, idle' = idle, slot' = [slot EXCEPT ![c] = NoSlot]
        PROVE  ~InIdle(s)' /\ \A d \in Clients : slot'[d] # s
    BY <2>0, <2>2 DEF InIdle
  <2>3. ASSUME NEW c \in Clients, PopIdle(c)
        PROVE  ~InIdle(s)' /\ \A d \in Clients : slot'[d] # s
    <3>1. InIdle(slot'[c]) /\ ~InIdle(s)'
      BY <2>0, <2>3, PopTakes
    <3>2. \A d \in Clients \ {c} : slot'[d] = slot[d]
      BY <2>3 DEF PopIdle
    <3>3. QED
      BY <2>0, <3>1, <3>2
  <2>4. ASSUME NEW c \in Clients, CreateSlot(c)
        PROVE  ~InIdle(s)' /\ \A d \in Clients : slot'[d] # s
    BY <2>0, <2>4 DEF CreateSlot, InIdle
  <2>5. ASSUME NEW c \in Clients, PushBack(c)
        PROVE  ~InIdle(s)' /\ \A d \in Clients : slot'[d] # s
    <3>1. ~InIdle(s)'
      BY <2>0, <2>5, PushAdds
    <3>2. QED
      BY <2>0, <2>5, <3>1 DEF PushBack
  <2>6. QED
    BY <2>1, <2>2, <2>3, <2>4, <2>5, ReferenceSteps
<1>3. QED
  BY <1>1, <1>2, TakenSteps

-----------------------------------------------------------------------------
\* Before the forced phase a slot loses its connection to the client that holds
\* it and has no more use for it, or to phase 2 of shutdown.
LEMMA ConnSteps ==
  ASSUME TypeInv, [Next]_vars, BeforeForce', NEW s \in Slots, HasConn(s)
  PROVE  \/ HasConn(s)'
         \/ spc = "CloseIdle" /\ s \in todo
         \/ \E c \in Clients : slot[c] = s /\ pc'[c] \notin ConnPcs
PROOF
<1> USE DEF TypeInv, TypeOK, Goto, Leave, clientVars, slotVars
<1>1. ASSUME st' = st PROVE HasConn(s)'
  BY <1>1 DEF HasConn
<1>2. ASSUME NEW r \in Slots, Reap(r) PROVE HasConn(s)'
  BY <1>1, <1>2 DEF Reap
<1>3. ASSUME NEW r \in Slots, CloseIdle(r) PROVE HasConn(s)' \/ (spc = "CloseIdle" /\ s \in todo)
  BY <1>3 DEF CloseIdle, TakeConn, HasConn
<1>4. ASSUME NEW r \in Slots, ForceClaim(r) PROVE HasConn(s)'
  BY <1>1, <1>4 DEF ForceClaim
<1>5. ASSUME \/ BeginShutdown \/ EndDrain \/ TakeIdle \/ EndCloseIdle \/ ReadRegistry
             \/ ForceTake \/ ForceDec \/ EndForce \/ Sweep \/ UNCHANGED vars
      PROVE  HasConn(s)'
  BY <1>1, <1>5 DEF BeginShutdown, EndDrain, TakeIdle, EndCloseIdle, ReadRegistry, ForceTake,
     ForceDec, EndForce, Sweep, BeforeForce, vars
<1>6. ASSUME NEW c \in Clients, ClientStep(c)
      PROVE  HasConn(s)' \/ (slot[c] = s /\ pc'[c] \notin ConnPcs)
  <2>1. CASE \/ Request(c) \/ GetPermit(c) \/ GiveUpWaiting(c) \/ AbandonAcquire(c)
             \/ RecordTarget(c) \/ PopIdle(c) \/ PopNone(c) \/ CountInflight(c)
             \/ Release(c) \/ DropGuard(c) \/ PushBack(c) \/ CloseWait(c) \/ Commit(c)
             \/ CancelRelease(c)
    BY <1>1, <2>1 DEF Request, GetPermit, GiveUpWaiting, AbandonAcquire, RecordTarget, PopIdle,
       PopNone, CountInflight, Release, DropGuard, Claim, PushBack, CloseWait, Commit,
       CancelRelease
  <2>2. CASE CreateSlot(c) \/ CheckOut(c) \/ Snapshot(c)
    BY <2>2 DEF CreateSlot, CheckOut, Snapshot, HasConn
  <2>3. CASE StaleCheck(c) \/ HealthCheck(c)
    <3>1. CASE st' = st
      BY <1>1, <3>1
    <3>2. CASE MarkDead(slot[c]) /\ RetryOrFail(c)
      <4>1. pc'[c] \notin ConnPcs
        BY <3>2 DEF RetryOrFail, ConnPcs
      <4>2. s # slot[c] => st'[s] = st[s]
        BY <3>2 DEF MarkDead, TakeConn
      <4>3. QED
        BY <4>1, <4>2 DEF HasConn
    <3>3. QED
      BY <2>3, <3>1, <3>2 DEF StaleCheck, HealthCheck
  <2>4. CASE CloseTarget(c) \/ DisposeCtx(c) \/ RenewCtx(c)
    BY <2>4 DEF CloseTarget, DisposeCtx, RenewCtx, Recycle, HasConn
  <2>5. CASE TakeDead(c)
    <3>1. pc'[c] \notin ConnPcs
      BY <2>5 DEF TakeDead, ConnPcs
    <3>2. s # slot[c] => st'[s] = st[s]
      BY <2>5 DEF TakeDead, TakeConn
    <3>3. QED
      BY <3>1, <3>2 DEF HasConn
  <2>6. CASE DropTake(c)
    <3>1. pc'[c] \notin ConnPcs
      BY <2>6 DEF DropTake, ConnPcs
    <3>2. s # slot[c] => st'[s] = st[s]
      BY <2>6 DEF DropTake
    <3>3. QED
      BY <3>1, <3>2 DEF HasConn
  <2>7. QED
    BY <1>6, <2>1, <2>2, <2>3, <2>4, <2>5, <2>6 DEF ClientStep, AcquireStep, ReleaseStep
<1>7. QED
  BY <1>2, <1>3, <1>4, <1>5, <1>6 DEF Next, Shutdown, ClientStep

\* A client gets to where it counts on the connection with a slot that has one:
\* taken from the free list, new, or made anew by the recycle.
LEMMA EnterSteps ==
  ASSUME TypeInv, NEW c \in Clients, ClientStep(c), pc'[c] \in ConnPcs
  PROVE  \/ HasConn(slot[c])'
         \/ pc[c] \in ConnPcs /\ slot'[c] = slot[c]
         \/ PopIdle(c)
PROOF
<1> USE DEF TypeInv, TypeOK, Goto, Leave, clientVars, slotVars, ConnPcs
<1>1. CASE \/ Request(c) \/ GetPermit(c) \/ GiveUpWaiting(c) \/ AbandonAcquire(c)
           \/ RecordTarget(c) \/ PopNone(c) \/ CountInflight(c)
  BY <1>1 DEF Request, GetPermit, GiveUpWaiting, AbandonAcquire, RecordTarget, PopNone,
     CountInflight
<1>2. CASE CreateSlot(c)
  BY <1>2 DEF CreateSlot, HasConn
<1>3. CASE StaleCheck(c) \/ HealthCheck(c) \/ CheckOut(c)
  <2>1. ~RetryOrFail(c)
    BY DEF RetryOrFail
  <2>2. QED
    BY <1>3, <2>1 DEF StaleCheck, HealthCheck, CheckOut
<1>4. CASE Release(c) \/ DropGuard(c) \/ PushBack(c) \/ CloseWait(c) \/ Commit(c)
           \/ CancelRelease(c)
  BY <1>4 DEF Release, DropGuard, Claim, PushBack, CloseWait, Commit, CancelRelease
<1>5. CASE Snapshot(c) \/ TakeDead(c) \/ DropTake(c)
  BY <1>5 DEF Snapshot, TakeDead, DropTake
<1>6. CASE CloseTarget(c) \/ DisposeCtx(c)
  BY <1>6 DEF CloseTarget, DisposeCtx, Recycle
<1>7. CASE RenewCtx(c)
  <2>1. pc[c] = "Renew" /\ slot' = slot /\ slot[c] \in Slots
    BY <1>7 DEF RenewCtx, Recycle, SlotHeld, SlotPcs, TokenPcs, RecyclePcs
  <2>2. st' = [st EXCEPT ![slot[c]] = "Idle"]
    BY <1>7, <2>1 DEF RenewCtx, Recycle
  <2>3. QED
    BY <2>1, <2>2 DEF HasConn
<1>8. QED
  BY <1>1, <1>2, <1>3, <1>4, <1>5, <1>6, <1>7 DEF ClientStep, AcquireStep, ReleaseStep

\* A slot that somebody counts on keeps its connection: whoever takes it has
\* the slot alone.
LEMMA ConnectedStep ==
  ASSUME TypeInv, SlotExclusive, TakenApart, Connected, [Next]_vars PROVE Connected'
PROOF
<1> SUFFICES ASSUME BeforeForce'
             PROVE  /\ \A s \in Slots : InIdle(s)' => HasConn(s)'
                    /\ \A d \in Clients : pc'[d] \in ConnPcs => HasConn(slot[d])'
  BY DEF Connected
<1>0. /\ \A s \in Slots : InIdle(s) => HasConn(s)
      /\ \A d \in Clients : pc[d] \in ConnPcs => slot[d] \in Slots /\ HasConn(slot[d])
  BY PhaseSteps DEF Connected, TypeInv, SlotHeld, SlotPcs, ConnPcs, TokenPcs
<1>1. ASSUME NEW s \in Slots, InIdle(s) PROVE HasConn(s)'
  <2>1. HasConn(s) /\ ~(spc = "CloseIdle" /\ s \in todo) /\ \A c \in Clients : slot[c] # s
    BY <1>0, <1>1 DEF TakenApart, SlotExclusive
  <2>2. QED
    BY <2>1, ConnSteps
<1>2. ASSUME NEW d \in Clients, pc[d] \in ConnPcs, pc'[d] \in ConnPcs, slot'[d] = slot[d]
      PROVE  HasConn(slot[d])'
  <2>1. PICK s \in Slots : s = slot[d] /\ HasConn(s)
    BY <1>0, <1>2
  <2>2. /\ ~(spc = "CloseIdle" /\ s \in todo)
        /\ \A c \in Clients : slot[c] = s => c = d
    BY <2>1, NoSlotAssumption DEF TakenApart, SlotExclusive
  <2>3. HasConn(s)'
    BY <1>2, <2>1, <2>2, ConnSteps
  <2>4. QED
    BY <1>2, <2>1, <2>3 DEF HasConn
<1>3. ASSUME NEW s \in Slots, InIdle(s)' PROVE HasConn(s)'
  <2>1. CASE InIdle(s)
    BY <1>1, <2>1
  <2>2. CASE ~InIdle(s)
    <3>1. PICK c \in Clients : PushBack(c)
      <4>1. ~(UNCHANGED idle \/ idle' = <<>>)
        BY <1>3, <2>2 DEF InIdle
      <4>2. ASSUME NEW c \in Clients PROVE ~PopIdle(c) /\ (CreateSlot(c) => UNCHANGED idle)
        BY <1>3, <2>2, PopTakes DEF CreateSlot
      <4>3. QED
        BY <4>1, <4>2, ReferenceSteps
    <3>2. s = slot[c] /\ pc[c] = "PushBack" /\ st' = st
      BY <1>3, <2>2, <3>1, PushAdds DEF PushBack, slotVars
    <3>3. QED
      BY <1>0, <3>2 DEF ConnPcs, HasConn
  <2>3. QED
    BY <2>1, <2>2
<1>4. ASSUME NEW d \in Clients, pc'[d] \in ConnPcs PROVE HasConn(slot[d])'
  <2>1. CASE UNCHANGED <<pc, slot>>
    BY <1>2, <1>4, <2>1
  <2>2. ASSUME NEW c \in Clients, ClientStep(c), c # d PROVE HasConn(slot[d])'
    <3>1. pc'[d] = pc[d] /\ slot'[d] = slot[d]
      BY <2>2, ClientStepKeepsOthers DEF OthersKept
    <3>2. QED
      BY <1>2, <1>4, <3>1
  <2>3. CASE ClientStep(d)
    <3>1. CASE pc[d] \in ConnPcs /\ slot'[d] = slot[d]
      BY <1>2, <1>4, <3>1
    <3>2. CASE PopIdle(d)
      <4>1. PICK s \in Slots : s = slot'[d] /\ InIdle(s)
        BY <3>2, PopTakes
      <4>2. HasConn(s)'
        BY <1>1, <4>1
      <4>3. QED
        BY <4>1, <4>2 DEF HasConn
    <3>3. QED
      BY <1>4, <2>3, <3>1, <3>2, EnterSteps
  <2>4. QED
    BY <2>1, <2>2, <2>3, OtherSteps
<1>5. QED
  BY <1>3, <1>4

-----------------------------------------------------------------------------
\* The inductive invariant.
THEOREM Invariance == Spec => []IInv
PROOF
<1>1. IInv /\ [Next]_vars => IInv'
  BY TypeStep, ExclusiveStep, OwnedStep, CleanStep, PermitsStep, PlacesStep, InflightStep,
     GuardStep, TakenStep, ConnectedStep DEF IInv
<1>2. QED
  BY <1>1, InitInv, PTL DEF Spec

\* The variables keep their types, whatever is cancelled or fails.
THEOREM TypeCorrect == Spec => []TypeOK
PROOF BY Invariance, PTL DEF IInv, TypeInv

\* A slot has one user at any time (browser_pool.rs, acquire and release).
THEOREM Exclusive == Spec => []SlotExclusive
PROOF BY Invariance, PTL DEF IInv

\* Both: typed, and one user for each slot.
THEOREM SlotsAreSound == Spec => []SlotsSound
PROOF BY TypeCorrect, Exclusive, PTL DEF SlotsSound

\* No connection is closed twice: whoever takes it out of its slot owns the
\* close (take_conn, Drop's reaper, both shutdown phases).
THEOREM ClosedOnce == Spec => []ConnClosedOnce
PROOF
<1>1. IInv => ConnClosedOnce
  BY DEF IInv, TypeInv, TypeOK, ConnOwned, ConnClosedOnce
<1>2. QED
  BY <1>1, Invariance, PTL

\* A checkout never gets a context that has shown another client's page.
THEOREM Clean == Spec => []CleanCheckout
PROOF BY Invariance, PTL DEF IInv, ContextClean

\* The pool keeps to its size, and inflight counts each guard and each recycle
\* once until shutdown's forced phase, whatever is cancelled or fails.
THEOREM SlotsAreCounted == Spec => []SlotsCounted
PROOF
<1>1. IInv => SlotsCounted
  BY PooledPlaced DEF IInv, SlotsCounted
<1>2. QED
  BY <1>1, Invariance, PTL

\* No connection is closed under a guard or in the free list before shutdown's
\* forced phase.
THEOREM OpenWhileUsed == Spec => []ConnOpenWhileUsed
PROOF
<1>1. IInv => ConnOpenWhileUsed
  BY DEF IInv, Connected, ConnPcs, ConnOwned, ConnOpenWhileUsed
<1>2. QED
  BY <1>1, Invariance, PTL
-----------------------------------------------------------------------------
\* What a step of client c is to the abstract lease: it is admitted, gets a
\* slot, gives it back, leaves with nothing, or nothing changes for it.
LEMMA LeaseSteps ==
  ASSUME TypeInv, NEW c \in Clients, ClientStep(c)
  PROVE  \/ (c \in Holders' <=> c \in Holders) /\ Lease'[c] = Lease[c]
         \/ c \in Holders /\ c \notin Holders' /\ Lease'[c] = NoSlot
         \/ GetPermit(c)
         \/ CheckOut(c) /\ pc'[c] = "Count"
         \/ PushBack(c)
PROOF
<1> USE DEF TypeInv, TypeOK, Holders, Lease, TokenPcs, RecyclePcs, Goto, Leave, clientVars
<1>1. CASE Request(c) \/ GetPermit(c) \/ GiveUpWaiting(c) \/ AbandonAcquire(c) \/ RecordTarget(c)
  BY <1>1 DEF Request, GiveUpWaiting, AbandonAcquire, RecordTarget
<1>2. CASE PopIdle(c) \/ PopNone(c) \/ CreateSlot(c) \/ CountInflight(c)
  BY <1>2 DEF PopIdle, PopNone, CreateSlot, CountInflight
<1>3. CASE StaleCheck(c) \/ HealthCheck(c) \/ CheckOut(c)
  BY <1>3 DEF StaleCheck, HealthCheck, CheckOut, RetryOrFail
<1>4. CASE Release(c) \/ DropGuard(c) \/ Commit(c) \/ CancelRelease(c)
  BY <1>4 DEF Release, DropGuard, Claim, Commit, CancelRelease
<1>5. CASE Snapshot(c) \/ PushBack(c) \/ TakeDead(c) \/ CloseWait(c) \/ DropTake(c)
  BY <1>5 DEF Snapshot, TakeDead, CloseWait, DropTake
<1>6. CASE CloseTarget(c) \/ DisposeCtx(c) \/ RenewCtx(c)
  BY <1>6 DEF CloseTarget, DisposeCtx, RenewCtx, Recycle
<1>7. QED
  BY <1>1, <1>2, <1>3, <1>4, <1>5, <1>6 DEF ClientStep, AcquireStep, ReleaseStep

\* Only the start of shutdown closes the pool to new clients.
LEMMA CloseSteps ==
  ASSUME [Next]_vars
  PROVE  \/ closed' = closed
         \/ BeginShutdown
PROOF
<1>1. ASSUME NEW c \in Clients, ClientStep(c) PROVE closed' = closed
  BY <1>1, PhaseSteps DEF shutVars, closed
<1>2. ASSUME NEW s \in Slots, Reap(s) \/ CloseIdle(s) \/ ForceClaim(s) PROVE closed' = closed
  BY <1>2 DEF Reap, CloseIdle, ForceClaim, shutVars, closed
<1>3. ASSUME \/ EndDrain \/ TakeIdle \/ EndCloseIdle \/ ReadRegistry \/ ForceTake
             \/ ForceDec \/ EndForce \/ Sweep \/ UNCHANGED vars
      PROVE  closed' = closed
  BY <1>3 DEF EndDrain, TakeIdle, EndCloseIdle, ReadRegistry, ForceTake, ForceDec,
     EndForce, Sweep, vars, shutVars, closed
<1>4. QED
  BY <1>1, <1>2, <1>3 DEF Next, Shutdown, ClientStep

\* The abstract module counts as this one does.
LEMMA SameCount == \A S : Abstract!Cardinality(S) = Cardinality(S)
PROOF BY DEF Abstract!Cardinality, Cardinality, Abstract!IsFiniteSet, IsFiniteSet

\* Every step of the pool is a step of the lease, or none.
LEMMA StepRefines ==
  ASSUME TypeInv, SlotExclusive, [Next]_vars
  PROVE  [Abstract!Next]_(Abstract!leaseVars)
PROOF
<1> USE DEF Abstract!leaseVars
<1>1. CASE UNCHANGED <<pc, slot>>
  <2>1. Holders' = Holders /\ Lease' = Lease
    BY <1>1 DEF Holders, Lease
  <2>2. CASE BeginShutdown
    <3>1. ~closed /\ ~(~closed')
      BY <2>2 DEF BeginShutdown, closed
    <3>2. Abstract!Close
      BY <2>1, <3>1 DEF Abstract!Close
    <3>3. QED
      BY <3>2 DEF Abstract!Next
  <2>3. CASE closed' = closed
    BY <2>1, <2>3
  <2>4. QED
    BY <2>2, <2>3, CloseSteps
<1>2. ASSUME NEW c \in Clients, ClientStep(c) PROVE [Abstract!Next]_(Abstract!leaseVars)
  <2>0. OthersKept(c) /\ closed' = closed
    BY <1>2, ClientStepKeepsOthers, PhaseSteps DEF shutVars, closed
  <2>1. Holders' \ {c} = Holders \ {c}
    BY <2>0 DEF OthersKept, Holders
  <2>2. Lease' = [Lease EXCEPT ![c] = Lease'[c]]
    BY <2>0 DEF OthersKept, Lease
  <2>3. CASE (c \in Holders' <=> c \in Holders) /\ Lease'[c] = Lease[c]
    <3>1. Holders' = Holders
      BY <2>1, <2>3
    <3>2. Lease' = Lease
      BY <2>2, <2>3 DEF Lease
    <3>3. QED
      BY <2>0, <3>1, <3>2
  <2>4. CASE c \in Holders /\ c \notin Holders' /\ Lease'[c] = NoSlot
    <3>1. Holders' = Holders \ {c}
      BY <2>1, <2>4
    <3>2. Abstract!Leave(c)
      BY <2>0, <2>2, <2>4, <3>1 DEF Abstract!Leave
    <3>3. QED
      BY <3>2 DEF Abstract!Next
  <2>5. CASE GetPermit(c)
    <3>1. ~closed /\ Cardinality(Holders) < Size
      BY <2>5 DEF GetPermit
    <3>2. c \notin Holders /\ c \in Holders'
      BY <2>5 DEF GetPermit, Goto, Holders, TypeInv, TypeOK
    <3>3. Lease' = Lease
      BY <2>5 DEF GetPermit, Goto, Lease, TypeInv, TypeOK, TokenPcs, RecyclePcs
    <3>4. Holders' = Holders \cup {c}
      BY <2>1, <3>2
    <3>5. Abstract!Cardinality(Holders) < Size
      BY <3>1, SameCount
    <3>6. Abstract!Admit(c)
      BY <2>0, <3>1, <3>2, <3>3, <3>4, <3>5 DEF Abstract!Admit
    <3>7. QED
      BY <3>6 DEF Abstract!Next
  <2>6. CASE CheckOut(c) /\ pc'[c] = "Count"
    <3>1. pc[c] = "CheckOut" /\ slot[c] \in Slots /\ slot'[c] = slot[c] /\ slot[c] # NoSlot
      BY <2>6, NoSlotAssumption
      DEF CheckOut, RetryOrFail, Goto, TypeInv, TypeOK, SlotHeld, SlotPcs
    <3>2. c \in Holders /\ c \in Holders'
      BY <2>6, <3>1 DEF Holders
    <3>3. Holders' = Holders
      BY <2>1, <3>2
    <3>4. Lease[c] = NoSlot /\ Lease'[c] = slot[c]
      BY <2>6, <3>1 DEF Lease, TokenPcs, RecyclePcs
    <3>5. \A d \in Clients : Lease[d] # slot[c]
      BY <3>1, <3>4 DEF Lease, SlotExclusive
    <3>6. Abstract!Grant(c, slot[c])
      BY <2>0, <2>2, <3>2, <3>3, <3>4, <3>5 DEF Abstract!Grant
    <3>7. QED
      BY <3>1, <3>6 DEF Abstract!Next
  <2>7. CASE PushBack(c)
    <3>1. /\ pc[c] = "PushBack" /\ pc'[c] = "Commit" /\ slot'[c] = NoSlot
          /\ slot[c] \in Slots /\ slot[c] # NoSlot
      BY <2>7, NoSlotAssumption
      DEF PushBack, Goto, TypeInv, TypeOK, SlotHeld, SlotPcs, TokenPcs
    <3>2. Holders' = Holders
      BY <2>1, <3>1 DEF Holders
    <3>3. Lease[c] # NoSlot /\ Lease'[c] = NoSlot
      BY <3>1 DEF Lease, TokenPcs
    <3>4. Abstract!GiveBack(c)
      BY <2>0, <2>2, <3>2, <3>3 DEF Abstract!GiveBack
    <3>5. QED
      BY <3>4 DEF Abstract!Next
  <2>8. QED
    BY <1>2, <2>3, <2>4, <2>5, <2>6, <2>7, LeaseSteps
<1>3. QED
  BY <1>1, <1>2, OtherSteps

\* The pool implements the lease: no more admitted than permits, one slot to a
\* client and one client to a slot, nobody admitted once it is closed.
THEOREM LeaseImplemented == Spec => ImplementsSlotLease
PROOF
<1>1. Init => Abstract!Init
  BY DEF Init, Abstract!Init, closed, Holders, Lease
<1>2. IInv /\ [Next]_vars => [Abstract!Next]_(Abstract!leaseVars)
  BY StepRefines DEF IInv
<1>3. QED
  BY <1>1, <1>2, Invariance, PTL DEF Spec, ImplementsSlotLease, Abstract!Spec
=============================================================================
