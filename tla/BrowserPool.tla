---------------------------- MODULE BrowserPool ----------------------------
(***************************************************************************)
(* The Chrome browser-context pool of crw-renderer (browser_pool.rs).      *)
(*                                                                         *)
(* Clients are fetch tasks: each takes a semaphore permit, checks out an   *)
(* idle slot or creates one, uses its browser context and gives it back    *)
(* through release() or, when its future is dropped, through Drop.  One    *)
(* more process runs shutdown() while clients are anywhere in between.     *)
(*                                                                         *)
(* A step is one critical section (a slot mutex, the idle-deque mutex or   *)
(* one atomic operation) together with the local code around it; an await  *)
(* separates two steps, and at an await the task may be cancelled.  The    *)
(* connection of a slot never changes, so a slot's name also names its     *)
(* connection.  Slots is a set of names: a name is taken again by a new    *)
(* slot once nothing refers to the old one, which is when the Weak entry   *)
(* of the registry all_slots is dead.                                      *)
(***************************************************************************)
EXTENDS Naturals, Sequences, FiniteSets

CONSTANTS
  Clients,   \* tasks that call acquire()
  Slots,     \* names for pooled slots (and their connections)
  NoSlot,    \* the empty Option<Slot>
  Size,      \* PoolCfg.size, the number of semaphore permits
  MayExpire  \* whether the drain deadline of shutdown() may pass

ASSUME SizeAssumption   == Size \in Nat
ASSUME NoSlotAssumption == NoSlot \notin Slots
ASSUME MayExpireAssumption == MayExpire \in BOOLEAN

VARIABLES
  pc,        \* pc[c]: where client c is
  attempt,   \* attempt[c]: index of the retry loop in acquire()
  slot,      \* slot[c]: the strong reference client c holds
  idle,      \* the free list, a deque
  st,        \* st[s]: SlotState
  term,      \* term[s]: the terminator flag
  target,    \* target[s]: CheckedOut.target_id is Some
  dirty,     \* dirty[s]: a page was opened in the slot's current context
  reap,      \* connections owned by detached close tasks
  closes,    \* closes[s]: calls of close_conn on the slot's connection
  inflight,  \* the inflight counter
  spc,       \* where shutdown() is
  todo,      \* slots the current phase of shutdown() has still to visit
  cur,       \* the slot phase 3 works on
  own        \* phase 3 won cur's terminator

clientVars == <<pc, attempt, slot>>
slotVars   == <<st, term, target, dirty, reap, closes>>
shutVars   == <<spc, todo, cur, own>>
vars       == <<clientVars, idle, slotVars, inflight, shutVars>>

SlotState == {"Idle", "CheckedOut", "Recycling", "DeadConn", "Dead", "Closing"}

AcquirePcs == {"Pop", "Check", "Health", "Create", "CheckOut", "Count"}
RecyclePcs == {"CloseTab", "Dispose", "Renew"}
TokenPcs   == RecyclePcs \cup
              {"Snapshot", "PushBack", "TakeDead", "CloseWait", "DropTake", "Commit"}
ClientPc   == {"Out", "Waiting", "Using"} \cup AcquirePcs \cup TokenPcs
ShutdownPc == {"Serving", "Drain", "TakeIdle", "CloseIdle", "Registry",
               "Force", "ForceTake", "ForceDec", "Sweep", "Down"}

closed == spc # "Serving"      \* closed = true and sem.close()

\* Clients that hold a semaphore permit; RAII drops it when they leave.
Holders == {c \in Clients : pc[c] \notin {"Out", "Waiting"}}

\* Somebody holds an Arc of the slot, so its Weak in all_slots upgrades.
Held(s) == \/ \E i \in DOMAIN idle : idle[i] = s
           \/ \E c \in Clients : slot[c] = s
           \/ spc = "CloseIdle" /\ s \in todo
           \/ cur = s

HasConn(s)  == st[s] \in {"Idle", "CheckedOut", "Recycling", "DeadConn"}
\* Mutant: the connection of a Dead slot is closed but left in place.
M_TakeConnKeeps(s) == st' = [st EXCEPT ![s] = IF @ \in {"DeadConn", "Dead"}
                                              THEN @ ELSE "Closing"]
TakeConn(s) == st' = [st EXCEPT ![s] = IF @ \in {"DeadConn", "Dead"}
                                       THEN "Dead" ELSE "Closing"]
CloseConn(s) == closes' = [closes EXCEPT ![s] = @ + 1]

\* dec_inflight_and_notify: saturating.
Decremented == IF inflight = 0 THEN 0 ELSE inflight - 1

Goto(c, l) == pc' = [pc EXCEPT ![c] = l]
\* Return from acquire()/release()/drop: permit and slot reference drop.
Leave(c)   == /\ Goto(c, "Out")
              /\ slot' = [slot EXCEPT ![c] = NoSlot]
              /\ UNCHANGED attempt

Init ==
  /\ pc = [c \in Clients |-> "Out"]
  /\ attempt = [c \in Clients |-> 0]
  /\ slot = [c \in Clients |-> NoSlot]
  /\ idle = <<>>
  /\ st = [s \in Slots |-> "Closing"]
  /\ term = [s \in Slots |-> TRUE]
  /\ target = [s \in Slots |-> FALSE]
  /\ dirty = [s \in Slots |-> FALSE]
  /\ reap = {}
  /\ closes = [s \in Slots |-> 0]
  /\ inflight = 0
  /\ spc = "Serving"
  /\ todo = {}
  /\ cur = NoSlot
  /\ own = FALSE

-----------------------------------------------------------------------------
(* acquire() *)

Request(c) ==
  /\ pc[c] = "Out"
  /\ Goto(c, "Waiting")
  /\ UNCHANGED <<attempt, slot, idle, slotVars, inflight, shutVars>>

\* Mutant: one permit too many.
M_GetPermitOffByOne(c) ==
  /\ pc[c] = "Waiting"
  /\ ~closed
  /\ Cardinality(Holders) <= Size
  /\ Goto(c, "Pop")
  /\ attempt' = [attempt EXCEPT ![c] = 0]
  /\ UNCHANGED <<slot, idle, slotVars, inflight, shutVars>>

GetPermit(c) ==
  /\ pc[c] = "Waiting"
  /\ ~closed
  /\ Cardinality(Holders) < Size
  /\ Goto(c, "Pop")
  /\ attempt' = [attempt EXCEPT ![c] = 0]
  /\ UNCHANGED <<slot, idle, slotVars, inflight, shutVars>>

\* Mutant: shutdown() leaves the semaphore open, nobody wakes the waiters.
M_GiveUpWaitingOpen(c) ==
  /\ pc[c] = "Waiting"
  /\ ~closed
  /\ Leave(c)
  /\ UNCHANGED <<idle, slotVars, inflight, shutVars>>

\* The semaphore is closed (Err(Shutdown)), or the waiting future is dropped.
GiveUpWaiting(c) ==
  /\ pc[c] = "Waiting"
  /\ Leave(c)
  /\ UNCHANGED <<idle, slotVars, inflight, shutVars>>

\* Mutant: front() instead of pop_front().
M_PopIdlePeeks(c) ==
  /\ pc[c] = "Pop"
  /\ idle # <<>>
  /\ slot' = [slot EXCEPT ![c] = Head(idle)]
  /\ Goto(c, "Check")
  /\ UNCHANGED <<attempt, idle, slotVars, inflight, shutVars>>

PopIdle(c) ==
  /\ pc[c] = "Pop"
  /\ idle # <<>>
  /\ idle' = Tail(idle)
  /\ slot' = [slot EXCEPT ![c] = Head(idle)]
  /\ Goto(c, "Check")
  /\ UNCHANGED <<attempt, slotVars, inflight, shutVars>>

PopNone(c) ==
  /\ pc[c] = "Pop"
  /\ idle = <<>>
  /\ Goto(c, "Create")
  /\ UNCHANGED <<attempt, slot, idle, slotVars, inflight, shutVars>>

\* continue with the next attempt; after attempt 2 acquire() returns an error.
RetryOrFail(c) ==
  /\ slot' = [slot EXCEPT ![c] = NoSlot]
  /\ IF attempt[c] < 2
       THEN Goto(c, "Pop") /\ attempt' = [attempt EXCEPT ![c] = @ + 1]
       ELSE Goto(c, "Out") /\ UNCHANGED attempt

\* mark_slot_dead_and_drop: the detached task that closes the connection.
MarkDead(s) ==
  /\ TakeConn(s)
  /\ reap' = IF HasConn(s) THEN reap \cup {s} ELSE reap

\* last_used is older than health_check_after or not: either may be the case.
StaleCheck(c) ==
  LET s == slot[c] IN
  /\ pc[c] = "Check"
  /\ \/ Goto(c, "CheckOut") /\ UNCHANGED <<attempt, slot, st, reap>>
     \/ st[s] = "Idle" /\ Goto(c, "Health") /\ UNCHANGED <<attempt, slot, st, reap>>
     \/ st[s] # "Idle" /\ MarkDead(s) /\ RetryOrFail(c)
  /\ UNCHANGED <<idle, term, target, dirty, closes, inflight, shutVars>>

HealthCheck(c) ==
  /\ pc[c] = "Health"
  /\ \/ Goto(c, "CheckOut") /\ UNCHANGED <<attempt, slot, st, reap>>
     \/ MarkDead(slot[c]) /\ RetryOrFail(c)
  /\ UNCHANGED <<idle, term, target, dirty, closes, inflight, shutVars>>

\* conn_factory and create_browser_context succeed.
CreateSlot(c) ==
  /\ pc[c] = "Create"
  /\ \E s \in Slots :
       /\ ~Held(s) /\ s \notin reap \cup todo
       /\ slot' = [slot EXCEPT ![c] = s]
       /\ st' = [st EXCEPT ![s] = "Idle"]
       /\ term' = [term EXCEPT ![s] = FALSE]
       /\ dirty' = [dirty EXCEPT ![s] = FALSE]
       /\ closes' = [closes EXCEPT ![s] = 0]
  /\ Goto(c, "CheckOut")
  /\ UNCHANGED <<attempt, idle, target, reap, inflight, shutVars>>

\* The factory fails, or acquire() is cancelled at one of its awaits.
AbandonAcquire(c) ==
  /\ pc[c] \in {"Create", "Health"}
  /\ Leave(c)
  /\ UNCHANGED <<idle, slotVars, inflight, shutVars>>

CheckOut(c) ==
  LET s == slot[c] IN
  /\ pc[c] = "CheckOut"
  /\ \/ /\ st[s] = "Idle"
        /\ st' = [st EXCEPT ![s] = "CheckedOut"]
        /\ term' = [term EXCEPT ![s] = FALSE]
        /\ target' = [target EXCEPT ![s] = FALSE]
        /\ Goto(c, "Count")
        /\ UNCHANGED <<attempt, slot>>
     \/ /\ st[s] # "Idle"
        /\ RetryOrFail(c)
        /\ UNCHANGED <<st, term, target>>
  /\ UNCHANGED <<idle, dirty, reap, closes, inflight, shutVars>>

CountInflight(c) ==
  /\ pc[c] = "Count"
  /\ inflight' = inflight + 1
  /\ Goto(c, "Using")
  /\ UNCHANGED <<attempt, slot, idle, slotVars, shutVars>>

-----------------------------------------------------------------------------
(* The fetch: Target.createTarget succeeds and record_target() runs. *)

RecordTarget(c) ==
  LET s == slot[c] IN
  /\ pc[c] = "Using"
  /\ dirty' = [dirty EXCEPT ![s] = TRUE]
  /\ target' = [target EXCEPT ![s] = @ \/ st[s] = "CheckedOut"]
  /\ UNCHANGED <<clientVars, idle, st, term, reap, closes, inflight, shutVars>>

-----------------------------------------------------------------------------
(* release() *)

\* The compare_exchange on the terminator, by release() or by Drop.
Claim(c, next) ==
  LET s == slot[c] IN
  /\ pc[c] = "Using"
  /\ IF term[s]
       THEN Leave(c) /\ UNCHANGED term
       ELSE /\ term' = [term EXCEPT ![s] = TRUE]
            /\ Goto(c, next)
            /\ UNCHANGED <<attempt, slot>>
  /\ UNCHANGED <<idle, st, target, dirty, reap, closes, inflight, shutVars>>

Release(c) == Claim(c, "Snapshot")

Snapshot(c) ==
  LET s == slot[c] IN
  /\ pc[c] = "Snapshot"
  /\ \/ /\ st[s] = "CheckedOut"
        /\ st' = [st EXCEPT ![s] = "Recycling"]
        /\ Goto(c, "CloseTab")
     \/ /\ st[s] # "CheckedOut"
        /\ Goto(c, "Commit")
        /\ UNCHANGED st
  /\ UNCHANGED <<attempt, slot, idle, term, target, dirty, reap, closes,
                 inflight, shutVars>>

\* One CDP call of the recycle returns and the slot is locked again: shutdown
\* raced, or the call failed (Dead handoff), or the recycle goes on.
Recycle(c, from, mayFail, next, newSt) ==
  LET s == slot[c] IN
  /\ pc[c] = from
  /\ \/ st[s] # "Recycling" /\ Goto(c, "Commit") /\ UNCHANGED st
     \/ /\ st[s] = "Recycling"
        /\ \/ Goto(c, next) /\ st' = [st EXCEPT ![s] = newSt]
           \/ mayFail /\ Goto(c, "TakeDead") /\ st' = [st EXCEPT ![s] = "DeadConn"]
  /\ UNCHANGED <<attempt, slot, idle, term, target, reap, closes, inflight, shutVars>>

\* closeTarget is skipped when no target was recorded.
CloseTarget(c) == Recycle(c, "CloseTab", target[slot[c]], "Dispose", "Recycling")
                  /\ UNCHANGED dirty
DisposeCtx(c)  == Recycle(c, "Dispose", TRUE, "Renew", "Recycling")
                  /\ UNCHANGED dirty
\* Mutant: the slot goes idle with the context of the fetch before.
M_RenewCtxStale(c) == Recycle(c, "Renew", TRUE, "PushBack", "Idle") /\ UNCHANGED dirty
RenewCtx(c)    == /\ Recycle(c, "Renew", TRUE, "PushBack", "Idle")
                  /\ dirty' = [dirty EXCEPT ![slot[c]] = @ /\ pc'[c] # "PushBack"]

PushBack(c) ==
  /\ pc[c] = "PushBack"
  /\ idle' = Append(idle, slot[c])
  /\ slot' = [slot EXCEPT ![c] = NoSlot]
  /\ Goto(c, "Commit")
  /\ UNCHANGED <<attempt, slotVars, inflight, shutVars>>

\* transition_to_dead_and_close, second lock: close the connection if it is
\* still there.
TakeDead(c) ==
  LET s == slot[c] IN
  /\ pc[c] = "TakeDead"
  /\ TakeConn(s)
  /\ IF HasConn(s) THEN Goto(c, "CloseWait") /\ CloseConn(s)
                   ELSE Goto(c, "Commit") /\ UNCHANGED closes
  /\ UNCHANGED <<attempt, slot, idle, term, target, dirty, reap, inflight, shutVars>>

CloseWait(c) ==
  /\ pc[c] = "CloseWait"
  /\ Goto(c, "Commit")
  /\ UNCHANGED <<attempt, slot, idle, slotVars, inflight, shutVars>>

\* commit_decrement, then permit and slot drop.
Commit(c) ==
  /\ pc[c] = "Commit"
  /\ inflight' = Decremented
  /\ Leave(c)
  /\ UNCHANGED <<idle, slotVars, shutVars>>

\* Mutant: no RAII token, a cancelled release() does not decrement.
M_CancelReleaseLeaks(c) ==
  /\ pc[c] \in RecyclePcs \cup {"CloseWait"}
  /\ pc[c] = "CloseTab" => target[slot[c]]
  /\ Leave(c)
  /\ UNCHANGED <<inflight, idle, slotVars, shutVars>>

\* The release() future is dropped at an await: the token decrements, and the
\* slot, still Recycling, goes with its last reference.
CancelRelease(c) ==
  /\ pc[c] \in RecyclePcs \cup {"CloseWait"}
  /\ pc[c] = "CloseTab" => target[slot[c]]
  /\ inflight' = Decremented
  /\ Leave(c)
  /\ UNCHANGED <<idle, slotVars, shutVars>>

-----------------------------------------------------------------------------
(* Drop for PoolGuard: the fetch future was dropped with the guard in it. *)

DropGuard(c) == Claim(c, "DropTake")

DropTake(c) ==
  LET s == slot[c] IN
  /\ pc[c] = "DropTake"
  /\ IF st[s] \in {"CheckedOut", "Recycling"}
       THEN /\ st' = [st EXCEPT ![s] = "Dead"]
            /\ reap' = reap \cup {s}
       ELSE UNCHANGED <<st, reap>>
  /\ Goto(c, "Commit")
  /\ UNCHANGED <<attempt, slot, idle, term, target, dirty, closes, inflight, shutVars>>

\* A detached task closes the connection it owns.
Reap(s) ==
  /\ s \in reap
  /\ reap' = reap \ {s}
  /\ CloseConn(s)
  /\ UNCHANGED <<clientVars, idle, st, term, target, dirty, inflight, shutVars>>

-----------------------------------------------------------------------------
(* shutdown() *)

BeginShutdown ==
  /\ spc = "Serving"
  /\ spc' = "Drain"
  /\ UNCHANGED <<clientVars, idle, slotVars, inflight, todo, cur, own>>

\* Mutant: the drain has no deadline.
M_EndDrainWaits ==
  /\ spc = "Drain"
  /\ inflight = 0
  /\ spc' = "TakeIdle"
  /\ UNCHANGED <<clientVars, idle, slotVars, inflight, todo, cur, own>>

\* Phase 1 ends when inflight is 0 or at the deadline.  A notification missed
\* between the load and notified() only makes the wait last to the deadline.
EndDrain ==
  /\ spc = "Drain"
  /\ inflight = 0 \/ MayExpire
  /\ spc' = "TakeIdle"
  /\ UNCHANGED <<clientVars, idle, slotVars, inflight, todo, cur, own>>

\* Mutant: the free list is copied, not taken.
M_TakeIdleCopies ==
  /\ spc = "TakeIdle"
  /\ todo' = {idle[i] : i \in DOMAIN idle}
  /\ spc' = "CloseIdle"
  /\ UNCHANGED <<clientVars, idle, slotVars, inflight, cur, own>>

TakeIdle ==
  /\ spc = "TakeIdle"
  /\ todo' = {idle[i] : i \in DOMAIN idle}
  /\ idle' = <<>>
  /\ spc' = "CloseIdle"
  /\ UNCHANGED <<clientVars, slotVars, inflight, cur, own>>

CloseIdle(s) ==
  /\ spc = "CloseIdle"
  /\ s \in todo
  /\ todo' = todo \ {s}
  /\ TakeConn(s)
  /\ IF HasConn(s) THEN CloseConn(s) ELSE UNCHANGED closes
  /\ UNCHANGED <<clientVars, idle, term, target, dirty, reap, inflight, spc, cur, own>>

EndCloseIdle ==
  /\ spc = "CloseIdle"
  /\ todo = {}
  /\ spc' = "Registry"
  /\ UNCHANGED <<clientVars, idle, slotVars, inflight, todo, cur, own>>

\* Phase 3 clones the registry without its dead entries.
ReadRegistry ==
  /\ spc = "Registry"
  /\ todo' = {s \in Slots : Held(s)}
  /\ spc' = "Force"
  /\ UNCHANGED <<clientVars, idle, slotVars, inflight, cur, own>>

ForceClaim(s) ==
  /\ spc = "Force"
  /\ s \in todo
  /\ todo' = todo \ {s}
  /\ IF Held(s)
       THEN /\ cur' = s
            /\ own' = ~term[s]
            /\ term' = [term EXCEPT ![s] = TRUE]
            /\ spc' = "ForceTake"
       ELSE UNCHANGED <<cur, own, term, spc>>
  /\ UNCHANGED <<clientVars, idle, st, target, dirty, reap, closes, inflight>>

ForceTake ==
  /\ spc = "ForceTake"
  /\ TakeConn(cur)
  /\ IF HasConn(cur) THEN CloseConn(cur) ELSE UNCHANGED closes
  /\ spc' = "ForceDec"
  /\ UNCHANGED <<clientVars, idle, term, target, dirty, reap, inflight, todo, cur, own>>

ForceDec ==
  /\ spc = "ForceDec"
  /\ inflight' = IF own THEN Decremented ELSE inflight
  /\ own' = FALSE
  /\ cur' = NoSlot
  /\ spc' = "Force"
  /\ UNCHANGED <<clientVars, idle, slotVars, todo>>

EndForce ==
  /\ spc = "Force"
  /\ todo = {}
  /\ spc' = "Sweep"
  /\ UNCHANGED <<clientVars, idle, slotVars, inflight, todo, cur, own>>

Sweep ==
  /\ spc = "Sweep"
  /\ idle' = <<>>
  /\ spc' = "Down"
  /\ UNCHANGED <<clientVars, slotVars, inflight, todo, cur, own>>

-----------------------------------------------------------------------------
ReleaseStep(c) ==
  \/ Snapshot(c) \/ CloseTarget(c) \/ DisposeCtx(c) \/ RenewCtx(c)
  \/ PushBack(c) \/ TakeDead(c) \/ CloseWait(c) \/ Commit(c) \/ DropTake(c)

AcquireStep(c) ==
  \/ PopIdle(c) \/ PopNone(c) \/ StaleCheck(c) \/ HealthCheck(c)
  \/ CreateSlot(c) \/ CheckOut(c) \/ CountInflight(c)

Shutdown ==
  \/ EndDrain \/ TakeIdle \/ EndCloseIdle \/ ReadRegistry \/ ForceTake
  \/ ForceDec \/ EndForce \/ Sweep
  \/ \E s \in Slots : CloseIdle(s) \/ ForceClaim(s)

Next ==
  \/ \E c \in Clients :
       \/ Request(c) \/ GetPermit(c) \/ GiveUpWaiting(c)
       \/ AcquireStep(c) \/ AbandonAcquire(c)
       \/ RecordTarget(c) \/ Release(c) \/ DropGuard(c)
       \/ ReleaseStep(c) \/ CancelRelease(c)
  \/ \E s \in Slots : Reap(s)
  \/ BeginShutdown
  \/ Shutdown

Spec == Init /\ [][Next]_vars

(* Fairness: shutdown() itself is always scheduled; clients may stop anywhere
   unless a property assumes ClientFairness.  That is: tokio runs every ready
   task; each CDP call, connection attempt and fetch has a timeout, so every
   await returns; tokio's semaphore serves waiters in FIFO order, hence the
   strong fairness of GetPermit. *)
FairSpec == Spec /\ WF_vars(Shutdown)

ClientFairness ==
  /\ \A c \in Clients :
       /\ SF_vars(GetPermit(c))
       /\ WF_vars(closed /\ GiveUpWaiting(c))
       /\ WF_vars(AcquireStep(c))
       /\ WF_vars(Release(c) \/ DropGuard(c))
       /\ WF_vars(ReleaseStep(c))
  /\ \A s \in Slots : WF_vars(Reap(s))

-----------------------------------------------------------------------------
(* Properties *)

\* The types of the variables.
TypeOK ==
  /\ pc \in [Clients -> ClientPc]
  /\ attempt \in [Clients -> 0..2]
  /\ slot \in [Clients -> Slots \cup {NoSlot}]
  /\ idle \in Seq(Slots)
  /\ st \in [Slots -> SlotState]
  /\ term \in [Slots -> BOOLEAN]
  /\ target \in [Slots -> BOOLEAN]
  /\ dirty \in [Slots -> BOOLEAN]
  /\ reap \subseteq Slots
  /\ closes \in [Slots -> Nat]
  /\ inflight \in Nat
  /\ spc \in ShutdownPc
  /\ todo \subseteq Slots
  /\ cur \in Slots \cup {NoSlot}
  /\ own \in BOOLEAN

InIdle(s) == \E i \in DOMAIN idle : idle[i] = s

\* A slot has one user: it is never twice in the free list, never both in the
\* free list and in a client's hands, never in two clients' hands
\* (acquire, release, Drop and both shutdown phases racing).
SlotExclusive ==
  /\ \A i, j \in DOMAIN idle : idle[i] = idle[j] => i = j
  /\ \A c \in Clients : ~InIdle(slot[c])
  /\ \A c, d \in Clients : slot[c] = slot[d] => c = d \/ slot[c] = NoSlot

\* The pool's variables have their types, and its slots one user each.
SlotsSound == TypeOK /\ SlotExclusive

\* The permit is taken before the idle/create decision, so that concurrent
\* acquirers cannot both see room and create: at most Size slots are pooled.
PoolBound ==
  Cardinality({s \in Slots : InIdle(s) \/ \E c \in Clients : slot[c] = s}) <= Size

\* Whoever takes the connection out of a slot closes it, and nobody else:
\* release, Drop's reaper, the health check and shutdown never close it twice.
ConnClosedOnce ==
  \A s \in Slots : closes[s] + (IF s \in reap THEN 1 ELSE 0) <= 1

BeforeForce == spc \in {"Serving", "Drain", "TakeIdle", "CloseIdle", "Registry"}

\* Clients that are counted: counted in by acquire(), not yet counted out.
Counted == {c \in Clients : pc[c] \in {"Using"} \cup TokenPcs}

\* Until shutdown starts to force slots, inflight counts each checked-out
\* guard and each recycle exactly once, whatever was cancelled or dropped.
InflightExact == BeforeForce => inflight = Cardinality(Counted)

\* What acquire() limits and shutdown waits for: how many slots are pooled, and
\* how many of them are checked out.
SlotsCounted == PoolBound /\ InflightExact

\* A context a client gets has never shown another client's page, however the
\* recycle before it ended (failed dispose, cancelled release, dropped guard).
CleanCheckout ==
  \A c \in Clients : pc[c] = "Count" => ~dirty[slot[c]]

\* No connection is closed under a guard in use or while its slot waits in
\* the free list, until shutdown's forced phase.
ConnOpenWhileUsed ==
  BeforeForce =>
    \A s \in Slots :
      \/ InIdle(s)
      \/ \E c \in Clients : slot[c] = s /\ pc[c] \in {"CheckOut", "Count", "Using"}
      => HasConn(s) /\ closes[s] = 0 /\ s \notin reap

\* A task that waits for a permit gets one or is turned away by shutdown: the
\* permits before it come back, whichever way acquire, fetch and recycle end.
WaiterServed ==
  ClientFairness => \A c \in Clients : pc[c] = "Waiting" ~> pc[c] # "Waiting"

\* shutdown() returns once started, even when no client takes another step and
\* guards are never given back.
ShutdownReturns == spc = "Drain" ~> spc = "Down"

-----------------------------------------------------------------------------
\* What the pool promises its clients: see SlotLease.
Lease == [c \in Clients |-> IF pc[c] \in {"Count", "Using"} \cup TokenPcs
                            THEN slot[c] ELSE NoSlot]
Abstract == INSTANCE SlotLease WITH open <- ~closed, admitted <- Holders, lease <- Lease
ImplementsSlotLease == Abstract!Spec
=============================================================================
