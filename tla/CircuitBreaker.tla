--------------------------- MODULE CircuitBreaker ---------------------------
(***************************************************************************)
(* The circuit breakers of one renderer tier (crw-renderer/src/breaker.rs) *)
(* and the requests that consult them (crw-renderer/src/lib.rs,            *)
(* fetch_with_js and try_hedge).  A tier has one global breaker and one    *)
(* breaker per host, kept in a cache that may drop an entry at any moment. *)
(* Each breaker is behind its own mutex, so a step of the model is one     *)
(* critical section on one breaker; a request that consults both takes two *)
(* steps and others run in between.  A request is a future that its caller *)
(* may drop at any await.                                                  *)
(*                                                                         *)
(* Time is counted in ticks: `left' is the number of ticks until the timer *)
(* of the breaker's present state has run out (the cooldown when open, the *)
(* evaluation timeout when half-open, the ejection reset when closed).     *)
(***************************************************************************)
EXTENDS Integers, Sequences, FiniteSets

CONSTANTS
    Callers,            \* requests, one at a time per name
    Hosts,
    Arcs,               \* names for host breakers; a name is reused once free
    Global,             \* the tier's global breaker
    WindowSize, MinCalls, FailPct,      \* when a closed breaker trips
    BaseCooldown, MaxCooldown,
    MaxProbes, SuccessPct, EvalTimeout, \* how a half-open breaker decides
    ResetAfter,
    MaxEjections,       \* u32::MAX in the code: the counter saturates
    CountTruncated,     \* count_truncated_as_failure
    RecoveryArm         \* the tier is also run by a recovery arm

ASSUME ConfigAssumption ==
    /\ WindowSize \in Nat \ {0}
    /\ MinCalls \in Nat \ {0}
    /\ FailPct \in 1 .. 100
    /\ BaseCooldown \in Nat \ {0}
    /\ MaxCooldown \in Nat \ {0}
    /\ MaxProbes \in Nat \ {0}
    /\ SuccessPct \in 1 .. 100
    /\ EvalTimeout \in Nat
    /\ ResetAfter \in Nat
    /\ MaxEjections \in Nat \ {0}
    /\ CountTruncated \in BOOLEAN
    /\ RecoveryArm \in BOOLEAN
ASSUME NameAssumption == Global \notin Arcs

VARIABLES
    brk,        \* [Breakers -> Breaker], the contents of each mutex
    cell,       \* [Hosts -> Arcs], the registry's host cache
    pc, host,   \* where each request is, and the host it fetches
    harc,       \* the host breaker the request (then its guard) refers to
    gprobe,     \* the global breaker granted this request a probe
    armed,      \* a ProbeGuard is armed
    report,     \* what the attempt is about to record
    ticket,     \* history: the breakers whose present half-open period
                \* admitted this request as a probe, not yet settled
    orphans     \* history: probes admitted by a present half-open period
                \* whose request went away without recording or cancelling
callerVars == <<cell, host, harc, gprobe, armed, report>>
vars == <<brk, cell, pc, host, harc, gprobe, armed, report, ticket, orphans>>

Breakers == {Global} \cup Arcs
Phase == {"closed", "open", "half"}
Breaker ==
    [phase : Phase, left : Nat, admitted : Nat, succeeded : Nat, failed : Nat,
     ejections : 0 .. MaxEjections, window : Seq({"success", "failure"})]
EmptyWindow == << >>
Class == {"success", "failure", "ignored"}
Report == [g : Class \cup {"none"}, h : Class, end : {"disarm", "drop", "leak"}]
Stage == {"idle", "askGlobal", "askHost", "giveBack", "skipped", "guard",
          "run", "leakRun", "recGlobal", "recHost", "recorded",
          "dropGlobal", "dropHost"}
NoReport == [g |-> "none", h |-> "ignored", end |-> "disarm"]

-----------------------------------------------------------------------------
(* One breaker: the code's methods as functions of the mutex's contents. *)

Fresh ==
    [phase |-> "closed", left |-> ResetAfter, admitted |-> 0, succeeded |-> 0,
     failed |-> 0, ejections |-> 0, window |-> EmptyWindow]

Advances(outcome) ==
    /\ outcome \notin {"DeadlineClamped", "SiteBlocked"}
    /\ outcome = "Truncated" => CountTruncated

IsFailure(outcome) ==
    \/ outcome \in {"TierTimeout", "ConnectionError", "RenderError"}
    \/ outcome = "Truncated" /\ CountTruncated

Classify(outcome) ==
    IF ~Advances(outcome) THEN "ignored"
    ELSE IF IsFailure(outcome) THEN "failure" ELSE "success"

Least(a, b) == IF a <= b THEN a ELSE b
CurrentCooldown(n) ==
    Least(BaseCooldown * (IF n = 0 THEN 1 ELSE n), MaxCooldown)

Close(b) ==
    [b EXCEPT !.phase = "closed", !.left = ResetAfter, !.admitted = 0,
              !.succeeded = 0, !.failed = 0, !.window = EmptyWindow]

Eject(b) ==
    LET n == Least(b.ejections + 1, MaxEjections)
    IN [b EXCEPT !.phase = "open", !.left = CurrentCooldown(n), !.admitted = 0,
                 !.succeeded = 0, !.failed = 0, !.ejections = n]

Greatest(a, b) == IF a >= b THEN a ELSE b

\* Mutant: the evaluation timeout closes without any success.
M_EasyLazyEvaluate(b) ==
    CASE b.phase = "open" /\ b.left = 0 ->
            [b EXCEPT !.phase = "half", !.left = EvalTimeout, !.admitted = 0,
                      !.succeeded = 0, !.failed = 0]
      [] b.phase = "half" /\ b.left = 0 -> Close(b)
      [] OTHER -> b

\* Mutant: no evaluation timeout.
M_PatientLazyEvaluate(b) ==
    IF b.phase = "open" /\ b.left = 0
    THEN [b EXCEPT !.phase = "half", !.left = EvalTimeout, !.admitted = 0,
                   !.succeeded = 0, !.failed = 0]
    ELSE b

\* What every call but cancel_probe does first.
LazyEvaluate(b) ==
    CASE b.phase = "open" /\ b.left = 0 ->
            [b EXCEPT !.phase = "half", !.left = EvalTimeout, !.admitted = 0,
                      !.succeeded = 0, !.failed = 0]
      [] /\ b.phase = "half" /\ b.left = 0
         /\ b.succeeded + b.failed < Greatest(b.admitted, MaxProbes) ->
            IF b.succeeded = 0 THEN Eject(b) ELSE Close(b)
      [] b.phase = "closed" /\ b.left = 0 /\ b.ejections > 0 ->
            [b EXCEPT !.ejections = 0]
      [] OTHER -> b

\* Mutant: the quota is off by one.
M_Permit(b) ==
    CASE b.phase = "closed" -> "Allowed"
      [] b.phase = "half" /\ b.admitted <= MaxProbes -> "Probe"
      [] OTHER -> "Rejected"

Permit(b) ==
    CASE b.phase = "closed" -> "Allowed"
      [] b.phase = "half" /\ b.admitted < MaxProbes -> "Probe"
      [] OTHER -> "Rejected"

\* Mutant: an admitted probe is not counted.
M_Acquire(b) == b

Acquire(b) ==
    IF Permit(b) = "Probe" THEN [b EXCEPT !.admitted = @ + 1] ELSE b

CancelProbe(b) ==
    IF b.phase = "half" /\ b.admitted > 0
    THEN [b EXCEPT !.admitted = @ - 1] ELSE b

Push(w, slot) ==
    IF Len(w) < WindowSize THEN Append(w, slot) ELSE Append(Tail(w), slot)
Failures(w) == Cardinality({i \in DOMAIN w : w[i] = "failure"})
Trips(w) ==
    /\ Len(w) >= MinCalls
    /\ 100 * Failures(w) >= FailPct * Len(w)

Count(b, class) ==
    IF class = "failure" THEN [b EXCEPT !.failed = @ + 1]
                         ELSE [b EXCEPT !.succeeded = @ + 1]
Decide(b) ==
    IF b.succeeded + b.failed < MaxProbes THEN b
    ELSE IF 100 * b.succeeded >= SuccessPct * MaxProbes THEN Close(b)
    ELSE Eject(b)

Slide(b, class) ==
    LET w == Push(b.window, class)
    IN IF Trips(w) THEN [Eject(b) EXCEPT !.window = EmptyWindow]
                   ELSE [b EXCEPT !.window = w]

\* Mutant: a success recorded while open closes the breaker.
M_RecordOutcome(b, class) ==
    CASE b.phase = "half" /\ class = "ignored" -> CancelProbe(b)
      [] b.phase = "half" /\ class # "ignored" -> Decide(Count(b, class))
      [] b.phase = "closed" /\ class # "ignored" -> Slide(b, class)
      [] b.phase = "open" /\ class = "success" -> Close(b)
      [] OTHER -> b

RecordOutcome(b, class) ==
    CASE b.phase = "half" /\ class = "ignored" -> CancelProbe(b)
      [] b.phase = "half" /\ class # "ignored" -> Decide(Count(b, class))
      [] b.phase = "closed" /\ class # "ignored" -> Slide(b, class)
      [] OTHER -> b

-----------------------------------------------------------------------------
(* The requests. *)

Init ==
    /\ brk = [b \in Breakers |-> Fresh]
    /\ cell \in [Hosts -> Arcs]
    /\ \A g, h \in Hosts : cell[g] = cell[h] => g = h
    /\ pc = [c \in Callers |-> "idle"]
    /\ host \in [Callers -> Hosts]
    /\ harc = [c \in Callers |-> cell[host[c]]]
    /\ gprobe = [c \in Callers |-> FALSE]
    /\ armed = [c \in Callers |-> FALSE]
    /\ report = [c \in Callers |-> NoReport]
    /\ ticket = [c \in Callers |-> {}]
    /\ orphans = [b \in Breakers |-> 0]

Goto(c, stage) == pc' = [pc EXCEPT ![c] = stage]

\* Replace what breaker b holds by `new'.  Leaving the half-open state settles
\* every probe of that period; `mine' are c's tickets after its own call.
Write(c, b, new, mine) ==
    LET ends == brk[b].phase = "half" /\ new.phase # "half"
    IN /\ brk' = [brk EXCEPT ![b] = new]
       /\ ticket' = [d \in Callers |->
                        (IF d = c THEN mine ELSE ticket[d])
                            \ (IF ends THEN {b} ELSE {})]

\* Only a call that evaluates the state can end a half-open period.
Settle(b, new) ==
    orphans' = [orphans EXCEPT ![b] =
                    IF brk[b].phase = "half" /\ new.phase # "half" THEN 0 ELSE @]

Update(c, b, new, mine) == Write(c, b, new, mine) /\ Settle(b, new)

\* The count stops at MaxProbes, which no half-open period's slots exceed.
Orphan(slots) ==
    orphans' = [b \in Breakers |->
        IF b \in slots THEN Least(orphans[b] + 1, MaxProbes) ELSE orphans[b]]

\* A request leaves for good; a slot it still holds has no owner any more.
Leave(c) ==
    /\ Goto(c, "idle")
    /\ ticket' = [ticket EXCEPT ![c] = {}]
    /\ Orphan(ticket[c])
    /\ armed' = [armed EXCEPT ![c] = FALSE]
    /\ report' = [report EXCEPT ![c] = NoReport]
    /\ gprobe' = [gprobe EXCEPT ![c] = FALSE]

\* acquire_with_guard -> try_acquire: host_for runs before either breaker.
Ask(c, h) ==
    /\ pc[c] = "idle"
    /\ host' = [host EXCEPT ![c] = h]
    /\ harc' = [harc EXCEPT ![c] = cell[h]]
    /\ Goto(c, "askGlobal")
    /\ UNCHANGED <<brk, cell, gprobe, armed, report, ticket, orphans>>

TryGlobal(c) ==
    LET b == LazyEvaluate(brk[Global])
        probe == Permit(b) = "Probe"
    IN /\ pc[c] = "askGlobal"
       /\ Update(c, Global, Acquire(b), IF probe THEN {Global} ELSE {})
       /\ gprobe' = [gprobe EXCEPT ![c] = probe]
       /\ Goto(c, IF Permit(b) = "Rejected" THEN "skipped" ELSE "askHost")
       /\ UNCHANGED <<cell, host, harc, armed, report>>

TryHost(c) ==
    LET b == LazyEvaluate(brk[harc[c]])
        probe == Permit(b) = "Probe"
    IN /\ pc[c] = "askHost"
       /\ Update(c, harc[c], Acquire(b),
                 ticket[c] \cup (IF probe THEN {harc[c]} ELSE {}))
       /\ Goto(c, CASE Permit(b) = "Rejected" /\ gprobe[c] -> "giveBack"
                    [] Permit(b) = "Rejected" /\ ~gprobe[c] -> "skipped"
                    [] Permit(b) # "Rejected" /\ (probe \/ gprobe[c]) -> "guard"
                    [] OTHER -> "run")
       /\ UNCHANGED callerVars

GiveBack(c) ==
    /\ pc[c] = "giveBack"
    /\ Update(c, Global, CancelProbe(brk[Global]), ticket[c] \ {Global})
    /\ Goto(c, "skipped")
    /\ UNCHANGED callerVars

\* Mutant: the guard is made unarmed.
M_MakeGuard(c) ==
    /\ pc[c] = "guard"
    /\ harc' = [harc EXCEPT ![c] = cell[host[c]]]
    /\ Goto(c, "run")
    /\ UNCHANGED <<brk, cell, host, gprobe, armed, report, ticket, orphans>>

\* The second host_for of acquire_with_guard, then the guard on both breakers.
MakeGuard(c) ==
    /\ pc[c] = "guard"
    /\ harc' = [harc EXCEPT ![c] = cell[host[c]]]
    /\ armed' = [armed EXCEPT ![c] = TRUE]
    /\ Goto(c, "run")
    /\ UNCHANGED <<brk, cell, host, gprobe, report, ticket, orphans>>

\* The future is dropped at that host_for's await: there is no guard yet.
CancelUnguarded(c) ==
    /\ pc[c] = "guard"
    /\ Leave(c)
    /\ UNCHANGED <<brk, cell, host, harc>>

\* A recovery arm: it reads is_open on the host breaker and takes no permit.
ArmCheck(c, h) ==
    LET b == LazyEvaluate(brk[cell[h]])
    IN /\ pc[c] = "idle" /\ RecoveryArm
       /\ Update(c, cell[h], b, {})
       /\ host' = [host EXCEPT ![c] = h]
       /\ harc' = [harc EXCEPT ![c] = cell[h]]
       /\ Goto(c, IF b.phase = "open" THEN "idle" ELSE "run")
       /\ UNCHANGED <<cell, gprobe, armed, report>>

\* The arm of a request that opted into the metered tier does not look.
ArmOpted(c, h) ==
    /\ pc[c] = "idle" /\ RecoveryArm
    /\ host' = [host EXCEPT ![c] = h]
    /\ Goto(c, "run")
    /\ UNCHANGED <<brk, cell, harc, gprobe, armed, report, ticket, orphans>>

\* What an attempt of the ladder records, globally and for the host, and what
\* becomes of its guard.
ErrorOutcome == {"DeadlineClamped", "TierTimeout", "RenderError"}
LadderReports ==
    {[g |-> Classify(o), h |-> Classify(o), end |-> "disarm"] :
        o \in {"Success", "Truncated"} \cup ErrorOutcome}
    \cup {[g |-> "none", h |-> Classify(o), end |-> e] :
        o \in {"SiteBlocked", "RenderError"}, e \in {"disarm", "drop"}}
LeakReports ==
    {[g |-> "none", h |-> Classify(o), end |-> "leak"] :
        o \in {"Success", "Truncated", "SiteBlocked"} \cup ErrorOutcome}

Finish(c) ==
    \E r \in CASE pc[c] = "run" -> LadderReports
               [] pc[c] = "leakRun" -> LeakReports
               [] OTHER -> {} :
        /\ report' = [report EXCEPT ![c] = r]
        /\ Goto(c, "recGlobal")
        /\ UNCHANGED <<brk, cell, host, harc, gprobe, armed, ticket, orphans>>

\* Mutant: a tier with nothing to record keeps its probe.
M_RecordGlobal(c) ==
    LET b == IF report[c].g = "none" THEN brk[Global]
             ELSE RecordOutcome(LazyEvaluate(brk[Global]), report[c].g)
    IN /\ pc[c] = "recGlobal"
       /\ Update(c, Global, b, ticket[c] \ {Global})
       /\ Goto(c, "recHost")
       /\ UNCHANGED callerVars

\* record_outcome and record_scoped_outcome: first the global breaker, which
\* gets its probe back when there is nothing to record,
RecordGlobal(c) ==
    LET b == IF report[c].g = "none" THEN CancelProbe(brk[Global])
             ELSE RecordOutcome(LazyEvaluate(brk[Global]), report[c].g)
    IN /\ pc[c] = "recGlobal"
       /\ Update(c, Global, b, ticket[c] \ {Global})
       /\ Goto(c, "recHost")
       /\ UNCHANGED callerVars

\* then, after another host_for, the breaker the cache holds for the host.
RecordHost(c) ==
    LET a == cell[host[c]]
    IN /\ pc[c] = "recHost"
       /\ Update(c, a, RecordOutcome(LazyEvaluate(brk[a]), report[c].h),
                 ticket[c] \ {a})
       /\ Goto(c, "recorded")
       /\ UNCHANGED callerVars

\* The bookkeeping is over: the guard is disarmed, or dropped as it is.
EndAttempt(c) ==
    /\ pc[c] = "recorded"
    /\ IF report[c].end = "drop" /\ armed[c]
       THEN Goto(c, "dropGlobal") /\ UNCHANGED <<armed, report, gprobe, ticket, orphans>>
       ELSE Leave(c)
    /\ UNCHANGED <<brk, cell, host, harc>>

\* The future is dropped, or the budget is found drained before the fetch, or
\* the hedge lost: an armed guard cancels, a leaked probe has no guard.
Abort(c) ==
    /\ pc[c] \in {"run", "leakRun", "recHost", "recorded"}
    /\ IF armed[c]
       THEN Goto(c, "dropGlobal") /\ UNCHANGED <<armed, report, gprobe, ticket, orphans>>
       ELSE Leave(c)
    /\ UNCHANGED <<brk, cell, host, harc>>

DropGlobal(c) ==
    /\ pc[c] = "dropGlobal"
    /\ Update(c, Global, CancelProbe(brk[Global]), ticket[c] \ {Global})
    /\ Goto(c, "dropHost")
    /\ UNCHANGED callerVars

DropHost(c) ==
    /\ pc[c] = "dropHost"
    /\ brk' = [brk EXCEPT ![harc[c]] = CancelProbe(brk[harc[c]])]
    /\ Goto(c, "idle")
    /\ ticket' = [ticket EXCEPT ![c] = {}]
    /\ Orphan(ticket[c] \ {harc[c]})
    /\ armed' = [armed EXCEPT ![c] = FALSE]
    /\ report' = [report EXCEPT ![c] = NoReport]
    /\ gprobe' = [gprobe EXCEPT ![c] = FALSE]
    /\ UNCHANGED <<cell, host, harc>>

\* Leak-through: the tier was skipped; one attempt on the host's say alone.
Leak(c) ==
    LET a == cell[host[c]]
        b == LazyEvaluate(brk[a])
    IN /\ pc[c] = "skipped"
       /\ Permit(b) # "Rejected"
       /\ Update(c, a, Acquire(b), IF Permit(b) = "Probe" THEN {a} ELSE {})
       /\ Goto(c, "leakRun")
       /\ UNCHANGED callerVars

NoLeak(c) ==
    /\ pc[c] = "skipped"
    /\ \/ UNCHANGED <<brk, ticket, orphans>>
       \/ LET a == cell[host[c]]
              b == LazyEvaluate(brk[a])
          IN Permit(b) = "Rejected" /\ Update(c, a, b, {})
    /\ Goto(c, "idle")
    /\ gprobe' = [gprobe EXCEPT ![c] = FALSE]
    /\ UNCHANGED <<cell, host, harc, armed, report>>

-----------------------------------------------------------------------------
(* The rest of the world. *)

\* is_open and snapshot evaluate the state too.
Observe(b) ==
    LET new == LazyEvaluate(brk[b])
    IN /\ new # brk[b]
       /\ brk' = [brk EXCEPT ![b] = new]
       /\ ticket' = [d \in Callers |->
             IF brk[b].phase = "half" THEN ticket[d] \ {b} ELSE ticket[d]]
       /\ Settle(b, new)
       /\ UNCHANGED <<cell, pc, host, harc, gprobe, armed, report>>

\* A request refers to its host breaker until it has asked it, and while its
\* guard is armed.
Refers(c) == pc[c] \in {"askGlobal", "askHost"} \/ armed[c]

\* The cache drops a host (idle for a day, or over capacity); the next lookup
\* makes a new breaker, while requests under way keep the old one.
Evict(h) ==
    \E a \in Arcs :
        /\ \A g \in Hosts : cell[g] # a
        /\ \A c \in Callers : Refers(c) => harc[c] # a
        /\ cell' = [cell EXCEPT ![h] = a]
        /\ brk' = [brk EXCEPT ![a] = Fresh]
        /\ ticket' = [c \in Callers |-> ticket[c] \ {a}]
        /\ orphans' = [orphans EXCEPT ![a] = 0]
        /\ UNCHANGED <<pc, host, harc, gprobe, armed, report>>

Tick ==
    /\ \E b \in Breakers : brk[b].left > 0
    /\ brk' = [b \in Breakers |->
          [brk[b] EXCEPT !.left = IF @ > 0 THEN @ - 1 ELSE 0]]
    /\ UNCHANGED <<cell, pc, host, harc, gprobe, armed, report, ticket, orphans>>

Request(c) ==
    \/ \E h \in Hosts : Ask(c, h) \/ ArmCheck(c, h) \/ ArmOpted(c, h)
    \/ TryGlobal(c) \/ TryHost(c) \/ GiveBack(c)
    \/ MakeGuard(c) \/ CancelUnguarded(c)
    \/ Finish(c) \/ RecordGlobal(c) \/ RecordHost(c) \/ EndAttempt(c)
    \/ Abort(c) \/ DropGlobal(c) \/ DropHost(c)
    \/ Leak(c) \/ NoLeak(c)

Next ==
    \/ \E c \in Callers : Request(c)
    \/ \E b \in Breakers : Observe(b)
    \/ \E h \in Hosts : Evict(h)
    \/ Tick

Spec == Init /\ [][Next]_vars

-----------------------------------------------------------------------------
(* Properties. *)

TypeOK ==
    /\ brk \in [Breakers -> Breaker]
    /\ cell \in [Hosts -> Arcs]
    /\ pc \in [Callers -> Stage]
    /\ host \in [Callers -> Hosts]
    /\ harc \in [Callers -> Arcs]
    /\ gprobe \in [Callers -> BOOLEAN]
    /\ armed \in [Callers -> BOOLEAN]
    /\ report \in [Callers -> Report]
    /\ ticket \in [Callers -> SUBSET Breakers]
    /\ orphans \in [Breakers -> 0 .. MaxProbes]

\* A half-open breaker never hands out more than MaxProbes slots at a time and
\* is always still undecided: the outcome that completes the quota decides in
\* the same critical section, so the forced decision at the evaluation timeout
\* can never find a complete but undecided period.
ProbeQuota ==
    \A b \in Breakers :
        brk[b].phase = "half" =>
            /\ brk[b].admitted <= MaxProbes
            /\ brk[b].succeeded + brk[b].failed < MaxProbes

\* Only a closed breaker keeps a window and only a closed breaker may have
\* forgotten its ejections: whichever way a breaker came to be open or
\* half-open, its next cooldown grows from a non-zero count, and the window it
\* closes with is empty, so outcomes from before the outage cannot trip it.
OutageMemory ==
    \A b \in Breakers :
        brk[b].phase # "closed" => brk[b].ejections > 0 /\ brk[b].window = EmptyWindow

\* What try_acquire and record_outcome leave behind: counters in their types,
\* and of a breaker that is not closed a half-open period within its quota and
\* undecided, and the memory of the outage.
RecoverySound == TypeOK /\ ProbeQuota /\ OutageMemory

\* No probe slot is lost: every slot a half-open breaker has handed out belongs
\* to a request under way, to an outcome already counted, or to a request that
\* was dropped where no guard protected it.  A slot held by nobody would make
\* the breaker reject every host although nothing is being probed.
Owners(b) == {c \in Callers : b \in ticket[c]}
SlotAccounted ==
    \A b \in Breakers :
        brk[b].phase = "half" =>
            brk[b].admitted <=
                Cardinality(Owners(b)) + brk[b].succeeded + brk[b].failed + orphans[b]

\* A probe is orphaned only where the code has no guard: in a leak-through
\* attempt, between the permit and its guard, or when the host's breaker was
\* replaced under the request.  In particular the global breaker loses no slot
\* to anything but a future dropped before its guard exists.
GlobalOrphanStep ==
    orphans'[Global] > orphans[Global] =>
        \E c \in Callers : pc[c] = "guard" /\ pc'[c] = "idle"
GlobalSlotsGuarded == [][GlobalOrphanStep]_vars

\* What c's next call does to b: report an attempt, or give a slot back.
Settles(c, b) ==
    \/ pc[c] \in {"giveBack", "recGlobal", "dropGlobal"} /\ b = Global
    \/ pc[c] = "recHost" /\ b = cell[host[c]]
    \/ pc[c] = "dropHost" /\ b = harc[c]

\* How many more probes are under way or counted than slots are taken.
Excess(b) ==
    IF brk[b].phase # "half" THEN 0
    ELSE Cardinality(Owners(b)) + brk[b].succeeded + brk[b].failed - brk[b].admitted

\* No more probes than the quota are ever live, but for what somebody reports or
\* cancels who holds no slot: with `admitted' within the quota, live and counted
\* probes exceed it by the excess, and only such a call makes that grow.
ExcessStep ==
    \A b \in Breakers :
        brk'[b].phase = "half" /\ Excess(b)' > Excess(b) =>
            \E c \in Callers : Settles(c, b) /\ b \notin ticket[c] /\ pc'[c] # pc[c]
ExcessExplained == [][ExcessStep]_vars

\* An open breaker stays open for its whole cooldown whatever is recorded or
\* asked meanwhile; only a host's eviction replaces it by a fresh one.
CooldownStep ==
    \A b \in Breakers :
        brk[b].phase = "open" /\ brk[b].left > 0 =>
            \/ brk'[b].phase = "open"
                    /\ brk'[b].left <= brk[b].left
                    /\ brk'[b].ejections = brk[b].ejections
            \/ b # Global /\ brk'[b] = Fresh
CooldownKept == [][CooldownStep]_vars

\* A half-open breaker closes only on evidence: a success counted in this
\* period, by then or by the very call that closes it.
EvidenceStep ==
    \A b \in Breakers :
        brk[b].phase = "half" /\ brk'[b].phase = "closed" =>
            \/ brk[b].succeeded > 0
            \/ b # Global /\ brk'[b] = Fresh
            \/ \E c \in Callers :
                  \/ pc[c] = "recGlobal" /\ b = Global /\ report[c].g = "success"
                  \/ pc[c] = "recHost" /\ b = cell[host[c]] /\ report[c].h = "success"
CloseNeedsEvidence == [][EvidenceStep]_vars

-----------------------------------------------------------------------------
(* Fairness.  Time passes, and the breaker keeps being consulted: a breaker *)
(* nobody asks never changes, its state is evaluated lazily.                *)

FairSpec ==
    /\ Spec
    /\ WF_vars(Tick)
    /\ \A b \in Breakers : WF_vars(Observe(b))

\* A half-open period always ends: even when every slot has been lost, the
\* evaluation timeout forces a decision, so a tier is not rejected for ever.
HalfOpenResolves ==
    \A b \in Breakers : brk[b].phase = "half" ~> brk[b].phase # "half"

-----------------------------------------------------------------------------
(* What the comments of the code say, and the code does not do. *)

\* lib.rs on the leak-through attempt: `Record host only -- global stays
\* untouched so the existing trip can finish its cooldown naturally'.
LeakStep ==
    \A c \in Callers :
        pc[c] = "recGlobal" /\ pc'[c] # pc[c] /\ report[c].end = "leak" =>
            brk'[Global] = brk[Global]
LeakLeavesGlobal == [][LeakStep]_vars
=============================================================================
