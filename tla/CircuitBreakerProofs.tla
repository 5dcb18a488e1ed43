------------------------ MODULE CircuitBreakerProofs ------------------------
(***************************************************************************)
(* Proofs about CircuitBreaker for every number of requests and hosts and  *)
(* every configuration.  A breaker changes only by the methods of the      *)
(* code, so the inductive invariant is about one breaker at a time: Sound, *)
(* which each method keeps (the first lemmas) and each action applies.     *)
(***************************************************************************)
EXTENDS CircuitBreaker, FiniteSetTheorems, TLAPS

\* A breaker's contents in every reachable state.
Sound(b) ==
    /\ b \in Breaker
    /\ b.phase = "half" =>
          b.admitted <= MaxProbes /\ b.succeeded + b.failed < MaxProbes
    /\ b.phase # "closed" => b.ejections > 0 /\ b.window = EmptyWindow

\* The empty window is a window.
LEMMA EmptyWindowType == EmptyWindow \in Seq({"success", "failure"})
BY DEF EmptyWindow

\* The cooldown is a positive number of ticks.
LEMMA CooldownPositive ==
    ASSUME NEW n \in Nat
    PROVE  CurrentCooldown(n) \in Nat /\ CurrentCooldown(n) > 0
<1>1. ASSUME NEW a \in Nat \ {0}, NEW c \in Nat \ {0}
      PROVE  a * c \in Nat /\ a * c > 0
  BY <1>1, SMT
<1>2. DEFINE m == IF n = 0 THEN 1 ELSE n
<1>3. m \in Nat \ {0}
  OBVIOUS
<1>4. BaseCooldown * m \in Nat /\ BaseCooldown * m > 0
  BY <1>1, <1>3, ConfigAssumption
<1> QED
  BY <1>4, ConfigAssumption DEF CurrentCooldown, Least

\* A new breaker is sound.
LEMMA FreshSound == Sound(Fresh)
BY EmptyWindowType, ConfigAssumption DEF Sound, Breaker, Phase, Fresh

\* Closing keeps a breaker sound.
LEMMA CloseSound ==
    ASSUME NEW b \in Breaker
    PROVE  Sound(Close(b)) /\ Close(b).phase = "closed"
BY EmptyWindowType, ConfigAssumption DEF Sound, Breaker, Phase, Close

\* Ejecting opens a breaker, for a positive cooldown, and counts it.
LEMMA EjectSound ==
    ASSUME NEW b \in Breaker
    PROVE  /\ Eject(b) \in Breaker
           /\ Eject(b).phase = "open"
           /\ Eject(b).ejections > 0
           /\ Eject(b).window = b.window
<1> DEFINE n == Least(b.ejections + 1, MaxEjections)
<1>1. n \in 1 .. MaxEjections
  BY ConfigAssumption DEF Breaker, Least
<1>2. CurrentCooldown(n) \in Nat
  BY <1>1, CooldownPositive, ConfigAssumption
<1>3. Eject(b) = [b EXCEPT !.phase = "open", !.left = CurrentCooldown(n),
                    !.admitted = 0, !.succeeded = 0, !.failed = 0, !.ejections = n]
  BY DEF Eject
<1> HIDE DEF n
<1>4. n \in 0 .. MaxEjections /\ n > 0
  BY <1>1, ConfigAssumption
<1>5. DEFINE cooldown == CurrentCooldown(n)
<1> HIDE DEF cooldown
<1>6. /\ [b EXCEPT !.phase = "open", !.left = cooldown, !.admitted = 0,
               !.succeeded = 0, !.failed = 0, !.ejections = n] \in Breaker
      /\ Eject(b).phase = "open"
      /\ Eject(b).ejections = n
      /\ Eject(b).window = b.window
  BY <1>2, <1>3, <1>4 DEF Breaker, Phase, cooldown
<1> QED
  BY <1>3, <1>4, <1>6 DEF cooldown

\* The lazy evaluation keeps a breaker sound.
LEMMA LazySound ==
    ASSUME NEW b, Sound(b)
    PROVE  Sound(LazyEvaluate(b))
<1> USE ConfigAssumption
<1>0. b \in Breaker
  BY DEF Sound
<1>1. CASE b.phase = "open" /\ b.left = 0
  <2> DEFINE r == [b EXCEPT !.phase = "half", !.left = EvalTimeout, !.admitted = 0,
                           !.succeeded = 0, !.failed = 0]
  <2>1. LazyEvaluate(b) = r
    BY <1>1 DEF LazyEvaluate
  <2>2. r \in Breaker
    BY <1>0 DEF Breaker, Phase
  <2>3. /\ r.phase = "half" /\ r.admitted = 0 /\ r.succeeded = 0 /\ r.failed = 0
        /\ r.ejections = b.ejections /\ r.window = b.window
    BY <1>0 DEF Breaker
  <2> HIDE DEF r
  <2>4. b.ejections > 0 /\ b.window = EmptyWindow
    BY <1>1 DEF Sound
  <2>5. Sound(r)
    BY <2>2, <2>3, <2>4 DEF Sound
  <2> QED
    BY <2>1, <2>5
<1>2. CASE /\ b.phase = "half" /\ b.left = 0
           /\ b.succeeded + b.failed < Greatest(b.admitted, MaxProbes)
  <2>1. LazyEvaluate(b) \in {Eject(b), Close(b)}
    BY <1>2 DEF LazyEvaluate
  <2>2. Sound(Eject(b))
    BY <1>0, <1>2, EjectSound DEF Sound
  <2> QED
    BY <1>0, <2>1, <2>2, CloseSound
<1>3. CASE b.phase = "closed" /\ b.left = 0 /\ b.ejections > 0
  <2> DEFINE r == [b EXCEPT !.ejections = 0]
  <2>1. LazyEvaluate(b) = r
    BY <1>3 DEF LazyEvaluate
  <2>2. 0 \in 0 .. MaxEjections
    BY ConfigAssumption
  <2>3. r \in Breaker /\ r.phase = b.phase
    BY <1>0, <2>2 DEF Breaker
  <2> QED
    BY <1>3, <2>1, <2>3 DEF Sound
<1>4. CASE /\ ~(b.phase = "open" /\ b.left = 0)
           /\ ~(/\ b.phase = "half" /\ b.left = 0
                /\ b.succeeded + b.failed < Greatest(b.admitted, MaxProbes))
           /\ ~(b.phase = "closed" /\ b.left = 0 /\ b.ejections > 0)
  BY <1>4 DEF LazyEvaluate
<1> QED
  BY <1>1, <1>2, <1>3, <1>4

\* What it is to change the number of admitted probes.
LEMMA SetAdmitted ==
    ASSUME NEW b, Sound(b), NEW n \in Nat, n <= MaxProbes
    PROVE  Sound([b EXCEPT !.admitted = n])
<1> DEFINE r == [b EXCEPT !.admitted = n]
<1>1. b \in Breaker
  BY DEF Sound
<1>2. r \in Breaker
  BY <1>1 DEF Breaker
<1>3. /\ r.phase = b.phase /\ r.admitted = n /\ r.succeeded = b.succeeded
      /\ r.failed = b.failed /\ r.ejections = b.ejections /\ r.window = b.window
  BY <1>1 DEF Breaker
<1> HIDE DEF r
<1>4. Sound(r)
  BY <1>2, <1>3 DEF Sound
<1> QED
  BY <1>4 DEF r

\* Granting a permit keeps a breaker sound.
LEMMA AcquireSound ==
    ASSUME NEW b, Sound(b)
    PROVE  Sound(Acquire(b))
<1>1. CASE b.phase = "half" /\ b.admitted < MaxProbes
  <2>1. Acquire(b) = [b EXCEPT !.admitted = b.admitted + 1]
    BY <1>1 DEF Acquire, Permit
  <2>2. b.admitted + 1 \in Nat /\ b.admitted + 1 <= MaxProbes
    BY <1>1, ConfigAssumption DEF Sound, Breaker
  <2> QED
    BY <2>1, <2>2, SetAdmitted
<1>2. CASE ~(b.phase = "half" /\ b.admitted < MaxProbes)
  BY <1>2 DEF Acquire, Permit
<1> QED
  BY <1>1, <1>2

\* Cancelling a probe keeps a breaker sound.
LEMMA CancelSound ==
    ASSUME NEW b, Sound(b)
    PROVE  Sound(CancelProbe(b))
<1>1. CASE b.phase = "half" /\ b.admitted > 0
  <2>1. CancelProbe(b) = [b EXCEPT !.admitted = b.admitted - 1]
    BY <1>1 DEF CancelProbe
  <2>2. b.admitted - 1 \in Nat /\ b.admitted - 1 <= MaxProbes
    BY <1>1, ConfigAssumption DEF Sound, Breaker
  <2> QED
    BY <2>1, <2>2, SetAdmitted
<1>2. CASE ~(b.phase = "half" /\ b.admitted > 0)
  BY <1>2 DEF CancelProbe
<1> QED
  BY <1>1, <1>2

\* The sliding window stays a window.
LEMMA PushTyped ==
    ASSUME NEW w \in Seq({"success", "failure"}), NEW slot \in {"success", "failure"}
    PROVE  Push(w, slot) \in Seq({"success", "failure"})
<1>1. CASE Len(w) < WindowSize
  BY <1>1 DEF Push
<1>2. CASE ~(Len(w) < WindowSize)
  <2>1. w # << >>
    BY <1>2, ConfigAssumption
  <2>2. Tail(w) \in Seq({"success", "failure"})
    BY <2>1
  <2> QED
    BY <1>2, <2>2 DEF Push
<1> QED
  BY <1>1, <1>2

\* Recording an outcome keeps a breaker sound.
LEMMA RecordSound ==
    ASSUME NEW b, Sound(b), NEW class \in Class
    PROVE  Sound(RecordOutcome(b, class))
<1>0. b \in Breaker
  BY DEF Sound
<1>1. CASE b.phase = "half" /\ class = "ignored"
  BY <1>1, CancelSound DEF RecordOutcome
<1>2. CASE b.phase = "half" /\ class # "ignored"
  <2> DEFINE d == Count(b, class)
  <2>1. /\ d \in Breaker /\ d.phase = "half" /\ d.admitted <= MaxProbes
        /\ d.window = EmptyWindow /\ d.ejections > 0
    <3>1. /\ b.admitted <= MaxProbes /\ b.ejections > 0 /\ b.window = EmptyWindow
      BY <1>2 DEF Sound
    <3>2. b.failed + 1 \in Nat /\ b.succeeded + 1 \in Nat
      BY <1>0 DEF Breaker
    <3>3. d \in {[b EXCEPT !.failed = b.failed + 1], [b EXCEPT !.succeeded = b.succeeded + 1]}
      BY DEF Count
    <3>4. ASSUME NEW n \in Nat, d \in {[b EXCEPT !.failed = n], [b EXCEPT !.succeeded = n]}
          PROVE  /\ d \in Breaker /\ d.phase = b.phase /\ d.admitted = b.admitted
                 /\ d.window = b.window /\ d.ejections = b.ejections
      BY <1>0, <3>4 DEF Breaker
    <3>5. /\ d \in Breaker /\ d.phase = b.phase /\ d.admitted = b.admitted
          /\ d.window = b.window /\ d.ejections = b.ejections
      BY <3>2, <3>3, <3>4
    <3> QED
      BY <1>2, <3>1, <3>5
  <2>2. RecordOutcome(b, class) = Decide(d)
    BY <1>2 DEF RecordOutcome
  <2> HIDE DEF d
  <2>3. CASE d.succeeded + d.failed < MaxProbes
    BY <2>1, <2>2, <2>3 DEF Decide, Sound
  <2>4. CASE ~(d.succeeded + d.failed < MaxProbes)
    <3>1. Decide(d) \in {Close(d), Eject(d)}
      BY <2>4 DEF Decide
    <3>2. Sound(Eject(d))
      BY <2>1, EjectSound DEF Sound
    <3> QED
      BY <2>1, <2>2, <3>1, <3>2, CloseSound
  <2> QED
    BY <2>3, <2>4
<1>3. CASE b.phase = "closed" /\ class # "ignored"
  <2> DEFINE w == Push(b.window, class)
  <2>1. class \in {"success", "failure"}
    BY <1>3 DEF Class
  <2>2. w \in Seq({"success", "failure"})
    BY <1>0, <2>1, PushTyped DEF Breaker
  <2>3. RecordOutcome(b, class) = IF Trips(w) THEN [Eject(b) EXCEPT !.window = EmptyWindow]
                                 ELSE [b EXCEPT !.window = w]
    BY <1>3 DEF RecordOutcome, Slide
  <2> HIDE DEF w
  <2>4. Sound([Eject(b) EXCEPT !.window = EmptyWindow])
    BY <1>0, EjectSound, EmptyWindowType DEF Sound, Breaker
  <2>5. Sound([b EXCEPT !.window = w])
    BY <1>0, <1>3, <2>2 DEF Sound, Breaker
  <2> QED
    BY <2>3, <2>4, <2>5
<1>4. CASE b.phase = "open"
  BY <1>4 DEF RecordOutcome
<1>5. CASE b.phase = "closed" /\ class = "ignored"
  BY <1>5 DEF RecordOutcome
<1>6. b.phase \in Phase
  BY <1>0 DEF Breaker
<1> QED
  BY <1>1, <1>2, <1>3, <1>4, <1>5, <1>6 DEF Phase

-----------------------------------------------------------------------------
(* The invariant and its preservation. *)

AllSound == \A b \in Breakers : Sound(brk[b])
HistoryTyped ==
    /\ ticket \in [Callers -> SUBSET Breakers]
    /\ orphans \in [Breakers -> 0 .. MaxProbes]
IInv == TypeOK /\ AllSound

\* Every action that calls a method writes a sound breaker back.
LEMMA UpdateKeeps ==
    ASSUME IInv, NEW c \in Callers, NEW b \in Breakers, NEW new,
           Sound(new), NEW mine \in SUBSET Breakers, Update(c, b, new, mine)
    PROVE  brk' \in [Breakers -> Breaker] /\ AllSound' /\ HistoryTyped'
<1>1. /\ brk \in [Breakers -> Breaker] /\ AllSound
      /\ ticket \in [Callers -> SUBSET Breakers]
      /\ orphans \in [Breakers -> 0 .. MaxProbes]
  BY DEF IInv, TypeOK
<1>2. new \in Breaker
  BY DEF Sound
<1>3. brk' = [brk EXCEPT ![b] = new]
  BY DEF Update, Write
<1>4. brk' \in [Breakers -> Breaker] /\ AllSound'
  BY <1>1, <1>2, <1>3 DEF AllSound
<1>5. ticket' \in [Callers -> SUBSET Breakers]
  BY <1>1 DEF Update, Write
<1>6. orphans' \in [Breakers -> 0 .. MaxProbes]
  <2>1. 0 \in 0 .. MaxProbes
    BY ConfigAssumption
  <2> QED
    BY <1>1, <2>1 DEF Update, Settle
<1> QED
  BY <1>4, <1>5, <1>6 DEF HistoryTyped

\* A breaker changed with no request in it.
LEMMA OrphanTyped ==
    ASSUME IInv, NEW slots \in SUBSET Breakers, Orphan(slots)
    PROVE  orphans' \in [Breakers -> 0 .. MaxProbes]
<1>1. ASSUME NEW n \in 0 .. MaxProbes
      PROVE  Least(n + 1, MaxProbes) \in 0 .. MaxProbes
  BY <1>1, ConfigAssumption DEF Least
<1>2. orphans \in [Breakers -> 0 .. MaxProbes]
  BY DEF IInv, TypeOK
<1> QED
  BY <1>1, <1>2 DEF Orphan

\* The request that leaves.
LEMMA LeaveTyped ==
    ASSUME IInv, NEW c \in Callers, Leave(c)
    PROVE  /\ pc' \in [Callers -> Stage]
           /\ gprobe' \in [Callers -> BOOLEAN]
           /\ armed' \in [Callers -> BOOLEAN]
           /\ report' \in [Callers -> Report]
           /\ HistoryTyped'
<1>1. ticket[c] \in SUBSET Breakers
  BY DEF IInv, TypeOK
<1>2. orphans' \in [Breakers -> 0 .. MaxProbes]
  BY <1>1, OrphanTyped DEF Leave
<1>3. NoReport \in Report
  BY DEF NoReport, Report, Class
<1>4. report' \in [Callers -> Report]
  BY <1>3 DEF Leave, IInv, TypeOK
<1>5. ticket' \in [Callers -> SUBSET Breakers]
  BY DEF Leave, IInv, TypeOK
<1>6. pc' \in [Callers -> Stage]
  BY DEF Leave, Goto, Stage, IInv, TypeOK
<1>7. gprobe' \in [Callers -> BOOLEAN] /\ armed' \in [Callers -> BOOLEAN]
  BY DEF Leave, IInv, TypeOK
<1> QED
  BY <1>2, <1>4, <1>5, <1>6, <1>7 DEF HistoryTyped

\* The reports are reports.
LEMMA ReportsTyped == LadderReports \subseteq Report /\ LeakReports \subseteq Report
<1>1. \A o : Classify(o) \in Class
  BY DEF Classify, Class
<1> QED
  BY <1>1 DEF LadderReports, LeakReports, Report

\* A request's step keeps the invariant.
LEMMA RequestKeeps ==
    ASSUME IInv, NEW c \in Callers, Request(c)
    PROVE  IInv'
<1> USE DEF Goto
<1>0. /\ \A b \in Breakers : Sound(brk[b])
      /\ Global \in Breakers /\ Arcs \subseteq Breakers
      /\ cell \in [Hosts -> Arcs] /\ host \in [Callers -> Hosts]
      /\ harc \in [Callers -> Arcs] /\ pc \in [Callers -> Stage]
      /\ gprobe \in [Callers -> BOOLEAN] /\ armed \in [Callers -> BOOLEAN]
      /\ report \in [Callers -> Report]
      /\ ticket \in [Callers -> SUBSET Breakers]
      /\ brk \in [Breakers -> Breaker] /\ AllSound /\ HistoryTyped
  BY DEF IInv, AllSound, TypeOK, Breakers, HistoryTyped
<1>a. harc[c] \in Breakers /\ cell[host[c]] \in Breakers /\ cell[host[c]] \in Arcs
  BY <1>0
<1>b. /\ pc' \in [Callers -> Stage] /\ cell' \in [Hosts -> Arcs]
      /\ host' \in [Callers -> Hosts] /\ harc' \in [Callers -> Arcs]
      /\ gprobe' \in [Callers -> BOOLEAN] /\ armed' \in [Callers -> BOOLEAN]
      /\ report' \in [Callers -> Report]
      /\ brk' \in [Breakers -> Breaker] /\ AllSound' /\ HistoryTyped'
      => IInv'
  BY DEF IInv, TypeOK, HistoryTyped
<1>c. callerVars' = callerVars =>
         /\ cell' \in [Hosts -> Arcs]
         /\ host' \in [Callers -> Hosts] /\ harc' \in [Callers -> Arcs]
         /\ gprobe' \in [Callers -> BOOLEAN] /\ armed' \in [Callers -> BOOLEAN]
         /\ report' \in [Callers -> Report]
  BY <1>0 DEF callerVars
<1>d. UNCHANGED <<brk, ticket, orphans>> =>
         brk' \in [Breakers -> Breaker] /\ AllSound' /\ HistoryTyped'
  BY <1>0 DEF AllSound, HistoryTyped
<1>1. ASSUME NEW h \in Hosts, Ask(c, h) PROVE IInv'
  <2>1. pc' \in [Callers -> Stage]
    BY <1>0, <1>1 DEF Ask, Stage
  <2> QED
    BY <1>0, <1>1, <1>b, <1>d, <2>1 DEF Ask
<1>2. ASSUME NEW h \in Hosts, ArmCheck(c, h) PROVE IInv'
  <2>1. pc' \in [Callers -> Stage]
    BY <1>0, <1>2 DEF ArmCheck, Stage
  <2>2. cell[h] \in Breakers /\ Sound(LazyEvaluate(brk[cell[h]]))
    BY <1>0, LazySound
  <2>3. brk' \in [Breakers -> Breaker] /\ AllSound' /\ HistoryTyped'
    BY <1>2, <2>2, UpdateKeeps DEF ArmCheck
  <2> QED
    BY <1>0, <1>2, <1>b, <2>1, <2>3 DEF ArmCheck
<1>2a. ASSUME NEW h \in Hosts, ArmOpted(c, h) PROVE IInv'
  <2>1. pc' \in [Callers -> Stage]
    BY <1>0, <1>2a DEF ArmOpted, Stage
  <2> QED
    BY <1>0, <1>2a, <1>b, <1>d, <2>1 DEF ArmOpted
<1>3. CASE TryGlobal(c)
  <2>1. Sound(Acquire(LazyEvaluate(brk[Global])))
    BY <1>0, LazySound, AcquireSound
  <2>2. brk' \in [Breakers -> Breaker] /\ AllSound' /\ HistoryTyped'
    <3>1. {Global} \in SUBSET Breakers /\ {} \in SUBSET Breakers
      BY <1>0
    <3> QED
      BY <1>0, <1>3, <2>1, <3>1, UpdateKeeps DEF TryGlobal
  <2>3. pc' \in [Callers -> Stage]
    BY <1>0, <1>3 DEF TryGlobal, Stage
  <2>4. gprobe' \in [Callers -> BOOLEAN]
    BY <1>0, <1>3 DEF TryGlobal
  <2> QED
    BY <1>0, <1>3, <1>b, <2>2, <2>3, <2>4 DEF TryGlobal
<1>4. CASE TryHost(c)
  <2>1. Sound(Acquire(LazyEvaluate(brk[harc[c]])))
    BY <1>0, <1>a, LazySound, AcquireSound
  <2>2. brk' \in [Breakers -> Breaker] /\ AllSound' /\ HistoryTyped'
    <3>1. ticket[c] \cup {harc[c]} \in SUBSET Breakers /\ ticket[c] \cup {} \in SUBSET Breakers
      BY <1>0, <1>a
    <3> QED
      BY <1>a, <1>4, <2>1, <3>1, UpdateKeeps DEF TryHost
  <2>3. pc' \in [Callers -> Stage]
    <3>1. PICK stage \in {"giveBack", "skipped", "guard", "run"} :
            pc' = [pc EXCEPT ![c] = stage]
      BY <1>4 DEF TryHost
    <3>2. stage \in Stage
      BY DEF Stage
    <3> QED
      BY <1>0, <3>1, <3>2
  <2> QED
    BY <1>4, <1>b, <1>c, <2>2, <2>3 DEF TryHost
<1>5. CASE GiveBack(c)
  <2>1. Sound(CancelProbe(brk[Global]))
    BY <1>0, CancelSound
  <2>2. brk' \in [Breakers -> Breaker] /\ AllSound' /\ HistoryTyped'
    <3>1. ticket[c] \ {Global} \in SUBSET Breakers
      BY <1>0
    <3> QED
      BY <1>0, <1>5, <2>1, <3>1, UpdateKeeps DEF GiveBack
  <2>3. pc' \in [Callers -> Stage]
    BY <1>0, <1>5 DEF GiveBack, Stage
  <2> QED
    BY <1>5, <1>b, <1>c, <2>2, <2>3 DEF GiveBack
<1>6. CASE MakeGuard(c)
  <2>1. pc' \in [Callers -> Stage]
    BY <1>0, <1>6 DEF MakeGuard, Stage
  <2> QED
    BY <1>0, <1>a, <1>6, <1>b, <1>d, <2>1 DEF MakeGuard
<1>7. CASE CancelUnguarded(c)
  <2>1. brk' \in [Breakers -> Breaker] /\ AllSound'
    BY <1>0, <1>7 DEF CancelUnguarded, AllSound
  <2> QED
    BY <1>0, <1>7, <1>b, <2>1, LeaveTyped DEF CancelUnguarded
<1>8. CASE Finish(c)
  <2>1. PICK r \in Report : report' = [report EXCEPT ![c] = r]
    BY <1>8, ReportsTyped DEF Finish
  <2>2. pc' \in [Callers -> Stage]
    BY <1>0, <1>8 DEF Finish, Stage
  <2>3. UNCHANGED <<brk, cell, host, harc, gprobe, armed, ticket, orphans>>
    BY <1>8 DEF Finish
  <2>4. report' \in [Callers -> Report]
    BY <1>0, <2>1
  <2> QED
    BY <1>0, <1>b, <1>d, <2>2, <2>3, <2>4
<1>9. CASE RecordGlobal(c)
  <2>1. report[c].g # "none" => report[c].g \in Class
    BY <1>0 DEF Report
  <2>2. /\ Sound(CancelProbe(brk[Global]))
        /\ Sound(LazyEvaluate(brk[Global]))
    BY <1>0, CancelSound, LazySound
  <2>3. report[c].g # "none" =>
           Sound(RecordOutcome(LazyEvaluate(brk[Global]), report[c].g))
    BY <2>1, <2>2, RecordSound
  <2>4. brk' \in [Breakers -> Breaker] /\ AllSound' /\ HistoryTyped'
    <3>1. ticket[c] \ {Global} \in SUBSET Breakers
      BY <1>0
    <3> QED
      BY <1>0, <1>9, <2>2, <2>3, <3>1, UpdateKeeps DEF RecordGlobal
  <2>5. pc' \in [Callers -> Stage]
    BY <1>0, <1>9 DEF RecordGlobal, Stage
  <2> QED
    BY <1>9, <1>b, <1>c, <2>4, <2>5 DEF RecordGlobal
<1>10. CASE RecordHost(c)
  <2>1. report[c].h \in Class
    BY <1>0 DEF Report
  <2>2. Sound(RecordOutcome(LazyEvaluate(brk[cell[host[c]]]), report[c].h))
    BY <1>0, <1>a, <2>1, LazySound, RecordSound
  <2>3. brk' \in [Breakers -> Breaker] /\ AllSound' /\ HistoryTyped'
    <3>1. ticket[c] \ {cell[host[c]]} \in SUBSET Breakers
      BY <1>0
    <3> QED
      BY <1>a, <1>10, <2>2, <3>1, UpdateKeeps DEF RecordHost
  <2>4. pc' \in [Callers -> Stage]
    BY <1>0, <1>10 DEF RecordHost, Stage
  <2> QED
    BY <1>10, <1>b, <1>c, <2>3, <2>4 DEF RecordHost
<1>11. CASE EndAttempt(c) \/ Abort(c)
  <2>1. /\ UNCHANGED <<brk, cell, host, harc>>
        /\ \/ Leave(c)
           \/ /\ pc' = [pc EXCEPT ![c] = "dropGlobal"]
              /\ UNCHANGED <<armed, report, gprobe, ticket, orphans>>
    BY <1>11 DEF EndAttempt, Abort
  <2>2. brk' \in [Breakers -> Breaker] /\ AllSound'
    BY <1>0, <2>1 DEF AllSound
  <2>3. CASE Leave(c)
    BY <1>0, <1>b, <2>1, <2>2, <2>3, LeaveTyped
  <2>4. CASE /\ pc' = [pc EXCEPT ![c] = "dropGlobal"]
             /\ UNCHANGED <<armed, report, gprobe, ticket, orphans>>
    <3>1. pc' \in [Callers -> Stage]
      BY <1>0, <2>4 DEF Stage
    <3> QED
      BY <1>0, <1>b, <1>d, <2>1, <2>4, <3>1
  <2> QED
    BY <2>1, <2>3, <2>4
<1>12. CASE DropGlobal(c)
  <2>1. Sound(CancelProbe(brk[Global]))
    BY <1>0, CancelSound
  <2>2. brk' \in [Breakers -> Breaker] /\ AllSound' /\ HistoryTyped'
    <3>1. ticket[c] \ {Global} \in SUBSET Breakers
      BY <1>0
    <3> QED
      BY <1>0, <1>12, <2>1, <3>1, UpdateKeeps DEF DropGlobal
  <2>3. pc' \in [Callers -> Stage]
    BY <1>0, <1>12 DEF DropGlobal, Stage
  <2> QED
    BY <1>12, <1>b, <1>c, <2>2, <2>3 DEF DropGlobal
<1>13. CASE DropHost(c)
  <2>1. Sound(CancelProbe(brk[harc[c]]))
    BY <1>0, <1>a, CancelSound
  <2>2. CancelProbe(brk[harc[c]]) \in Breaker
    BY <2>1 DEF Sound
  <2>3. brk' \in [Breakers -> Breaker] /\ AllSound'
    BY <1>0, <1>13, <2>1, <2>2 DEF DropHost, AllSound
  <2>4. orphans' \in [Breakers -> 0 .. MaxProbes]
    <3>1. ticket[c] \ {harc[c]} \in SUBSET Breakers
      BY <1>0
    <3> QED
      BY <1>13, <3>1, OrphanTyped DEF DropHost
  <2>5. ticket' \in [Callers -> SUBSET Breakers]
    BY <1>0, <1>13 DEF DropHost
  <2>6. report' \in [Callers -> Report]
    <3>1. NoReport \in Report
      BY DEF NoReport, Report, Class
    <3> QED
      BY <1>0, <1>13, <3>1 DEF DropHost
  <2>7. pc' \in [Callers -> Stage]
    BY <1>0, <1>13 DEF DropHost, Stage
  <2>8. /\ gprobe' \in [Callers -> BOOLEAN] /\ armed' \in [Callers -> BOOLEAN]
        /\ UNCHANGED <<cell, host, harc>>
    BY <1>0, <1>13 DEF DropHost
  <2> QED
    BY <1>0, <1>b, <2>3, <2>4, <2>5, <2>6, <2>7, <2>8 DEF HistoryTyped
<1>14. CASE Leak(c)
  <2>1. Sound(Acquire(LazyEvaluate(brk[cell[host[c]]])))
    BY <1>0, <1>a, LazySound, AcquireSound
  <2>2. brk' \in [Breakers -> Breaker] /\ AllSound' /\ HistoryTyped'
    <3>1. {cell[host[c]]} \in SUBSET Breakers /\ {} \in SUBSET Breakers
      BY <1>a
    <3> QED
      BY <1>a, <1>14, <2>1, <3>1, UpdateKeeps DEF Leak
  <2>3. pc' \in [Callers -> Stage]
    BY <1>0, <1>14 DEF Leak, Stage
  <2> QED
    BY <1>14, <1>b, <1>c, <2>2, <2>3 DEF Leak
<1>15. CASE NoLeak(c)
  <2>1. Sound(LazyEvaluate(brk[cell[host[c]]]))
    BY <1>0, <1>a, LazySound
  <2>2. brk' \in [Breakers -> Breaker] /\ AllSound' /\ HistoryTyped'
    <3>1. {} \in SUBSET Breakers
      OBVIOUS
    <3>2. CASE UNCHANGED <<brk, ticket, orphans>>
      BY <1>d, <3>2
    <3>3. CASE Update(c, cell[host[c]], LazyEvaluate(brk[cell[host[c]]]), {})
      BY <1>a, <2>1, <3>1, <3>3, UpdateKeeps
    <3> QED
      BY <1>15, <3>2, <3>3 DEF NoLeak
  <2>3. pc' \in [Callers -> Stage]
    BY <1>0, <1>15 DEF NoLeak, Stage
  <2>4. gprobe' \in [Callers -> BOOLEAN]
    BY <1>0, <1>15 DEF NoLeak
  <2> QED
    BY <1>0, <1>15, <1>b, <2>2, <2>3, <2>4 DEF NoLeak
<1> QED
  BY <1>1, <1>2, <1>2a, <1>3, <1>4, <1>5, <1>6, <1>7, <1>8, <1>9, <1>10, <1>11, <1>12,
     <1>13, <1>14, <1>15 DEF Request

\* Initially every breaker is fresh.
LEMMA InitIInv == Init => IInv
<1> SUFFICES ASSUME Init PROVE IInv
  OBVIOUS
<1>1. Fresh \in Breaker
  BY FreshSound DEF Sound
<1>2. brk \in [Breakers -> Breaker] /\ AllSound
  BY <1>1, FreshSound DEF Init, AllSound
<1>3. NoReport \in Report
  BY DEF NoReport, Report, Class
<1>4. orphans \in [Breakers -> 0 .. MaxProbes]
  <2>1. 0 \in 0 .. MaxProbes
    BY ConfigAssumption
  <2> QED
    BY <2>1 DEF Init
<1> QED
  BY <1>2, <1>3, <1>4 DEF Init, IInv, TypeOK, Stage

\* A step of the rest of the world keeps it too.
LEMMA WorldKeeps ==
    ASSUME IInv,
           \/ \E b \in Breakers : Observe(b)
           \/ \E h \in Hosts : Evict(h)
           \/ Tick
    PROVE  IInv'
<1>0. /\ brk \in [Breakers -> Breaker] /\ \A b \in Breakers : Sound(brk[b])
      /\ cell \in [Hosts -> Arcs] /\ Arcs \subseteq Breakers
      /\ ticket \in [Callers -> SUBSET Breakers]
      /\ orphans \in [Breakers -> 0 .. MaxProbes]
      /\ 0 \in 0 .. MaxProbes
  BY ConfigAssumption DEF IInv, AllSound, TypeOK, Breakers
<1>1. ASSUME NEW b \in Breakers, Observe(b) PROVE IInv'
  <2>1. Sound(LazyEvaluate(brk[b])) /\ LazyEvaluate(brk[b]) \in Breaker
    BY <1>0, LazySound DEF Sound
  <2>2. brk' \in [Breakers -> Breaker] /\ AllSound'
    BY <1>0, <1>1, <2>1 DEF Observe, AllSound
  <2>3. ticket' \in [Callers -> SUBSET Breakers]
    BY <1>0, <1>1 DEF Observe
  <2>4. orphans' \in [Breakers -> 0 .. MaxProbes]
    BY <1>0, <1>1 DEF Observe, Settle
  <2>5. UNCHANGED <<cell, pc, host, harc, gprobe, armed, report>>
    BY <1>1 DEF Observe
  <2> QED
    BY <2>2, <2>3, <2>4, <2>5 DEF IInv, TypeOK
<1>2. ASSUME NEW h \in Hosts, Evict(h) PROVE IInv'
  <2>1. PICK a \in Arcs :
            /\ cell' = [cell EXCEPT ![h] = a]
            /\ brk' = [brk EXCEPT ![a] = Fresh]
            /\ ticket' = [c \in Callers |-> ticket[c] \ {a}]
            /\ orphans' = [orphans EXCEPT ![a] = 0]
            /\ UNCHANGED <<pc, host, harc, gprobe, armed, report>>
    BY <1>2 DEF Evict
  <2>2. Sound(Fresh) /\ Fresh \in Breaker
    BY FreshSound DEF Sound
  <2>3. brk' \in [Breakers -> Breaker] /\ AllSound'
    BY <1>0, <2>1, <2>2 DEF AllSound
  <2>4. /\ cell' \in [Hosts -> Arcs]
        /\ ticket' \in [Callers -> SUBSET Breakers]
        /\ orphans' \in [Breakers -> 0 .. MaxProbes]
    BY <1>0, <2>1
  <2> QED
    BY <2>1, <2>3, <2>4 DEF IInv, TypeOK
<1>3. ASSUME Tick PROVE IInv'
  <2>1. ASSUME NEW b \in Breakers
        PROVE  Sound(brk'[b])
    <3> DEFINE n == IF brk[b].left > 0 THEN brk[b].left - 1 ELSE 0
    <3>1. Sound(brk[b]) /\ brk[b] \in Breaker
      BY <1>0
    <3>2. n \in Nat
      BY <3>1 DEF Breaker
    <3>3. brk'[b] = [brk[b] EXCEPT !.left = n]
      BY <1>3 DEF Tick
    <3> HIDE DEF n
    <3>4. /\ brk'[b] \in Breaker
          /\ brk'[b].phase = brk[b].phase /\ brk'[b].admitted = brk[b].admitted
          /\ brk'[b].succeeded = brk[b].succeeded /\ brk'[b].failed = brk[b].failed
          /\ brk'[b].ejections = brk[b].ejections /\ brk'[b].window = brk[b].window
      BY <3>1, <3>2, <3>3 DEF Breaker
    <3> QED
      BY <3>1, <3>4 DEF Sound
  <2>2. AllSound'
    BY <2>1 DEF AllSound
  <2>3. brk' \in [Breakers -> Breaker]
    <3>1. brk' = [b \in Breakers |-> brk'[b]]
      BY <1>3 DEF Tick
    <3>2. \A b \in Breakers : brk'[b] \in Breaker
      BY <2>1 DEF Sound
    <3> QED
      BY <3>1, <3>2
  <2>4. UNCHANGED <<cell, pc, host, harc, gprobe, armed, report, ticket, orphans>>
    BY <1>3 DEF Tick
  <2> QED
    BY <2>2, <2>3, <2>4 DEF IInv, TypeOK
<1> QED
  BY <1>1, <1>2, <1>3

\* The invariant is inductive.
LEMMA NextKeeps == IInv /\ [Next]_vars => IInv'
<1>1. ASSUME IInv, Next PROVE IInv'
  BY <1>1, RequestKeeps, WorldKeeps DEF Next
<1>2. ASSUME IInv, UNCHANGED vars PROVE IInv'
  BY <1>2 DEF vars, IInv, TypeOK, AllSound
<1> QED
  BY <1>1, <1>2

\* Every reachable state satisfies the invariant.
THEOREM Invariance == Spec => []IInv
BY InitIInv, NextKeeps, PTL DEF Spec

-----------------------------------------------------------------------------
(* The theorems. *)

\* Type correctness: in particular no admitted counter ever goes below zero,
\* however often a probe is cancelled.
THEOREM TypeCorrect == Spec => []TypeOK
<1>1. IInv => TypeOK
  BY DEF IInv
<1> QED
  BY <1>1, Invariance, PTL

\* Half-open breakers respect their quota and are undecided (try_acquire,
\* record_outcome).
THEOREM QuotaKept == Spec => []ProbeQuota
<1>1. IInv => ProbeQuota
  BY DEF IInv, AllSound, Sound, ProbeQuota
<1> QED
  BY <1>1, Invariance, PTL

\* A breaker that is not closed remembers that it was ejected, and has no
\* window (record_outcome, lazy_evaluate).
THEOREM OutageRemembered == Spec => []OutageMemory
<1>1. IInv => OutageMemory
  BY DEF IInv, AllSound, Sound, OutageMemory
<1> QED
  BY <1>1, Invariance, PTL

\* All three: what a breaker has is sound (try_acquire,
\* record_outcome, record_ejection_locked).
THEOREM RecoveryIsSound == Spec => []RecoverySound
BY TypeCorrect, QuotaKept, OutageRemembered, PTL DEF RecoverySound

-----------------------------------------------------------------------------
(* What a step may do to one breaker. *)

\* Some request is recording a success to b.
Succeeding(b) ==
    \E c \in Callers :
        \/ pc[c] = "recGlobal" /\ b = Global /\ report[c].g = "success"
        \/ pc[c] = "recHost" /\ b = cell[host[c]] /\ report[c].h = "success"

StepForm(b) ==
    \/ brk'[b] \in {brk[b], LazyEvaluate(brk[b]), Acquire(LazyEvaluate(brk[b])),
                    CancelProbe(brk[b])}
    \/ \E class \in Class :
          /\ brk'[b] = RecordOutcome(LazyEvaluate(brk[b]), class)
          /\ class = "success" => Succeeding(b)
    \/ b # Global /\ brk'[b] = Fresh
    \/ brk'[b] = [brk[b] EXCEPT !.left = IF @ > 0 THEN @ - 1 ELSE 0]

\* A write to one breaker leaves the others as they were.
LEMMA WriteForm ==
    ASSUME IInv, NEW x \in Breakers, NEW new, brk' = [brk EXCEPT ![x] = new],
           NEW b \in Breakers
    PROVE  (b = x /\ brk'[b] = new) \/ brk'[b] = brk[b]
BY DEF IInv, TypeOK

\* Every step changes a breaker by a method of the code, by time, or by
\* eviction.
LEMMA StepForms ==
    ASSUME IInv, [Next]_vars, NEW b \in Breakers
    PROVE  StepForm(b)
<1>0. /\ Global \in Breakers /\ Arcs \subseteq Breakers
      /\ cell \in [Hosts -> Arcs] /\ host \in [Callers -> Hosts]
      /\ harc \in [Callers -> Arcs] /\ report \in [Callers -> Report]
  BY DEF IInv, TypeOK, Breakers
<1>1. CASE UNCHANGED vars
  BY <1>1 DEF vars, StepForm
<1>2. ASSUME NEW c \in Callers, Request(c) PROVE StepForm(b)
  <2>0. harc[c] \in Breakers /\ cell[host[c]] \in Breakers
    BY <1>0
  <2>1. CASE UNCHANGED brk
    BY <2>1 DEF StepForm
  <2>2. ASSUME NEW h \in Hosts, ArmCheck(c, h) PROVE StepForm(b)
    <3>1. cell[h] \in Breakers
      BY <1>0
    <3> QED
      BY <2>2, <3>1, WriteForm DEF ArmCheck, Update, Write, StepForm
  <2>3. CASE TryGlobal(c)
    BY <1>0, <2>3, WriteForm DEF TryGlobal, Update, Write, StepForm
  <2>4. CASE TryHost(c)
    BY <2>0, <2>4, WriteForm DEF TryHost, Update, Write, StepForm
  <2>5. CASE GiveBack(c) \/ DropGlobal(c)
    BY <1>0, <2>5, WriteForm DEF GiveBack, DropGlobal, Update, Write, StepForm
  <2>6. CASE RecordGlobal(c)
    <3>1. CASE report[c].g = "none"
      BY <1>0, <2>6, <3>1, WriteForm DEF RecordGlobal, Update, Write, StepForm
    <3>2. CASE report[c].g # "none"
      <4>1. report[c].g \in Class
        BY <1>0, <3>2 DEF Report
      <4>2. report[c].g = "success" => Succeeding(Global)
        BY <2>6 DEF RecordGlobal, Succeeding
      <4> QED
        BY <1>0, <2>6, <3>2, <4>1, <4>2, WriteForm
           DEF RecordGlobal, Update, Write, StepForm
    <3> QED
      BY <3>1, <3>2
  <2>7. CASE RecordHost(c)
    <3>1. report[c].h \in Class
      BY <1>0 DEF Report
    <3>2. report[c].h = "success" => Succeeding(cell[host[c]])
      BY <2>7 DEF RecordHost, Succeeding
    <3> QED
      BY <2>0, <2>7, <3>1, <3>2, WriteForm DEF RecordHost, Update, Write, StepForm
  <2>8. CASE DropHost(c)
    BY <2>0, <2>8, WriteForm DEF DropHost, StepForm
  <2>9. CASE Leak(c)
    BY <2>0, <2>9, WriteForm DEF Leak, Update, Write, StepForm
  <2>10. CASE NoLeak(c)
    BY <2>0, <2>1, <2>10, WriteForm DEF NoLeak, Update, Write, StepForm
  <2> QED
    BY <1>2, <2>1, <2>2, <2>3, <2>4, <2>5, <2>6, <2>7, <2>8, <2>9, <2>10
       DEF Request, Ask, ArmOpted, MakeGuard, CancelUnguarded, Finish, EndAttempt, Abort
<1>3. ASSUME NEW x \in Breakers, Observe(x) PROVE StepForm(b)
  BY <1>3, WriteForm DEF Observe, StepForm
<1>4. ASSUME NEW h \in Hosts, Evict(h) PROVE StepForm(b)
  <2>1. PICK a \in Arcs : brk' = [brk EXCEPT ![a] = Fresh]
    BY <1>4 DEF Evict
  <2>2. a # Global /\ a \in Breakers
    BY <1>0, NameAssumption
  <2> QED
    BY <2>1, <2>2, WriteForm DEF StepForm
<1>5. CASE Tick
  BY <1>5 DEF Tick, StepForm
<1> QED
  BY <1>1, <1>2, <1>3, <1>4, <1>5 DEF Next

\* An open breaker in its cooldown is deaf to every method.
LEMMA OpenIsDeaf ==
    ASSUME NEW b, b.phase = "open", b.left > 0, b.left \in Nat
    PROVE  /\ LazyEvaluate(b) = b
           /\ Acquire(b) = b
           /\ CancelProbe(b) = b
           /\ \A class \in Class : RecordOutcome(b, class) = b
<1>1. LazyEvaluate(b) = b
  BY DEF LazyEvaluate
<1>2. Acquire(b) = b
  BY DEF Acquire, Permit
<1>3. CancelProbe(b) = b
  BY DEF CancelProbe
<1>4. \A class \in Class : RecordOutcome(b, class) = b
  BY DEF RecordOutcome
<1> QED
  BY <1>1, <1>2, <1>3, <1>4

\* An open breaker stays open for its whole cooldown (lazy_evaluate,
\* record_outcome, cancel_probe).
THEOREM CooldownKeptAlways == Spec => CooldownKept
<1>1. ASSUME IInv, [Next]_vars PROVE CooldownStep
  <2> SUFFICES ASSUME NEW b \in Breakers, brk[b].phase = "open", brk[b].left > 0
               PROVE  \/ /\ brk'[b].phase = "open"
                         /\ brk'[b].left <= brk[b].left
                         /\ brk'[b].ejections = brk[b].ejections
                      \/ b # Global /\ brk'[b] = Fresh
    BY DEF CooldownStep
  <2>1. brk[b] \in Breaker /\ brk[b].left \in Nat
    BY <1>1 DEF IInv, TypeOK, Breaker
  <2>2. \/ brk'[b] = brk[b]
        \/ b # Global /\ brk'[b] = Fresh
        \/ brk'[b] = [brk[b] EXCEPT !.left = brk[b].left - 1]
    BY <1>1, <2>1, StepForms, OpenIsDeaf DEF StepForm
  <2>3. CASE brk'[b] = [brk[b] EXCEPT !.left = brk[b].left - 1]
    <3>1. /\ brk'[b].phase = brk[b].phase
          /\ brk'[b].left = brk[b].left - 1
          /\ brk'[b].ejections = brk[b].ejections
      BY <2>1, <2>3 DEF Breaker
    <3> QED
      BY <2>1, <3>1
  <2> QED
    BY <2>1, <2>2, <2>3
<1> QED
  BY <1>1, Invariance, PTL DEF Spec, CooldownKept

\* How the methods can leave the half-open state for the closed one.
LEMMA LazyClose ==
    ASSUME NEW b \in Breaker, b.phase = "half", LazyEvaluate(b).phase # "half"
    PROVE  \/ b.succeeded > 0
           \/ LazyEvaluate(b).phase = "open"
<1>1. CASE LazyEvaluate(b) = b
  BY <1>1
<1>2. CASE b.succeeded = 0 /\ LazyEvaluate(b) = Eject(b)
  BY <1>2, EjectSound
<1>3. CASE b.succeeded # 0
  BY <1>3 DEF Breaker
<1> QED
  BY <1>1, <1>2, <1>3 DEF LazyEvaluate

\* An outcome recorded half-open closes only with a success.
LEMMA RecordClose ==
    ASSUME NEW b \in Breaker, b.phase = "half", NEW class \in Class,
           RecordOutcome(b, class).phase = "closed"
    PROVE  b.succeeded > 0 \/ class = "success"
<1> SUFFICES ASSUME b.succeeded = 0, class # "success" PROVE FALSE
  BY DEF Breaker
<1>1. CASE class = "ignored"
  <2>1. RecordOutcome(b, class) = CancelProbe(b)
    BY <1>1 DEF RecordOutcome
  <2>2. CancelProbe(b).phase = "half"
    BY DEF CancelProbe, Breaker
  <2> QED
    BY <2>1, <2>2
<1>2. CASE class = "failure"
  <2> DEFINE d == Count(b, class)
  <2>1. RecordOutcome(b, class) = Decide(d)
    BY <1>2 DEF RecordOutcome
  <2>2. b.failed + 1 \in Nat
    BY DEF Breaker
  <2>3. d = [b EXCEPT !.failed = b.failed + 1]
    BY <1>2 DEF Count
  <2>4. ASSUME NEW n \in Nat, d = [b EXCEPT !.failed = n]
        PROVE  d \in Breaker /\ d.phase = "half" /\ d.succeeded = 0
    BY <2>4 DEF Breaker
  <2>5. d \in Breaker /\ d.phase = "half" /\ d.succeeded = 0
    BY <2>2, <2>3, <2>4
  <2> HIDE DEF d
  <2>6. ~(100 * d.succeeded >= SuccessPct * MaxProbes)
    <3>1. ASSUME NEW p \in Nat \ {0}, NEW q \in Nat \ {0} PROVE ~(0 >= p * q)
      BY <3>1
    <3> QED
      BY <2>5, <3>1, ConfigAssumption
  <2>7. Decide(d) \in {d, Eject(d)}
    BY <2>6 DEF Decide
  <2> QED
    BY <2>1, <2>5, <2>7, EjectSound
<1> QED
  BY <1>1, <1>2 DEF Class

\* Granting or cancelling a probe does not change the phase.
LEMMA SlotKeepsPhase ==
    ASSUME NEW b \in Breaker
    PROVE  Acquire(b).phase = b.phase /\ CancelProbe(b).phase = b.phase
<1>1. ASSUME NEW n PROVE [b EXCEPT !.admitted = n].phase = b.phase
  BY DEF Breaker
<1> QED
  BY <1>1 DEF Acquire, CancelProbe

\* A half-open breaker closes only on evidence (lazy_evaluate, record_outcome).
THEOREM EvidenceNeeded == Spec => CloseNeedsEvidence
<1>1. ASSUME IInv, [Next]_vars PROVE EvidenceStep
  <2> SUFFICES ASSUME NEW b \in Breakers, brk[b].phase = "half",
                      brk'[b].phase = "closed"
               PROVE  \/ brk[b].succeeded > 0
                      \/ b # Global /\ brk'[b] = Fresh
                      \/ Succeeding(b)
    BY DEF EvidenceStep, Succeeding
  <2>1. brk[b] \in Breaker /\ Sound(brk[b])
    BY <1>1 DEF IInv, TypeOK, AllSound
  <2>2. LazyEvaluate(brk[b]) \in Breaker
    BY <2>1, LazySound DEF Sound
  <2>3. CASE brk'[b] \in {brk[b], LazyEvaluate(brk[b]),
                         Acquire(LazyEvaluate(brk[b])), CancelProbe(brk[b])}
    BY <2>1, <2>2, <2>3, SlotKeepsPhase, LazyClose
  <2>4. ASSUME NEW class \in Class,
               brk'[b] = RecordOutcome(LazyEvaluate(brk[b]), class),
               class = "success" => Succeeding(b)
        PROVE  brk[b].succeeded > 0 \/ Succeeding(b)
    <3>1. CASE LazyEvaluate(brk[b]).phase = "half"
      <4>1. LazyEvaluate(brk[b]) = brk[b]
        BY <2>1, <3>1, EjectSound, CloseSound DEF LazyEvaluate
      <4> QED
        BY <2>1, <2>4, <4>1, RecordClose
    <3>2. CASE LazyEvaluate(brk[b]).phase = "open"
      BY <2>4, <3>2 DEF RecordOutcome
    <3>3. CASE LazyEvaluate(brk[b]).phase = "closed"
      BY <2>1, <3>3, LazyClose
    <3>4. LazyEvaluate(brk[b]).phase \in Phase
      BY <2>2 DEF Breaker
    <3> QED
      BY <3>1, <3>2, <3>3, <3>4 DEF Phase
  <2>5. CASE brk'[b] = [brk[b] EXCEPT !.left =
                          IF brk[b].left > 0 THEN brk[b].left - 1 ELSE 0]
    <3>1. ASSUME NEW n PROVE [brk[b] EXCEPT !.left = n].phase = brk[b].phase
      BY <2>1 DEF Breaker
    <3> QED
      BY <2>5, <3>1
  <2> QED
    BY <1>1, <2>3, <2>4, <2>5, StepForms DEF StepForm
<1> QED
  BY <1>1, Invariance, PTL DEF Spec, CloseNeedsEvidence

-----------------------------------------------------------------------------
(* Where the probe slots are. *)

\* What a request holds follows from where it is: it asks for a slot with none
\* of that breaker, and from the guard on, the global breaker's slot is
\* guarded or given back.
TicketsOf(c) ==
    /\ pc[c] \in {"idle", "askGlobal", "skipped"} => ticket[c] = {}
    /\ pc[c] \in {"askHost", "giveBack"} => ticket[c] \subseteq {Global}
    /\ pc[c] = "askHost" /\ ~gprobe[c] => ticket[c] = {}
    /\ \/ pc[c] \in {"leakRun", "recHost", "recorded", "dropHost"}
       \/ pc[c] = "run" /\ ~armed[c]
       => Global \notin ticket[c]
Tickets == \A c \in Callers : TicketsOf(c)

\* Slots handed out by the present half-open period and not yet reported.
Debt(b) == IF b.phase = "half" THEN b.admitted - (b.succeeded + b.failed) ELSE 0

\* Each is with a request, or its request went away.
AccountedAt(b) ==
    /\ IsFiniteSet(Owners(b))
    /\ Debt(brk[b]) <= Cardinality(Owners(b)) + orphans[b]
Accounted == \A b \in Breakers : AccountedAt(b)

Ledger == Tickets /\ Accounted

\* A set that gains or loses at most one element.
LEMMA CountOne ==
    ASSUME NEW S, NEW T, NEW c, IsFiniteSet(S), T \ {c} = S \ {c}
    PROVE  /\ IsFiniteSet(T) /\ Cardinality(S) \in Nat /\ Cardinality(T) \in Nat
           /\ Cardinality(T) = (Cardinality(S) - (IF c \in S THEN 1 ELSE 0))
                               + (IF c \in T THEN 1 ELSE 0)
<1>1. /\ IsFiniteSet(S \ {c}) /\ Cardinality(S) \in Nat
      /\ Cardinality(S \ {c}) = Cardinality(S) - (IF c \in S THEN 1 ELSE 0)
  <2>1. Cardinality(S) \in Nat
    BY FS_CardinalityType
  <2>2. /\ IsFiniteSet(S \ {c})
        /\ Cardinality(S \ {c}) = IF c \in S THEN Cardinality(S) - 1 ELSE Cardinality(S)
    BY FS_RemoveElement
  <2> QED
    BY <2>1, <2>2
<1>2. CASE c \in T
  <2>1. T = (S \ {c}) \cup {c} /\ c \notin S \ {c}
    BY <1>2
  <2>2. IsFiniteSet(T) /\ Cardinality(T) = Cardinality(S \ {c}) + 1
    BY <1>1, <2>1, FS_AddElement
  <2>3. Cardinality(T) \in Nat
    BY <2>2, FS_CardinalityType
  <2> QED
    BY <1>1, <1>2, <2>2, <2>3
<1>3. CASE c \notin T
  <2>1. T = S \ {c}
    BY <1>3
  <2>2. Cardinality(T) \in Nat
    BY <1>1, <2>1, FS_CardinalityType
  <2> QED
    BY <1>1, <1>3, <2>1, <2>2
<1> QED
  BY <1>2, <1>3

\* What the methods do to a breaker's debt.
LEMMA LazyDebt ==
    ASSUME NEW b \in Breaker
    PROVE  LazyEvaluate(b) = b \/ Debt(LazyEvaluate(b)) = 0
<1>1. Close(b).phase = "closed" /\ Eject(b).phase = "open"
  BY CloseSound, EjectSound
<1>2. CASE b.phase = "open" /\ b.left = 0
  <2>1. LazyEvaluate(b) = [b EXCEPT !.phase = "half", !.left = EvalTimeout, !.admitted = 0,
                                    !.succeeded = 0, !.failed = 0]
    BY <1>2 DEF LazyEvaluate
  <2>2. /\ LazyEvaluate(b).admitted = 0 /\ LazyEvaluate(b).succeeded = 0
        /\ LazyEvaluate(b).failed = 0
    BY <2>1 DEF Breaker
  <2> QED
    BY <2>2 DEF Debt
<1>3. CASE b.phase = "half"
  BY <1>1, <1>3 DEF LazyEvaluate, Debt
<1>4. CASE b.phase = "closed"
  <2>1. [b EXCEPT !.ejections = 0].phase = "closed"
    BY <1>4 DEF Breaker
  <2> QED
    BY <1>4, <2>1 DEF LazyEvaluate, Debt
<1>5. CASE b.phase = "open" /\ b.left # 0
  BY <1>5 DEF LazyEvaluate
<1> QED
  BY <1>2, <1>3, <1>4, <1>5 DEF Breaker, Phase

LEMMA AcquireDebt ==
    ASSUME NEW b \in Breaker
    PROVE  Debt(Acquire(b)) = Debt(b) + (IF Permit(b) = "Probe" THEN 1 ELSE 0)
<1>0. Debt(b) \in Int
  BY DEF Debt, Breaker
<1>1. CASE Permit(b) = "Probe"
  <2>1. b.phase = "half" /\ b.admitted \in Nat /\ b.succeeded \in Nat /\ b.failed \in Nat
    BY <1>1 DEF Permit, Breaker
  <2>2. /\ Acquire(b).phase = b.phase /\ Acquire(b).admitted = b.admitted + 1
        /\ Acquire(b).succeeded = b.succeeded /\ Acquire(b).failed = b.failed
    BY <1>1 DEF Acquire, Breaker
  <2> QED
    BY <1>1, <2>1, <2>2 DEF Debt
<1> QED
  BY <1>0, <1>1 DEF Acquire

LEMMA CancelDebt ==
    ASSUME NEW b \in Breaker
    PROVE  /\ Debt(CancelProbe(b)) <= 0 \/ Debt(CancelProbe(b)) = Debt(b) - 1
           /\ Debt(CancelProbe(b)) >= Debt(b) - 1
<1>0. b.admitted \in Nat /\ b.succeeded \in Nat /\ b.failed \in Nat
  BY DEF Breaker
<1>1. CASE b.phase = "half" /\ b.admitted > 0
  <2>1. /\ CancelProbe(b).phase = b.phase /\ CancelProbe(b).admitted = b.admitted - 1
        /\ CancelProbe(b).succeeded = b.succeeded /\ CancelProbe(b).failed = b.failed
    BY <1>1 DEF CancelProbe, Breaker
  <2> QED
    BY <1>0, <1>1, <2>1 DEF Debt
<1>2. CASE ~(b.phase = "half" /\ b.admitted > 0)
  <2>1. CancelProbe(b) = b
    BY <1>2 DEF CancelProbe
  <2> QED
    BY <1>0, <1>2, <2>1 DEF Debt
<1> QED
  BY <1>1, <1>2

LEMMA RecordDebt ==
    ASSUME NEW b \in Breaker, NEW class \in Class
    PROVE  /\ \/ Debt(RecordOutcome(b, class)) <= 0
              \/ Debt(RecordOutcome(b, class)) = Debt(b) - 1
           /\ RecordOutcome(b, class).phase = "half" =>
                 b.phase = "half" /\ Debt(RecordOutcome(b, class)) >= Debt(b) - 1
<1>0. b.admitted \in Nat /\ b.succeeded \in Nat /\ b.failed \in Nat
  BY DEF Breaker
<1>1. CASE b.phase = "half" /\ class = "ignored"
  BY <1>1, CancelDebt DEF RecordOutcome
<1>2. CASE b.phase = "half" /\ class # "ignored"
  <2> DEFINE n == Count(b, class)
  <2>1. /\ n \in Breaker /\ n.phase = "half" /\ n.admitted = b.admitted
        /\ n.succeeded + n.failed = b.succeeded + b.failed + 1
    <3>1. CASE class = "failure"
      <4>1. n = [b EXCEPT !.failed = b.failed + 1]
        BY <3>1 DEF Count
      <4>2. /\ n \in Breaker /\ n.phase = b.phase /\ n.admitted = b.admitted
            /\ n.succeeded = b.succeeded /\ n.failed = b.failed + 1
        BY <1>0, <4>1 DEF Breaker
      <4> QED
        BY <1>0, <1>2, <4>2
    <3>2. CASE class # "failure"
      <4>1. n = [b EXCEPT !.succeeded = b.succeeded + 1]
        BY <3>2 DEF Count
      <4>2. /\ n \in Breaker /\ n.phase = b.phase /\ n.admitted = b.admitted
            /\ n.succeeded = b.succeeded + 1 /\ n.failed = b.failed
        BY <1>0, <4>1 DEF Breaker
      <4> QED
        BY <1>0, <1>2, <4>2
    <3> QED
      BY <3>1, <3>2
  <2>2. RecordOutcome(b, class) = Decide(n)
    BY <1>2 DEF RecordOutcome
  <2> HIDE DEF n
  <2>3. Close(n).phase = "closed" /\ Eject(n).phase = "open"
    BY <2>1, CloseSound, EjectSound
  <2>4. CASE Decide(n) = n
    BY <1>0, <1>2, <2>1, <2>2, <2>4 DEF Debt
  <2>5. CASE Decide(n) # n
    <3>1. Decide(n).phase # "half"
      BY <2>3, <2>5 DEF Decide
    <3> QED
      BY <2>2, <3>1 DEF Debt
  <2> QED
    BY <2>4, <2>5
<1>3. CASE b.phase = "closed" /\ class # "ignored"
  <2> DEFINE w == Push(b.window, class)
  <2>1. \/ RecordOutcome(b, class) = [Eject(b) EXCEPT !.window = EmptyWindow]
        \/ RecordOutcome(b, class) = [b EXCEPT !.window = w]
    BY <1>3 DEF RecordOutcome, Slide
  <2> HIDE DEF w
  <2>2. Eject(b) \in Breaker /\ Eject(b).phase = "open"
    BY EjectSound
  <2>3. /\ [Eject(b) EXCEPT !.window = EmptyWindow].phase = "open"
        /\ [b EXCEPT !.window = w].phase = "closed"
    BY <1>3, <2>2 DEF Breaker
  <2>4. RecordOutcome(b, class).phase # "half"
    BY <2>1, <2>3
  <2> QED
    BY <2>4 DEF Debt
<1>4. CASE b.phase # "half" /\ RecordOutcome(b, class) = b
  BY <1>4 DEF Debt
<1>5. CASE b.phase \notin {"half", "closed"} \/ (b.phase = "closed" /\ class = "ignored")
  BY <1>4, <1>5 DEF RecordOutcome
<1> QED
  BY <1>1, <1>2, <1>3, <1>5

LEMMA DebtTyped ==
    ASSUME NEW b \in Breaker
    PROVE  Debt(b) \in Int /\ (b.phase # "half" => Debt(b) = 0)
BY DEF Debt, Breaker

\* Whether c holds a slot of b.
Has(c, b) == IF b \in ticket[c] THEN 1 ELSE 0

\* One request's slot of one breaker changes hands, and the debt follows.
LEMMA OneMoves ==
    ASSUME IInv, IInv', NEW b \in Breakers, AccountedAt(b), NEW c \in Callers,
           \A d \in Callers \ {c} : b \in ticket'[d] <=> b \in ticket[d],
           orphans'[b] = orphans[b],
           \/ Debt(brk'[b]) <= Has(c, b)'
           \/ Debt(brk'[b]) + Has(c, b) <= Debt(brk[b]) + Has(c, b)'
    PROVE  AccountedAt(b)'
<1>1. Owners(b)' \ {c} = Owners(b) \ {c}
  BY DEF Owners
<1>2. /\ IsFiniteSet(Owners(b)') /\ Cardinality(Owners(b)) \in Nat
      /\ Cardinality(Owners(b)') \in Nat
      /\ Cardinality(Owners(b)') = (Cardinality(Owners(b)) - (IF c \in Owners(b) THEN 1 ELSE 0))
                                   + (IF c \in Owners(b)' THEN 1 ELSE 0)
  BY <1>1, CountOne DEF AccountedAt
<1>3. /\ Has(c, b) = IF c \in Owners(b) THEN 1 ELSE 0
      /\ Has(c, b)' = IF c \in Owners(b)' THEN 1 ELSE 0
  BY DEF Has, Owners
<1>4. c \in Owners(b)' => Cardinality(Owners(b)') # 0
  BY <1>2, FS_EmptySet
<1>5. /\ Debt(brk[b]) \in Int /\ Debt(brk'[b]) \in Int /\ orphans[b] \in Nat
      /\ Debt(brk[b]) <= Cardinality(Owners(b)) + orphans[b]
  <2>1. brk[b] \in Breaker /\ brk'[b] \in Breaker /\ orphans[b] \in Nat
    BY ConfigAssumption DEF IInv, TypeOK
  <2> QED
    BY <2>1, DebtTyped DEF AccountedAt
<1>6. Debt(brk'[b]) <= Cardinality(Owners(b)') + orphans'[b]
  BY <1>2, <1>3, <1>4, <1>5
<1> QED
  BY <1>2, <1>6 DEF AccountedAt

\* A method is called on breaker x: what c holds of it afterwards covers the
\* debt the call adds, or the call takes as much off.
LEMMA UpdateAccounts ==
    ASSUME IInv, IInv', Accounted, NEW c \in Callers, NEW x \in Breakers, NEW new \in Breaker,
           NEW mine \in SUBSET Breakers, Update(c, x, new, mine), ticket[c] \ {x} \subseteq mine,
           \/ Debt(new) <= (IF x \in mine THEN 1 ELSE 0)
           \/ Debt(new) + Has(c, x) <= Debt(brk[x]) + (IF x \in mine THEN 1 ELSE 0)
    PROVE  Accounted'
<1> DEFINE ends == brk[x].phase = "half" /\ new.phase # "half"
<1>0. /\ brk \in [Breakers -> Breaker] /\ ticket \in [Callers -> SUBSET Breakers]
      /\ orphans \in [Breakers -> 0 .. MaxProbes]
      /\ \A b \in Breakers : AccountedAt(b)
  BY DEF IInv, TypeOK, Accounted
<1>1. /\ brk' = [brk EXCEPT ![x] = new]
      /\ ticket' = [d \in Callers |-> (IF d = c THEN mine ELSE ticket[d])
                                          \ (IF ends THEN {x} ELSE {})]
      /\ orphans' = [orphans EXCEPT ![x] = IF ends THEN 0 ELSE @]
  BY DEF Update, Write, Settle
<1> HIDE DEF ends
<1>2. ASSUME NEW b \in Breakers, b # x PROVE AccountedAt(b)'
  <2>1. /\ \A d \in Callers \ {c} : b \in ticket'[d] <=> b \in ticket[d]
        /\ b \in ticket[c] => b \in ticket'[c]
        /\ orphans'[b] = orphans[b] /\ brk'[b] = brk[b]
    BY <1>0, <1>1, <1>2
  <2>2. Has(c, b) <= Has(c, b)' /\ Has(c, b) \in Int /\ Has(c, b)' \in Int
    BY <2>1 DEF Has
  <2>3. Debt(brk[b]) \in Int
    BY <1>0, DebtTyped
  <2>4. Debt(brk'[b]) + Has(c, b) <= Debt(brk[b]) + Has(c, b)'
    BY <2>1, <2>2, <2>3
  <2> QED
    BY <1>0, <2>1, <2>4, OneMoves
<1>3. AccountedAt(x)'
  <2>1. CASE ends
    <3>1. Owners(x)' = {} /\ brk'[x] = new /\ orphans'[x] = 0
      BY <1>0, <1>1, <2>1 DEF Owners
    <3>2. Debt(new) = 0
      BY <2>1 DEF ends, Debt
    <3>3. IsFiniteSet({}) /\ Cardinality({}) = 0
      BY FS_EmptySet
    <3> QED
      BY <3>1, <3>2, <3>3 DEF AccountedAt
  <2>2. CASE ~ends
    <3>1. /\ \A d \in Callers \ {c} : x \in ticket'[d] <=> x \in ticket[d]
          /\ ticket'[c] = mine /\ orphans'[x] = orphans[x] /\ brk'[x] = new
      BY <1>0, <1>1, <2>2
    <3>2. Has(c, x)' = IF x \in mine THEN 1 ELSE 0
      BY <3>1 DEF Has
    <3>3. \/ Debt(brk'[x]) <= Has(c, x)'
          \/ Debt(brk'[x]) + Has(c, x) <= Debt(brk[x]) + Has(c, x)'
      BY <3>1, <3>2
    <3> QED
      BY <1>0, <3>1, <3>3, OneMoves
  <2> QED
    BY <2>1, <2>2
<1> QED
  BY <1>2, <1>3 DEF Accounted

\* A slot is asked for by a request that has none of that breaker.
LEMMA AskAccounts ==
    ASSUME IInv, IInv', Accounted, NEW c \in Callers, NEW x \in Breakers,
           NEW mine \in SUBSET Breakers, x \notin ticket[c], ticket[c] \subseteq mine,
           Permit(LazyEvaluate(brk[x])) = "Probe" => x \in mine,
           \/ Update(c, x, Acquire(LazyEvaluate(brk[x])), mine)
           \/ Update(c, x, LazyEvaluate(brk[x]), mine)
    PROVE  Accounted'
<1> DEFINE l == LazyEvaluate(brk[x])
           k == IF x \in mine THEN 1 ELSE 0
<1>1. brk[x] \in Breaker /\ Sound(brk[x])
  BY DEF IInv, TypeOK, AllSound
<1>2. l \in Breaker /\ Acquire(l) \in Breaker
  BY <1>1, LazySound, AcquireSound DEF Sound
<1>3. Debt(l) = Debt(brk[x]) \/ Debt(l) = 0
  BY <1>1, LazyDebt
<1>4. Debt(Acquire(l)) = Debt(l) + (IF Permit(l) = "Probe" THEN 1 ELSE 0)
  BY <1>2, AcquireDebt
<1>5. Debt(brk[x]) \in Int /\ Debt(l) \in Int /\ Has(c, x) = 0
  BY <1>1, <1>2, DebtTyped DEF Has
<1>6. Permit(l) = "Probe" => x \in mine
  OBVIOUS
<1> HIDE DEF l
<1>7. ASSUME NEW n \in {Acquire(l), l}
      PROVE  Debt(n) <= k \/ Debt(n) + Has(c, x) <= Debt(brk[x]) + k
  BY <1>3, <1>4, <1>5, <1>6
<1> HIDE DEF k
<1>8. ticket[c] \ {x} \subseteq mine
  OBVIOUS
<1>9. PICK n \in {Acquire(l), l} : Update(c, x, n, mine)
  BY DEF l
<1> QED
  BY <1>2, <1>7, <1>8, <1>9, UpdateAccounts DEF k

\* A request gives its slot back, or reports.
LEMMA ReturnAccounts ==
    ASSUME IInv, IInv', Accounted, NEW c \in Callers, NEW x \in Breakers, NEW new,
           \/ new = CancelProbe(brk[x])
           \/ \E class \in Class : new = RecordOutcome(LazyEvaluate(brk[x]), class),
           Update(c, x, new, ticket[c] \ {x})
    PROVE  Accounted'
<1>1. brk[x] \in Breaker /\ Sound(brk[x])
  BY DEF IInv, TypeOK, AllSound
<1>2. LazyEvaluate(brk[x]) \in Breaker /\ Sound(LazyEvaluate(brk[x]))
  BY <1>1, LazySound DEF Sound
<1>3. new \in Breaker
  BY <1>1, <1>2, CancelSound, RecordSound DEF Sound
<1>4. Debt(brk[x]) \in Int /\ Debt(LazyEvaluate(brk[x])) \in Int
  BY <1>1, <1>2, DebtTyped
<1>5. Debt(new) <= 0 \/ Debt(new) = Debt(brk[x]) - 1
  <2>1. CASE new = CancelProbe(brk[x])
    BY <1>1, <2>1, CancelDebt
  <2>2. ASSUME NEW class \in Class, new = RecordOutcome(LazyEvaluate(brk[x]), class)
        PROVE  Debt(new) <= 0 \/ Debt(new) = Debt(brk[x]) - 1
    <3>1. Debt(new) <= 0 \/ Debt(new) = Debt(LazyEvaluate(brk[x])) - 1
      BY <1>2, <2>2, RecordDebt
    <3>2. Debt(LazyEvaluate(brk[x])) = Debt(brk[x]) \/ Debt(LazyEvaluate(brk[x])) = 0
      BY <1>1, LazyDebt
    <3> QED
      BY <1>4, <3>1, <3>2
  <2> QED
    BY <2>1, <2>2
<1>6. Has(c, x) \in {0, 1}
  BY DEF Has
<1>7. \/ Debt(new) <= 0
      \/ Debt(new) + Has(c, x) <= Debt(brk[x]) + 0
  BY <1>4, <1>5, <1>6
<1>8. ticket[c] \ {x} \in SUBSET Breakers /\ x \notin ticket[c] \ {x}
  BY DEF IInv, TypeOK
<1> QED
  BY <1>3, <1>7, <1>8, UpdateAccounts

\* A request leaves, having given back its slot of the breaker x it dropped
\* last, if any; its other slots have no owner any more.
LEMMA GoneAccounts ==
    ASSUME IInv, IInv', Accounted, NEW c \in Callers, NEW kept \in SUBSET Breakers,
           ticket' = [ticket EXCEPT ![c] = {}], Orphan(ticket[c] \ kept),
           \A b \in Breakers : brk'[b] = brk[b] \/ brk'[b] = CancelProbe(brk[b]),
           \A b \in kept : brk'[b] = CancelProbe(brk[b])
    PROVE  Accounted'
<1> SUFFICES ASSUME NEW b \in Breakers PROVE AccountedAt(b)'
  BY DEF Accounted
<1>0. /\ brk[b] \in Breaker /\ brk'[b] \in Breaker /\ Sound(brk'[b])
      /\ ticket \in [Callers -> SUBSET Breakers] /\ orphans \in [Breakers -> 0 .. MaxProbes]
      /\ AccountedAt(b) /\ Debt(brk[b]) \in Int /\ Debt(brk'[b]) \in Int
  BY DebtTyped DEF IInv, TypeOK, AllSound, Accounted
<1>1. /\ \A d \in Callers \ {c} : b \in ticket'[d] <=> b \in ticket[d]
      /\ Has(c, b)' = 0 /\ Has(c, b) = IF b \in ticket[c] THEN 1 ELSE 0
  BY <1>0 DEF Has
<1>2. Debt(brk'[b]) <= 0 \/ Debt(brk'[b]) <= Debt(brk[b])
  BY <1>0, CancelDebt
<1>3. CASE b \notin ticket[c] \ kept
  <2>1. orphans'[b] = orphans[b]
    BY <1>3 DEF Orphan
  <2>2. CASE b \in ticket[c]
    <3>1. Debt(brk'[b]) <= 0 \/ Debt(brk'[b]) = Debt(brk[b]) - 1
      BY <1>0, <1>3, <2>2, CancelDebt
    <3>2. \/ Debt(brk'[b]) <= Has(c, b)'
          \/ Debt(brk'[b]) + Has(c, b) <= Debt(brk[b]) + Has(c, b)'
      BY <1>0, <1>1, <2>2, <3>1
    <3> QED
      BY <1>0, <1>1, <2>1, <3>2, OneMoves
  <2>3. CASE b \notin ticket[c]
    <3>1. \/ Debt(brk'[b]) <= Has(c, b)'
          \/ Debt(brk'[b]) + Has(c, b) <= Debt(brk[b]) + Has(c, b)'
      BY <1>0, <1>1, <1>2, <2>3
    <3> QED
      BY <1>0, <1>1, <2>1, <3>1, OneMoves
  <2> QED
    BY <2>2, <2>3
<1>4. CASE b \in ticket[c] \ kept
  <2>1. orphans'[b] = Least(orphans[b] + 1, MaxProbes)
    BY <1>4 DEF Orphan
  <2>2. Owners(b)' \ {c} = Owners(b) \ {c} /\ c \in Owners(b) /\ c \notin Owners(b)'
    BY <1>0, <1>1, <1>4 DEF Owners
  <2>3. /\ IsFiniteSet(Owners(b)') /\ Cardinality(Owners(b)) \in Nat
        /\ Cardinality(Owners(b)') \in Nat
        /\ Cardinality(Owners(b)') = Cardinality(Owners(b)) - 1
    <3>1. /\ IsFiniteSet(Owners(b)') /\ Cardinality(Owners(b)) \in Nat
          /\ Cardinality(Owners(b)') \in Nat
          /\ Cardinality(Owners(b)') = (Cardinality(Owners(b)) - (IF c \in Owners(b) THEN 1 ELSE 0))
                                       + (IF c \in Owners(b)' THEN 1 ELSE 0)
      BY <1>0, <2>2, CountOne DEF AccountedAt
    <3> QED
      BY <2>2, <3>1
  <2>4. Debt(brk'[b]) <= MaxProbes
    BY <1>0, ConfigAssumption DEF Sound, Debt, Breaker
  <2>5. Debt(brk[b]) <= Cardinality(Owners(b)) + orphans[b] /\ orphans[b] \in 0 .. MaxProbes
    BY <1>0 DEF AccountedAt
  <2>6. Debt(brk'[b]) <= Cardinality(Owners(b)') + orphans'[b]
    <3>1. CASE orphans[b] + 1 <= MaxProbes
      <4>1. orphans'[b] = orphans[b] + 1
        BY <2>1, <3>1 DEF Least
      <4> QED
        BY <1>0, <1>2, <2>3, <2>5, <4>1
    <3>2. CASE ~(orphans[b] + 1 <= MaxProbes)
      <4>1. orphans'[b] = MaxProbes
        BY <2>1, <3>2 DEF Least
      <4> QED
        BY <1>0, <2>3, <2>4, <4>1, ConfigAssumption
    <3> QED
      BY <3>1, <3>2
  <2> QED
    BY <2>3, <2>6 DEF AccountedAt
<1> QED
  BY <1>3, <1>4

\* A step that leaves breakers, tickets and orphans alone.
LEMMA SameAccounts ==
    ASSUME Accounted, UNCHANGED <<brk, ticket, orphans>>
    PROVE  Accounted'
BY DEF Accounted, AccountedAt, Owners

\* A step of c moves nobody else and gives nobody else a ticket.
LEMMA TicketsKept ==
    ASSUME Tickets, NEW c \in Callers, TicketsOf(c)',
           \A d \in Callers \ {c} : /\ pc'[d] = pc[d] /\ gprobe'[d] = gprobe[d]
                                    /\ armed'[d] = armed[d] /\ ticket'[d] \subseteq ticket[d]
    PROVE  Tickets'
<1> SUFFICES ASSUME NEW d \in Callers, d # c PROVE TicketsOf(d)'
  BY DEF Tickets
<1>1. TicketsOf(d)
  BY DEF Tickets
<1>2. /\ pc'[d] = pc[d] /\ gprobe'[d] = gprobe[d]
      /\ armed'[d] = armed[d] /\ ticket'[d] \subseteq ticket[d]
  OBVIOUS
<1> QED
  BY <1>1, <1>2 DEF TicketsOf

\* What a write does to the tickets.
LEMMA TicketsAfter ==
    ASSUME IInv, NEW c \in Callers, NEW x, NEW new, NEW mine, Update(c, x, new, mine)
    PROVE  /\ ticket'[c] \subseteq mine
           /\ \A d \in Callers \ {c} : ticket'[d] \subseteq ticket[d]
BY DEF Update, Write, IInv, TypeOK

\* A request's step keeps the ledger.
LEMMA RequestLedger ==
    ASSUME IInv, IInv', Ledger, NEW c \in Callers, Request(c)
    PROVE  Ledger'
<1> DEFINE Others == \A d \in Callers \ {c} : /\ pc'[d] = pc[d] /\ gprobe'[d] = gprobe[d]
                                              /\ armed'[d] = armed[d]
                                              /\ ticket'[d] \subseteq ticket[d]
<1>0. /\ Tickets /\ Accounted /\ TicketsOf(c)
      /\ Global \in Breakers /\ Arcs \subseteq Breakers
      /\ cell \in [Hosts -> Arcs] /\ host \in [Callers -> Hosts]
      /\ harc \in [Callers -> Arcs] /\ pc \in [Callers -> Stage]
      /\ gprobe \in [Callers -> BOOLEAN] /\ armed \in [Callers -> BOOLEAN]
      /\ report \in [Callers -> Report] /\ ticket \in [Callers -> SUBSET Breakers]
  BY DEF Ledger, Tickets, IInv, TypeOK, Breakers
<1>a. ASSUME TicketsOf(c)', Others PROVE Tickets'
  BY <1>0, <1>a, TicketsKept
<1>1. ASSUME UNCHANGED <<brk, ticket, orphans>>, TicketsOf(c)', Others PROVE Ledger'
  BY <1>0, <1>1, <1>a, SameAccounts DEF Ledger
<1>2. ASSUME NEW h \in Hosts, Ask(c, h) PROVE Ledger'
  <2>1. UNCHANGED <<brk, ticket, orphans>> /\ Others
    BY <1>0, <1>2 DEF Ask, Goto
  <2>2. TicketsOf(c)'
    BY <1>0, <1>2 DEF Ask, Goto, TicketsOf
  <2> QED
    BY <1>1, <2>1, <2>2
<1>2a. ASSUME NEW h \in Hosts, ArmOpted(c, h) PROVE Ledger'
  <2>1. UNCHANGED <<brk, ticket, orphans>> /\ Others
    BY <1>0, <1>2a DEF ArmOpted, Goto
  <2>2. TicketsOf(c)'
    BY <1>0, <1>2a DEF ArmOpted, Goto, TicketsOf
  <2> QED
    BY <1>1, <2>1, <2>2
<1>3. CASE MakeGuard(c) \/ Finish(c)
  <2>1. UNCHANGED <<brk, ticket, orphans>> /\ Others
    BY <1>0, <1>3 DEF MakeGuard, Finish, Goto
  <2>2. TicketsOf(c)'
    BY <1>0, <1>3 DEF MakeGuard, Finish, Goto, TicketsOf
  <2> QED
    BY <1>1, <2>1, <2>2
<1>4. CASE TryGlobal(c)
  <2> DEFINE mine == IF Permit(LazyEvaluate(brk[Global])) = "Probe" THEN {Global} ELSE {}
  <2>1. /\ pc[c] = "askGlobal" /\ Update(c, Global, Acquire(LazyEvaluate(brk[Global])), mine)
        /\ gprobe' = [gprobe EXCEPT ![c] = (Permit(LazyEvaluate(brk[Global])) = "Probe")]
        /\ pc' = [pc EXCEPT ![c] = IF Permit(LazyEvaluate(brk[Global])) = "Rejected"
                                   THEN "skipped" ELSE "askHost"]
        /\ UNCHANGED armed
    BY <1>4 DEF TryGlobal, Goto, callerVars
  <2>2. ticket[c] = {} /\ mine \in SUBSET Breakers
    BY <1>0, <2>1 DEF TicketsOf
  <2>3. Accounted'
    BY <1>0, <2>1, <2>2, AskAccounts
  <2>4. ticket'[c] \subseteq mine /\ \A d \in Callers \ {c} : ticket'[d] \subseteq ticket[d]
    BY <2>1, TicketsAfter
  <2>5. TicketsOf(c)'
    BY <1>0, <2>1, <2>4 DEF TicketsOf
  <2>6. Others
    BY <1>0, <2>1, <2>4
  <2> QED
    BY <1>a, <2>3, <2>5, <2>6 DEF Ledger
<1>5. CASE TryHost(c)
  <2> DEFINE l == LazyEvaluate(brk[harc[c]])
             mine == ticket[c] \cup (IF Permit(l) = "Probe" THEN {harc[c]} ELSE {})
  <2>0. harc[c] \in Breakers /\ harc[c] # Global
    BY <1>0, NameAssumption
  <2>1. /\ pc[c] = "askHost" /\ Update(c, harc[c], Acquire(l), mine)
        /\ UNCHANGED <<gprobe, armed>>
        /\ pc' = [pc EXCEPT ![c] =
                     CASE Permit(l) = "Rejected" /\ gprobe[c] -> "giveBack"
                       [] Permit(l) = "Rejected" /\ ~gprobe[c] -> "skipped"
                       [] Permit(l) # "Rejected" /\ (Permit(l) = "Probe" \/ gprobe[c]) -> "guard"
                       [] OTHER -> "run"]
    BY <1>5 DEF TryHost, Goto, callerVars
  <2>2. /\ ticket[c] \subseteq {Global} /\ (~gprobe[c] => ticket[c] = {})
        /\ harc[c] \notin ticket[c] /\ mine \in SUBSET Breakers
    BY <1>0, <2>0, <2>1 DEF TicketsOf
  <2>3. Accounted'
    <3>1. Update(c, harc[c], Acquire(l), mine)
      BY <2>1
    <3>2. ticket[c] \subseteq mine /\ (Permit(l) = "Probe" => harc[c] \in mine)
      OBVIOUS
    <3> HIDE DEF mine
    <3> QED
      BY <1>0, <2>0, <2>2, <3>1, <3>2, AskAccounts
  <2>4. ticket'[c] \subseteq mine /\ \A d \in Callers \ {c} : ticket'[d] \subseteq ticket[d]
    BY <2>1, TicketsAfter
  <2>5. /\ pc'[c] \in {"giveBack", "skipped", "guard", "run"}
        /\ pc'[c] = "giveBack" => Permit(l) = "Rejected"
        /\ pc'[c] = "skipped" => Permit(l) = "Rejected" /\ ~gprobe[c]
        /\ pc'[c] = "run" => ~gprobe[c] /\ Permit(l) # "Probe"
    BY <1>0, <2>1
  <2>6. TicketsOf(c)'
    BY <2>0, <2>2, <2>4, <2>5 DEF TicketsOf
  <2>7. Others
    BY <1>0, <2>1, <2>4
  <2> QED
    BY <1>a, <2>3, <2>6, <2>7 DEF Ledger
<1>6. CASE GiveBack(c) \/ DropGlobal(c)
  <2>1. /\ Update(c, Global, CancelProbe(brk[Global]), ticket[c] \ {Global})
        /\ UNCHANGED <<gprobe, armed>>
        /\ \/ pc[c] = "giveBack" /\ pc' = [pc EXCEPT ![c] = "skipped"]
           \/ pc[c] = "dropGlobal" /\ pc' = [pc EXCEPT ![c] = "dropHost"]
    BY <1>6 DEF GiveBack, DropGlobal, Goto, callerVars
  <2>2. Accounted'
    BY <1>0, <2>1, ReturnAccounts
  <2>3. /\ ticket'[c] \subseteq ticket[c] \ {Global}
        /\ \A d \in Callers \ {c} : ticket'[d] \subseteq ticket[d]
    BY <2>1, TicketsAfter
  <2>4. TicketsOf(c)'
    BY <1>0, <2>1, <2>3 DEF TicketsOf
  <2>5. Others
    BY <1>0, <2>1, <2>3
  <2> QED
    BY <1>a, <2>2, <2>4, <2>5 DEF Ledger
<1>7. CASE RecordGlobal(c)
  <2>1. PICK new :
          /\ \/ new = CancelProbe(brk[Global])
             \/ \E class \in Class : new = RecordOutcome(LazyEvaluate(brk[Global]), class)
          /\ Update(c, Global, new, ticket[c] \ {Global})
    BY <1>0, <1>7 DEF RecordGlobal, Report
  <2>2. pc' = [pc EXCEPT ![c] = "recHost"] /\ UNCHANGED <<gprobe, armed>>
    BY <1>7 DEF RecordGlobal, Goto, callerVars
  <2>3. Accounted'
    BY <1>0, <2>1, ReturnAccounts
  <2>4. /\ ticket'[c] \subseteq ticket[c] \ {Global}
        /\ \A d \in Callers \ {c} : ticket'[d] \subseteq ticket[d]
    BY <2>1, TicketsAfter
  <2>5. TicketsOf(c)'
    BY <1>0, <2>2, <2>4 DEF TicketsOf
  <2>6. Others
    BY <1>0, <2>2, <2>4
  <2> QED
    BY <1>a, <2>3, <2>5, <2>6 DEF Ledger
<1>8. CASE RecordHost(c)
  <2> DEFINE a == cell[host[c]]
  <2>0. a \in Breakers
    BY <1>0
  <2>1. PICK new :
          /\ \E class \in Class : new = RecordOutcome(LazyEvaluate(brk[a]), class)
          /\ Update(c, a, new, ticket[c] \ {a})
    BY <1>0, <1>8 DEF RecordHost, Report
  <2>2. /\ pc[c] = "recHost" /\ pc' = [pc EXCEPT ![c] = "recorded"] /\ UNCHANGED <<gprobe, armed>>
    BY <1>8 DEF RecordHost, Goto, callerVars
  <2>3. Accounted'
    BY <1>0, <2>0, <2>1, ReturnAccounts
  <2>4. /\ ticket'[c] \subseteq ticket[c] \ {a}
        /\ \A d \in Callers \ {c} : ticket'[d] \subseteq ticket[d]
    BY <2>1, TicketsAfter
  <2>5. TicketsOf(c)'
    BY <1>0, <2>2, <2>4 DEF TicketsOf
  <2>6. Others
    BY <1>0, <2>2, <2>4
  <2> QED
    BY <1>a, <2>3, <2>5, <2>6 DEF Ledger
<1>9. ASSUME Leave(c), UNCHANGED brk PROVE Ledger'
  <2>1. ticket' = [ticket EXCEPT ![c] = {}] /\ Orphan(ticket[c] \ {})
    <3>1. ticket[c] \ {} = ticket[c]
      OBVIOUS
    <3> QED
      BY <1>9, <3>1 DEF Leave
  <2>2. /\ \A b \in Breakers : brk'[b] = brk[b] \/ brk'[b] = CancelProbe(brk[b])
        /\ \A b \in {} : brk'[b] = CancelProbe(brk[b])
        /\ {} \in SUBSET Breakers
    BY <1>9
  <2>3. Accounted'
    BY <1>0, <2>1, <2>2, GoneAccounts
  <2>4. TicketsOf(c)'
    BY <1>0, <1>9, <2>1 DEF Leave, Goto, TicketsOf
  <2>5. Others
    BY <1>0, <1>9, <2>1 DEF Leave, Goto
  <2> QED
    BY <1>a, <2>3, <2>4, <2>5 DEF Ledger
<1>10. CASE CancelUnguarded(c)
  BY <1>9, <1>10 DEF CancelUnguarded
<1>11. CASE EndAttempt(c) \/ Abort(c)
  <2>1. CASE Leave(c)
    BY <1>9, <1>11, <2>1 DEF EndAttempt, Abort
  <2>2. CASE ~Leave(c)
    <3>1. /\ pc' = [pc EXCEPT ![c] = "dropGlobal"]
          /\ UNCHANGED <<brk, armed, gprobe, ticket, orphans>>
      BY <1>11, <2>2 DEF EndAttempt, Abort, Goto
    <3>2. Others
      BY <1>0, <3>1
    <3>3. TicketsOf(c)'
      BY <1>0, <3>1 DEF TicketsOf
    <3> QED
      BY <1>1, <3>1, <3>2, <3>3
  <2> QED
    BY <2>1, <2>2
<1>12. CASE DropHost(c)
  <2>1. /\ brk' = [brk EXCEPT ![harc[c]] = CancelProbe(brk[harc[c]])]
        /\ ticket' = [ticket EXCEPT ![c] = {}] /\ Orphan(ticket[c] \ {harc[c]})
        /\ pc' = [pc EXCEPT ![c] = "idle"] /\ gprobe' = [gprobe EXCEPT ![c] = FALSE]
        /\ armed' = [armed EXCEPT ![c] = FALSE]
    BY <1>12 DEF DropHost, Goto
  <2>2. {harc[c]} \in SUBSET Breakers
    BY <1>0
  <2>3. /\ \A b \in Breakers : brk'[b] = brk[b] \/ brk'[b] = CancelProbe(brk[b])
        /\ \A b \in {harc[c]} : brk'[b] = CancelProbe(brk[b])
    BY <2>1, <2>2 DEF IInv, TypeOK
  <2>4. Accounted'
    BY <1>0, <2>1, <2>2, <2>3, GoneAccounts
  <2>5. TicketsOf(c)'
    BY <1>0, <2>1 DEF TicketsOf
  <2>6. Others
    BY <1>0, <2>1
  <2> QED
    BY <1>a, <2>4, <2>5, <2>6 DEF Ledger
<1>13. ASSUME NEW h \in Hosts, ArmCheck(c, h) PROVE Ledger'
  <2>0. cell[h] \in Breakers
    BY <1>0
  <2>1. /\ pc[c] = "idle" /\ Update(c, cell[h], LazyEvaluate(brk[cell[h]]), {})
        /\ UNCHANGED <<gprobe, armed>>
        /\ pc' = [pc EXCEPT ![c] =
                     IF LazyEvaluate(brk[cell[h]]).phase = "open" THEN "idle" ELSE "run"]
    BY <1>13 DEF ArmCheck, Goto
  <2>2. ticket[c] = {}
    BY <1>0, <2>1 DEF TicketsOf
  <2>3. Accounted'
    <3>1. brk[cell[h]] \in Breaker /\ Sound(brk[cell[h]])
      BY <2>0 DEF IInv, TypeOK, AllSound
    <3>2. LazyEvaluate(brk[cell[h]]) \in Breaker
      BY <3>1, LazySound DEF Sound
    <3>3. /\ Debt(LazyEvaluate(brk[cell[h]])) = Debt(brk[cell[h]])
             \/ Debt(LazyEvaluate(brk[cell[h]])) = 0
          /\ Has(c, cell[h]) = 0 /\ cell[h] \notin {} /\ {} \in SUBSET Breakers
          /\ Debt(brk[cell[h]]) \in Int
      BY <2>2, <3>1, LazyDebt, DebtTyped DEF Has
    <3>4. \/ Debt(LazyEvaluate(brk[cell[h]])) <= 0
          \/ Debt(LazyEvaluate(brk[cell[h]])) + Has(c, cell[h]) <= Debt(brk[cell[h]]) + 0
      BY <3>3
    <3> QED
      BY <1>0, <2>0, <2>1, <2>2, <3>2, <3>3, <3>4, UpdateAccounts
  <2>4. ticket'[c] \subseteq {} /\ \A d \in Callers \ {c} : ticket'[d] \subseteq ticket[d]
    BY <2>1, TicketsAfter
  <2>5. TicketsOf(c)'
    BY <1>0, <2>1, <2>4 DEF TicketsOf
  <2>6. Others
    BY <1>0, <2>1, <2>4
  <2> QED
    BY <1>a, <2>3, <2>5, <2>6 DEF Ledger
<1>14. CASE Leak(c)
  <2> DEFINE a == cell[host[c]]
             mine == IF Permit(LazyEvaluate(brk[a])) = "Probe" THEN {a} ELSE {}
  <2>0. a \in Breakers /\ a # Global
    BY <1>0, NameAssumption
  <2>1. /\ pc[c] = "skipped" /\ Update(c, a, Acquire(LazyEvaluate(brk[a])), mine)
        /\ UNCHANGED <<gprobe, armed>> /\ pc' = [pc EXCEPT ![c] = "leakRun"]
    BY <1>14 DEF Leak, Goto, callerVars
  <2>2. ticket[c] = {} /\ mine \in SUBSET Breakers
    BY <1>0, <2>0, <2>1 DEF TicketsOf
  <2>3. Accounted'
    BY <1>0, <2>0, <2>1, <2>2, AskAccounts
  <2>4. ticket'[c] \subseteq mine /\ \A d \in Callers \ {c} : ticket'[d] \subseteq ticket[d]
    BY <2>1, TicketsAfter
  <2>5. TicketsOf(c)'
    BY <1>0, <2>0, <2>1, <2>4 DEF TicketsOf
  <2>6. Others
    BY <1>0, <2>1, <2>4
  <2> QED
    BY <1>a, <2>3, <2>5, <2>6 DEF Ledger
<1>15. CASE NoLeak(c)
  <2> DEFINE a == cell[host[c]]
  <2>0. a \in Breakers
    BY <1>0
  <2>1. /\ pc[c] = "skipped" /\ pc' = [pc EXCEPT ![c] = "idle"] /\ UNCHANGED armed
        /\ gprobe' = [gprobe EXCEPT ![c] = FALSE]
    BY <1>15 DEF NoLeak, Goto
  <2>2. ticket[c] = {}
    BY <1>0, <2>1 DEF TicketsOf
  <2>3. CASE UNCHANGED <<brk, ticket, orphans>>
    <3>1. TicketsOf(c)' /\ Others
      BY <1>0, <2>1, <2>2, <2>3 DEF TicketsOf
    <3> QED
      BY <1>1, <2>3, <3>1
  <2>4. CASE /\ Permit(LazyEvaluate(brk[a])) = "Rejected"
             /\ Update(c, a, LazyEvaluate(brk[a]), {})
    <3>1. Accounted'
      <4>1. a \notin ticket[c] /\ ticket[c] \subseteq {} /\ {} \in SUBSET Breakers
        BY <2>2
      <4> QED
        BY <1>0, <2>0, <2>4, <4>1, AskAccounts
    <3>2. ticket'[c] \subseteq {} /\ \A d \in Callers \ {c} : ticket'[d] \subseteq ticket[d]
      BY <2>4, TicketsAfter
    <3>3. TicketsOf(c)' /\ Others
      BY <1>0, <2>1, <3>2 DEF TicketsOf
    <3> QED
      BY <1>a, <3>1, <3>3 DEF Ledger
  <2> QED
    BY <1>15, <2>3, <2>4 DEF NoLeak
<1> QED
  BY <1>2, <1>2a, <1>3, <1>4, <1>5, <1>6, <1>7, <1>8, <1>10, <1>11, <1>12, <1>13, <1>14, <1>15
     DEF Request

\* A breaker with no debt is accounted for, whoever lost a ticket of it.
LEMMA NoDebtAccounts ==
    ASSUME IInv', NEW b \in Breakers, AccountedAt(b), Debt(brk'[b]) = 0,
           \A d \in Callers : b \in ticket'[d] => b \in ticket[d]
    PROVE  AccountedAt(b)'
<1>1. Owners(b)' \subseteq Owners(b)
  BY DEF Owners
<1>2. IsFiniteSet(Owners(b)') /\ Cardinality(Owners(b)') \in Nat
  BY <1>1, FS_Subset, FS_CardinalityType DEF AccountedAt
<1>3. orphans'[b] \in Nat
  BY ConfigAssumption DEF IInv, TypeOK
<1> QED
  BY <1>2, <1>3 DEF AccountedAt

\* A step that moves no request and gives out no ticket.
LEMMA TicketsShrink ==
    ASSUME Tickets, UNCHANGED <<pc, gprobe, armed>>,
           \A d \in Callers : ticket'[d] \subseteq ticket[d]
    PROVE  Tickets'
BY DEF Tickets, TicketsOf

\* The rest of the world keeps the ledger.
LEMMA WorldLedger ==
    ASSUME IInv, IInv', Ledger,
           \/ \E b \in Breakers : Observe(b)
           \/ \E h \in Hosts : Evict(h)
           \/ Tick
    PROVE  Ledger'
<1>0. /\ Tickets /\ Accounted /\ \A b \in Breakers : AccountedAt(b)
      /\ brk \in [Breakers -> Breaker] /\ Arcs \subseteq Breakers
      /\ ticket \in [Callers -> SUBSET Breakers]
      /\ orphans \in [Breakers -> 0 .. MaxProbes]
  BY DEF Ledger, Accounted, IInv, TypeOK, Breakers
<1>1. ASSUME NEW x \in Breakers, Observe(x) PROVE Ledger'
  <2>1. /\ brk' = [brk EXCEPT ![x] = LazyEvaluate(brk[x])] /\ LazyEvaluate(brk[x]) # brk[x]
        /\ ticket' = [d \in Callers |->
              IF brk[x].phase = "half" THEN ticket[d] \ {x} ELSE ticket[d]]
        /\ \A b \in Breakers \ {x} : orphans'[b] = orphans[b]
        /\ UNCHANGED <<pc, gprobe, armed>>
    BY <1>0, <1>1 DEF Observe, Settle
  <2>2. \A d \in Callers : ticket'[d] \subseteq ticket[d]
    BY <2>1
  <2>3. ASSUME NEW b \in Breakers, b # x PROVE AccountedAt(b)'
    <3>1. Owners(b)' = Owners(b) /\ brk'[b] = brk[b] /\ orphans'[b] = orphans[b]
      BY <1>0, <2>1, <2>3 DEF Owners
    <3> QED
      BY <1>0, <3>1 DEF AccountedAt
  <2>4. AccountedAt(x)'
    <3>1. Debt(brk'[x]) = 0
      BY <1>0, <2>1, LazyDebt
    <3>2. \A d \in Callers : x \in ticket'[d] => x \in ticket[d]
      BY <2>2
    <3> QED
      BY <1>0, <3>1, <3>2, NoDebtAccounts
  <2>5. Tickets'
    BY <1>0, <2>1, <2>2, TicketsShrink
  <2> QED
    BY <2>3, <2>4, <2>5 DEF Ledger, Accounted
<1>2. ASSUME NEW h \in Hosts, Evict(h) PROVE Ledger'
  <2>1. PICK a \in Arcs :
            /\ brk' = [brk EXCEPT ![a] = Fresh]
            /\ ticket' = [c \in Callers |-> ticket[c] \ {a}]
            /\ orphans' = [orphans EXCEPT ![a] = 0]
            /\ UNCHANGED <<pc, gprobe, armed>>
    BY <1>2 DEF Evict
  <2>2. a \in Breakers /\ \A d \in Callers : ticket'[d] \subseteq ticket[d]
    BY <1>0, <2>1
  <2>3. ASSUME NEW b \in Breakers, b # a PROVE AccountedAt(b)'
    <3>1. Owners(b)' = Owners(b) /\ brk'[b] = brk[b] /\ orphans'[b] = orphans[b]
      BY <1>0, <2>1, <2>3 DEF Owners
    <3> QED
      BY <1>0, <3>1 DEF AccountedAt
  <2>4. AccountedAt(a)'
    <3>1. Debt(brk'[a]) = 0
      BY <1>0, <2>1, <2>2 DEF Fresh, Debt
    <3>2. \A d \in Callers : a \in ticket'[d] => a \in ticket[d]
      BY <2>2
    <3> QED
      BY <1>0, <2>2, <3>1, <3>2, NoDebtAccounts
  <2>5. Tickets'
    BY <1>0, <2>1, <2>2, TicketsShrink
  <2> QED
    BY <2>3, <2>4, <2>5 DEF Ledger, Accounted
<1>3. CASE Tick
  <2>1. UNCHANGED <<pc, gprobe, armed, ticket, orphans>>
    BY <1>3 DEF Tick
  <2>2. ASSUME NEW b \in Breakers PROVE Debt(brk'[b]) = Debt(brk[b])
    <3>1. \E n : brk'[b] = [brk[b] EXCEPT !.left = n]
      BY <1>3 DEF Tick
    <3>2. /\ brk'[b].phase = brk[b].phase /\ brk'[b].admitted = brk[b].admitted
          /\ brk'[b].succeeded = brk[b].succeeded /\ brk'[b].failed = brk[b].failed
      BY <1>0, <3>1 DEF Breaker
    <3> QED
      BY <3>2 DEF Debt
  <2>3. Accounted'
    BY <1>0, <2>1, <2>2 DEF Accounted, AccountedAt, Owners
  <2>4. Tickets'
    BY <1>0, <2>1, TicketsShrink
  <2> QED
    BY <2>3, <2>4 DEF Ledger
<1> QED
  BY <1>1, <1>2, <1>3

\* Nobody has a slot at the start.
LEMMA InitLedger == Init => Ledger
<1> SUFFICES ASSUME Init PROVE Ledger
  OBVIOUS
<1>1. Tickets
  BY DEF Init, Tickets, TicketsOf
<1>2. ASSUME NEW b \in Breakers PROVE AccountedAt(b)
  <2>1. Owners(b) = {} /\ Debt(brk[b]) = 0 /\ orphans[b] = 0
    BY DEF Init, Owners, Fresh, Debt
  <2>2. IsFiniteSet({}) /\ Cardinality({}) = 0
    BY FS_EmptySet
  <2> QED
    BY <2>1, <2>2 DEF AccountedAt
<1> QED
  BY <1>1, <1>2 DEF Ledger, Accounted

\* The ledger is kept by every step between states that keep the invariant.
THEOREM LedgerKept == Spec => []Ledger
<1>1. ASSUME IInv, IInv', Ledger, [Next]_vars PROVE Ledger'
  <2>1. CASE UNCHANGED vars
    <3>1. UNCHANGED <<brk, ticket, orphans, pc, gprobe, armed>>
      BY <2>1 DEF vars
    <3>2. \A d \in Callers : ticket'[d] \subseteq ticket[d]
      BY <3>1
    <3> QED
      BY <1>1, <3>1, <3>2, SameAccounts, TicketsShrink DEF Ledger
  <2> QED
    BY <1>1, <2>1, RequestLedger, WorldLedger DEF Next
<1> QED
  BY <1>1, InitLedger, Invariance, PTL DEF Spec

\* No probe slot is lost: each is with a request, counted, or orphaned.
THEOREM SlotsAccounted == Spec => []SlotAccounted
<1>1. IInv /\ Ledger => SlotAccounted
  <2> SUFFICES ASSUME IInv, Ledger, NEW b \in Breakers, brk[b].phase = "half"
               PROVE  brk[b].admitted <=
                        Cardinality(Owners(b)) + brk[b].succeeded + brk[b].failed + orphans[b]
    BY DEF SlotAccounted
  <2>1. /\ brk[b].admitted \in Nat /\ brk[b].succeeded \in Nat /\ brk[b].failed \in Nat
        /\ orphans[b] \in Nat
    BY ConfigAssumption DEF IInv, TypeOK, Breaker
  <2>2. /\ Cardinality(Owners(b)) \in Nat
        /\ brk[b].admitted - (brk[b].succeeded + brk[b].failed)
             <= Cardinality(Owners(b)) + orphans[b]
    BY FS_CardinalityType DEF Ledger, Accounted, AccountedAt, Debt
  <2> QED
    BY <2>1, <2>2
<1> QED
  BY <1>1, Invariance, LedgerKept, PTL

\* The global breaker loses a slot only to a future dropped before its guard
\* exists (acquire_with_guard, ProbeGuard::drop, record_outcome).
THEOREM GlobalIsGuarded == Spec => GlobalSlotsGuarded
<1>1. ASSUME IInv, Ledger, [Next]_vars PROVE GlobalOrphanStep
  <2> SUFFICES ASSUME orphans'[Global] > orphans[Global]
               PROVE  \E c \in Callers : pc[c] = "guard" /\ pc'[c] = "idle"
    BY DEF GlobalOrphanStep
  <2>0. /\ orphans \in [Breakers -> 0 .. MaxProbes] /\ orphans[Global] \in Nat
        /\ Global \in Breakers /\ pc \in [Callers -> Stage]
        /\ \A c \in Callers : TicketsOf(c)
    BY <1>1, ConfigAssumption DEF IInv, TypeOK, Breakers, Ledger, Tickets
  <2>1. ~(orphans'[Global] = orphans[Global]) /\ ~(orphans'[Global] = 0)
    BY <2>0
  <2>2. ASSUME NEW x, NEW new PROVE ~Settle(x, new)
    <3>1. ASSUME Settle(x, new) PROVE orphans'[Global] = orphans[Global] \/ orphans'[Global] = 0
      BY <2>0, <3>1 DEF Settle
    <3> QED
      BY <2>1, <3>1
  <2>3. ASSUME NEW slots, Orphan(slots) PROVE Global \in slots
    BY <2>0, <2>1, <2>3 DEF Orphan
  <2>4. PICK c \in Callers : Request(c)
    <3>1. ~Tick /\ ~UNCHANGED vars
      BY <2>1 DEF Tick, vars
    <3>2. \A b \in Breakers : ~Observe(b)
      BY <2>2 DEF Observe
    <3>3. ASSUME NEW h \in Hosts PROVE ~Evict(h)
      <4>1. ASSUME NEW a \in Arcs, orphans' = [orphans EXCEPT ![a] = 0]
            PROVE  orphans'[Global] = orphans[Global]
        BY <2>0, <4>1, NameAssumption
      <4> QED
        BY <2>1, <4>1 DEF Evict
    <3> QED
      BY <1>1, <3>1, <3>2, <3>3 DEF Next
  <2>5. CASE Leave(c)
    <3>1. Global \in ticket[c]
      BY <2>3, <2>5 DEF Leave
    <3>2. CASE CancelUnguarded(c)
      BY <2>0, <3>2 DEF CancelUnguarded, Leave, Goto
    <3>3. CASE EndAttempt(c)
      BY <2>0, <3>1, <3>3 DEF EndAttempt, TicketsOf
    <3>4. CASE Abort(c)
      <4>1. CASE armed[c]
        BY <2>1, <3>4, <4>1 DEF Abort
      <4>2. CASE ~armed[c]
        BY <2>0, <3>1, <3>4, <4>2 DEF Abort, TicketsOf
      <4> QED
        BY <4>1, <4>2
    <3>5. CASE DropHost(c)
      BY <2>0, <3>1, <3>5 DEF DropHost, TicketsOf
    <3> QED
      BY <2>1, <2>2, <2>4, <3>2, <3>3, <3>4, <3>5
         DEF Request, Ask, ArmCheck, ArmOpted, TryGlobal, TryHost, GiveBack, MakeGuard, Finish,
             RecordGlobal, RecordHost, DropGlobal, Leak, NoLeak, Update
  <2>6. CASE DropHost(c)
    <3>1. Global \in ticket[c]
      BY <2>3, <2>6 DEF DropHost
    <3> QED
      BY <2>0, <2>6, <3>1 DEF DropHost, TicketsOf
  <2>7. CASE ~Leave(c) /\ ~DropHost(c)
    BY <2>1, <2>2, <2>4, <2>7
       DEF Request, Ask, ArmCheck, ArmOpted, TryGlobal, TryHost, GiveBack, MakeGuard, CancelUnguarded,
           Finish, RecordGlobal, RecordHost, EndAttempt, Abort, DropGlobal, Leak, NoLeak, Update
  <2> QED
    BY <2>5, <2>6, <2>7
<1> QED
  BY <1>1, Invariance, LedgerKept, PTL DEF Spec, GlobalSlotsGuarded

-----------------------------------------------------------------------------
(* Which calls let live probes outgrow the slots. *)

\* Only a half-open breaker has probes.
HalfTickets == \A c \in Callers : \A b \in ticket[c] : brk[b].phase = "half"

\* Nobody gains a ticket of b.
Kept(b) == \A d \in Callers : b \in ticket'[d] => b \in ticket[d]

\* What a step does to the debt of b and to its tickets: nothing; a probe is
\* admitted; or somebody settles, and takes one off at most if it holds one.
TicketStep(b) ==
    /\ brk'[b].phase # "half" => \A d \in Callers : b \notin ticket'[d]
    /\ brk'[b].phase = "half" =>
          \/ Kept(b) /\ Debt(brk'[b]) = Debt(brk[b])
          \/ \E c \in Callers :
                /\ \A d \in Callers : b \in ticket'[d] => b \in ticket[d] \/ d = c
                /\ Debt(brk'[b]) = Debt(brk[b]) + 1
          \/ \E c \in Callers :
                /\ Settles(c, b) /\ pc'[c] # pc[c]
                /\ Kept(b) /\ b \notin ticket'[c]
                /\ b \in ticket[c] => Debt(brk'[b]) >= Debt(brk[b]) - 1

\* The evaluation leaves the debt of what is half-open afterwards alone.
LEMMA LazyHalf ==
    ASSUME NEW b \in Breaker, LazyEvaluate(b).phase = "half"
    PROVE  Debt(LazyEvaluate(b)) = Debt(b) /\ (b.phase = "half" => LazyEvaluate(b) = b)
<1>1. Close(b).phase = "closed" /\ Eject(b).phase = "open"
  BY CloseSound, EjectSound
<1>2. b.phase = "half" => LazyEvaluate(b) = b
  BY <1>1 DEF LazyEvaluate
<1>3. b.phase # "half" => Debt(b) = 0 /\ Debt(LazyEvaluate(b)) = 0
  BY LazyDebt DEF Debt
<1> QED
  BY <1>2, <1>3

\* A breaker that is not touched.
LEMMA SameTickets ==
    ASSUME HalfTickets, NEW b \in Breakers, Kept(b),
           brk'[b].phase = brk[b].phase, Debt(brk'[b]) = Debt(brk[b])
    PROVE  TicketStep(b)
<1>1. brk'[b].phase # "half" => \A d \in Callers : b \notin ticket'[d]
  BY DEF HalfTickets, Kept
<1> QED
  BY <1>1 DEF TicketStep

\* A method is called on x: what becomes of x and of the others.
LEMMA UpdateTickets ==
    ASSUME IInv, NEW c \in Callers, NEW x \in Breakers, NEW new, NEW mine,
           Update(c, x, new, mine), mine \ {x} \subseteq ticket[c], NEW b \in Breakers
    PROVE  /\ b # x => brk'[b] = brk[b] /\ Kept(b)
           /\ b = x =>
                 /\ brk'[b] = new
                 /\ brk[b].phase = "half" /\ new.phase # "half" =>
                       \A d \in Callers : b \notin ticket'[d]
                 /\ \A d \in Callers \ {c} : b \in ticket'[d] => b \in ticket[d]
                 /\ b \in ticket'[c] => b \in mine
<1>1. /\ brk' = [brk EXCEPT ![x] = new] /\ brk \in [Breakers -> Breaker]
      /\ ticket' = [d \in Callers |->
            (IF d = c THEN mine ELSE ticket[d])
                \ (IF brk[x].phase = "half" /\ new.phase # "half" THEN {x} ELSE {})]
  BY DEF Update, Write, IInv, TypeOK
<1>2. b # x => brk'[b] = brk[b] /\ Kept(b)
  BY <1>1 DEF Kept
<1>3. b = x => brk'[b] = new
  BY <1>1
<1>4. ASSUME b = x
      PROVE  /\ brk[b].phase = "half" /\ new.phase # "half" =>
                    \A d \in Callers : b \notin ticket'[d]
             /\ \A d \in Callers \ {c} : b \in ticket'[d] => b \in ticket[d]
             /\ b \in ticket'[c] => b \in mine
  BY <1>1, <1>4
<1> QED
  BY <1>2, <1>3, <1>4

\* c asks x, and holds what it is given.
LEMMA AskTickets ==
    ASSUME IInv, HalfTickets, NEW c \in Callers, NEW x \in Breakers, NEW mine,
           Update(c, x, Acquire(LazyEvaluate(brk[x])), mine),
           mine \ {x} \subseteq ticket[c],
           x \in mine => Permit(LazyEvaluate(brk[x])) = "Probe",
           NEW b \in Breakers
    PROVE  TicketStep(b)
<1> DEFINE l == LazyEvaluate(brk[x])
           new == Acquire(l)
<1>1. brk[x] \in Breaker /\ l \in Breaker
  <2>1. brk[x] \in Breaker /\ Sound(brk[x])
    BY DEF IInv, TypeOK, AllSound
  <2> QED
    BY <2>1, LazySound DEF Sound
<1>2. /\ new.phase = l.phase
      /\ Debt(new) = Debt(l) + (IF Permit(l) = "Probe" THEN 1 ELSE 0)
      /\ l.phase = "half" => Debt(l) = Debt(brk[x])
      /\ Permit(l) = "Probe" => l.phase = "half"
  <2>1. new.phase = l.phase
    BY <1>1, SlotKeepsPhase
  <2>2. Debt(new) = Debt(l) + (IF Permit(l) = "Probe" THEN 1 ELSE 0)
    BY <1>1, AcquireDebt
  <2>3. l.phase = "half" => Debt(l) = Debt(brk[x])
    BY <1>1, LazyHalf
  <2>4. Permit(l) = "Probe" => l.phase = "half"
    BY DEF Permit
  <2> QED
    BY <2>1, <2>2, <2>3, <2>4
<1>3. x \in mine => Permit(l) = "Probe"
  OBVIOUS
<1>4. /\ b # x => brk'[b] = brk[b] /\ Kept(b)
      /\ b = x =>
            /\ brk'[b] = new
            /\ brk[b].phase = "half" /\ new.phase # "half" => \A d \in Callers : b \notin ticket'[d]
            /\ \A d \in Callers \ {c} : b \in ticket'[d] => b \in ticket[d]
            /\ b \in ticket'[c] => b \in mine
  BY UpdateTickets
<1>5. Debt(l) \in Int
  BY <1>1, DebtTyped
<1> HIDE DEF l, new
<1>6. CASE b # x
  BY <1>4, <1>6, SameTickets
<1>7. CASE b = x
  <2>1. CASE new.phase # "half"
    <3>1. \A d \in Callers : b \notin ticket'[d]
      BY <1>2, <1>3, <1>4, <1>7, <2>1 DEF HalfTickets
    <3> QED
      BY <1>4, <1>7, <2>1, <3>1 DEF TicketStep
  <2>2. CASE new.phase = "half" /\ Permit(l) = "Probe"
    <3>1. Debt(brk'[b]) = Debt(brk[b]) + 1
      BY <1>2, <1>4, <1>7, <2>2
    <3>2. \A d \in Callers : b \in ticket'[d] => b \in ticket[d] \/ d = c
      BY <1>4, <1>7
    <3> QED
      BY <1>4, <1>7, <2>2, <3>1, <3>2 DEF TicketStep
  <2>3. CASE new.phase = "half" /\ Permit(l) # "Probe"
    <3>1. Debt(brk'[b]) = Debt(brk[b])
      BY <1>2, <1>4, <1>5, <1>7, <2>3
    <3>2. Kept(b)
      BY <1>3, <1>4, <1>7, <2>3 DEF Kept
    <3> QED
      BY <1>4, <1>7, <2>3, <3>1, <3>2 DEF TicketStep
  <2> QED
    BY <2>1, <2>2, <2>3
<1> QED
  BY <1>6, <1>7

\* c only looks at x.
LEMMA LookTickets ==
    ASSUME IInv, HalfTickets, NEW c \in Callers, NEW x \in Breakers,
           Update(c, x, LazyEvaluate(brk[x]), {}), NEW b \in Breakers
    PROVE  TicketStep(b)
<1> DEFINE l == LazyEvaluate(brk[x])
<1>1. brk[x] \in Breaker
  BY DEF IInv, TypeOK
<1>2. l.phase = "half" => Debt(l) = Debt(brk[x])
  BY <1>1, LazyHalf
<1>3. /\ b # x => brk'[b] = brk[b] /\ Kept(b)
      /\ b = x =>
            /\ brk'[b] = l
            /\ brk[b].phase = "half" /\ l.phase # "half" => \A d \in Callers : b \notin ticket'[d]
            /\ \A d \in Callers \ {c} : b \in ticket'[d] => b \in ticket[d]
            /\ b \in ticket'[c] => b \in {}
  BY UpdateTickets
<1> HIDE DEF l
<1>4. CASE b # x
  BY <1>3, <1>4, SameTickets
<1>5. CASE b = x
  <2>1. Kept(b)
    BY <1>3, <1>5 DEF Kept
  <2>2. l.phase # "half" => \A d \in Callers : b \notin ticket'[d]
    BY <1>3, <1>5, <2>1 DEF HalfTickets, Kept
  <2> QED
    BY <1>2, <1>3, <1>5, <2>1, <2>2 DEF TicketStep
<1> QED
  BY <1>4, <1>5

\* What c may do to x when it settles.
Settled(x, new) ==
    new = CancelProbe(brk[x]) \/ \E class \in Class : new = RecordOutcome(LazyEvaluate(brk[x]), class)

\* Settling takes at most one off the debt.
LEMMA SettledDebt ==
    ASSUME IInv, NEW x \in Breakers, NEW new, Settled(x, new), new.phase = "half",
           brk[x].phase = "half"
    PROVE  Debt(new) >= Debt(brk[x]) - 1
<1>1. brk[x] \in Breaker /\ LazyEvaluate(brk[x]) \in Breaker
  <2>1. brk[x] \in Breaker /\ Sound(brk[x])
    BY DEF IInv, TypeOK, AllSound
  <2> QED
    BY <2>1, LazySound DEF Sound
<1>2. CASE new = CancelProbe(brk[x])
  BY <1>1, <1>2, CancelDebt
<1>3. ASSUME NEW class \in Class, new = RecordOutcome(LazyEvaluate(brk[x]), class)
      PROVE  Debt(new) >= Debt(brk[x]) - 1
  <2>1. LazyEvaluate(brk[x]).phase = "half" /\ Debt(new) >= Debt(LazyEvaluate(brk[x])) - 1
    BY <1>1, <1>3, RecordDebt
  <2> QED
    BY <1>1, <2>1, LazyHalf
<1> QED
  BY <1>2, <1>3 DEF Settled

\* c settles with x.
LEMMA SettleTickets ==
    ASSUME IInv, HalfTickets, NEW c \in Callers, NEW x \in Breakers, NEW new, Settled(x, new),
           Update(c, x, new, ticket[c] \ {x}), Settles(c, x), pc'[c] # pc[c],
           NEW b \in Breakers
    PROVE  TicketStep(b)
<1>1. (ticket[c] \ {x}) \ {x} \subseteq ticket[c]
  OBVIOUS
<1>2. /\ b # x => brk'[b] = brk[b] /\ Kept(b)
      /\ b = x =>
            /\ brk'[b] = new
            /\ brk[b].phase = "half" /\ new.phase # "half" => \A d \in Callers : b \notin ticket'[d]
            /\ \A d \in Callers \ {c} : b \in ticket'[d] => b \in ticket[d]
            /\ b \in ticket'[c] => b \in ticket[c] \ {x}
  BY <1>1, UpdateTickets
<1>3. CASE b # x
  BY <1>2, <1>3, SameTickets
<1>4. CASE b = x
  <2>1. Kept(b) /\ b \notin ticket'[c]
    BY <1>2, <1>4 DEF Kept
  <2>2. new.phase # "half" => \A d \in Callers : b \notin ticket'[d]
    BY <1>2, <1>4, <2>1 DEF HalfTickets, Kept
  <2>3. b \in ticket[c] /\ new.phase = "half" => Debt(brk'[b]) >= Debt(brk[b]) - 1
    BY <1>2, <1>4, SettledDebt DEF HalfTickets
  <2> QED
    BY <1>2, <1>4, <2>1, <2>2, <2>3 DEF TicketStep
<1> QED
  BY <1>3, <1>4

\* A request's step.
LEMMA RequestTickets ==
    ASSUME IInv, HalfTickets, Tickets, NEW c \in Callers, Request(c), NEW b \in Breakers
    PROVE  TicketStep(b)
<1>0. /\ TicketsOf(c) /\ Global \in Breakers /\ Arcs \subseteq Breakers /\ Global \notin Arcs
      /\ cell \in [Hosts -> Arcs] /\ host \in [Callers -> Hosts]
      /\ harc \in [Callers -> Arcs] /\ pc \in [Callers -> Stage]
      /\ report \in [Callers -> Report] /\ ticket \in [Callers -> SUBSET Breakers]
      /\ brk \in [Breakers -> Breaker]
  BY NameAssumption DEF Tickets, IInv, TypeOK, Breakers
<1>1. harc[c] \in Breakers /\ cell[host[c]] \in Breakers /\ harc[c] # Global
  BY <1>0
<1>2. ASSUME UNCHANGED brk, Kept(b) PROVE TicketStep(b)
  BY <1>2, SameTickets
<1>3. ASSUME UNCHANGED <<brk, ticket>> PROVE TicketStep(b)
  BY <1>2, <1>3 DEF Kept
<1>4. CASE \E h \in Hosts : Ask(c, h) \/ ArmOpted(c, h)
  BY <1>3, <1>4 DEF Ask, ArmOpted
<1>5. ASSUME NEW h \in Hosts, ArmCheck(c, h) PROVE TicketStep(b)
  <2>1. cell[h] \in Breakers /\ Update(c, cell[h], LazyEvaluate(brk[cell[h]]), {})
    BY <1>0, <1>5 DEF ArmCheck
  <2> QED
    BY <2>1, LookTickets
<1>6. CASE TryGlobal(c)
  <2> DEFINE mine == IF Permit(LazyEvaluate(brk[Global])) = "Probe" THEN {Global} ELSE {}
  <2>1. Update(c, Global, Acquire(LazyEvaluate(brk[Global])), mine)
    BY <1>6 DEF TryGlobal
  <2>2. mine \ {Global} \subseteq ticket[c]
    OBVIOUS
  <2> QED
    BY <1>0, <2>1, <2>2, AskTickets
<1>7. CASE TryHost(c)
  <2> DEFINE mine == ticket[c] \cup
                 (IF Permit(LazyEvaluate(brk[harc[c]])) = "Probe" THEN {harc[c]} ELSE {})
  <2>1. Update(c, harc[c], Acquire(LazyEvaluate(brk[harc[c]])), mine)
    BY <1>7 DEF TryHost
  <2>2. mine \ {harc[c]} \subseteq ticket[c]
    OBVIOUS
  <2>3. harc[c] \notin ticket[c]
    BY <1>0, <1>1, <1>7 DEF TryHost, TicketsOf
  <2>4. harc[c] \in mine => Permit(LazyEvaluate(brk[harc[c]])) = "Probe"
    BY <2>3
  <2> QED
    BY <1>1, <2>1, <2>2, <2>4, AskTickets
<1>8. CASE GiveBack(c) \/ DropGlobal(c)
  <2>1. /\ Update(c, Global, CancelProbe(brk[Global]), ticket[c] \ {Global})
        /\ Settles(c, Global)
    BY <1>8 DEF GiveBack, DropGlobal, Settles
  <2>2. pc'[c] # pc[c]
    BY <1>0, <1>8 DEF GiveBack, DropGlobal, Goto
  <2> QED
    BY <1>0, <2>1, <2>2, SettleTickets DEF Settled
<1>9. CASE RecordGlobal(c)
  <2> DEFINE new == IF report[c].g = "none" THEN CancelProbe(brk[Global])
                    ELSE RecordOutcome(LazyEvaluate(brk[Global]), report[c].g)
  <2>1. Update(c, Global, new, ticket[c] \ {Global}) /\ Settles(c, Global)
    BY <1>9 DEF RecordGlobal, Settles
  <2>2. pc'[c] # pc[c]
    BY <1>0, <1>9 DEF RecordGlobal, Goto
  <2>3. Settled(Global, new)
    <3>1. report[c].g # "none" => report[c].g \in Class
      BY <1>0 DEF Report
    <3> QED
      BY <3>1 DEF Settled
  <2> QED
    BY <1>0, <2>1, <2>2, <2>3, SettleTickets
<1>10. CASE RecordHost(c)
  <2> DEFINE a == cell[host[c]]
             new == RecordOutcome(LazyEvaluate(brk[a]), report[c].h)
  <2>1. Update(c, a, new, ticket[c] \ {a}) /\ Settles(c, a)
    BY <1>10 DEF RecordHost, Settles
  <2>2. pc'[c] # pc[c]
    BY <1>0, <1>10 DEF RecordHost, Goto
  <2>3. Settled(a, new)
    BY <1>0 DEF Settled, Report
  <2> QED
    BY <1>1, <2>1, <2>2, <2>3, SettleTickets
<1>11. CASE Leave(c) /\ UNCHANGED brk
  <2>1. Kept(b)
    BY <1>0, <1>11 DEF Leave, Kept
  <2> QED
    BY <1>2, <1>11, <2>1
<1>12. CASE MakeGuard(c) \/ CancelUnguarded(c) \/ Finish(c) \/ EndAttempt(c) \/ Abort(c)
  BY <1>3, <1>11, <1>12 DEF MakeGuard, CancelUnguarded, Finish, EndAttempt, Abort
<1>13. CASE DropHost(c)
  <2>1. /\ brk' = [brk EXCEPT ![harc[c]] = CancelProbe(brk[harc[c]])]
        /\ ticket' = [ticket EXCEPT ![c] = {}] /\ Settles(c, harc[c])
    BY <1>13 DEF DropHost, Settles
  <2>2. pc'[c] # pc[c] /\ Kept(b) /\ b \notin ticket'[c]
    BY <1>0, <1>13, <2>1 DEF DropHost, Goto, Kept
  <2>3. CASE b # harc[c]
    BY <1>0, <2>1, <2>2, <2>3, SameTickets
  <2>4. CASE b = harc[c]
    <3>1. brk'[b] = CancelProbe(brk[b]) /\ Settles(c, b)
      BY <1>0, <2>1, <2>4
    <3>2. brk'[b].phase = brk[b].phase /\ Debt(brk'[b]) >= Debt(brk[b]) - 1
      BY <1>0, <3>1, SlotKeepsPhase, CancelDebt
    <3>3. brk'[b].phase # "half" => \A d \in Callers : b \notin ticket'[d]
      BY <2>2, <3>2 DEF HalfTickets, Kept
    <3> QED
      BY <2>2, <3>1, <3>2, <3>3 DEF TicketStep
  <2> QED
    BY <2>3, <2>4
<1>14. CASE Leak(c)
  <2> DEFINE a == cell[host[c]]
             mine == IF Permit(LazyEvaluate(brk[a])) = "Probe" THEN {a} ELSE {}
  <2>1. Update(c, a, Acquire(LazyEvaluate(brk[a])), mine)
    BY <1>14 DEF Leak
  <2>2. mine \ {a} \subseteq ticket[c]
    OBVIOUS
  <2>3. a \in mine => Permit(LazyEvaluate(brk[a])) = "Probe"
    OBVIOUS
  <2> QED
    BY <1>1, <2>1, <2>2, <2>3, AskTickets
<1>15. CASE NoLeak(c)
  <2>1. CASE UNCHANGED <<brk, ticket>>
    BY <1>3, <2>1
  <2>2. CASE Update(c, cell[host[c]], LazyEvaluate(brk[cell[host[c]]]), {})
    BY <1>1, <2>2, LookTickets
  <2> QED
    BY <1>15, <2>1, <2>2 DEF NoLeak
<1> QED
  BY <1>4, <1>5, <1>6, <1>7, <1>8, <1>9, <1>10, <1>12, <1>13, <1>14, <1>15 DEF Request

\* Any step.
LEMMA EveryTicketStep ==
    ASSUME IInv, HalfTickets, Tickets, [Next]_vars, NEW b \in Breakers
    PROVE  TicketStep(b)
<1>0. /\ brk \in [Breakers -> Breaker] /\ Arcs \subseteq Breakers
      /\ ticket \in [Callers -> SUBSET Breakers]
  BY DEF IInv, TypeOK, Breakers
<1>1. ASSUME NEW c \in Callers, Request(c) PROVE TicketStep(b)
  BY <1>1, RequestTickets
<1>2. ASSUME NEW x \in Breakers, Observe(x) PROVE TicketStep(b)
  <2> DEFINE l == LazyEvaluate(brk[x])
  <2>1. /\ brk' = [brk EXCEPT ![x] = l] /\ l # brk[x]
        /\ ticket' = [d \in Callers |->
              IF brk[x].phase = "half" THEN ticket[d] \ {x} ELSE ticket[d]]
    BY <1>2 DEF Observe
  <2>2. l.phase = "half" => Debt(l) = Debt(brk[x]) /\ brk[x].phase # "half"
    BY <1>0, <2>1, LazyHalf
  <2> HIDE DEF l
  <2>3. Kept(b)
    BY <2>1 DEF Kept
  <2>4. CASE b # x
    BY <1>0, <2>1, <2>3, <2>4, SameTickets
  <2>5. CASE b = x
    <3>1. brk'[b] = l
      BY <1>0, <2>1, <2>5
    <3>2. l.phase # "half" => \A d \in Callers : b \notin ticket'[d]
      BY <2>1, <2>3, <2>5 DEF HalfTickets, Kept
    <3> QED
      BY <2>2, <2>3, <2>5, <3>1, <3>2 DEF TicketStep
  <2> QED
    BY <2>4, <2>5
<1>3. ASSUME NEW h \in Hosts, Evict(h) PROVE TicketStep(b)
  <2>1. PICK a \in Arcs : /\ brk' = [brk EXCEPT ![a] = Fresh]
                          /\ ticket' = [c \in Callers |-> ticket[c] \ {a}]
    BY <1>3 DEF Evict
  <2>2. CASE b # a
    <3>1. Kept(b) /\ brk'[b] = brk[b]
      BY <1>0, <2>1, <2>2 DEF Kept
    <3> QED
      BY <3>1, SameTickets
  <2>3. CASE b = a
    <3>1. brk'[b].phase = "closed" /\ \A d \in Callers : b \notin ticket'[d]
      BY <1>0, <2>1, <2>3 DEF Fresh
    <3> QED
      BY <3>1 DEF TicketStep
  <2> QED
    BY <2>2, <2>3
<1>4. CASE Tick
  <2>1. Kept(b)
    BY <1>4 DEF Tick, Kept
  <2>2. PICK n : brk'[b] = [brk[b] EXCEPT !.left = n]
    BY <1>4 DEF Tick
  <2>3. /\ brk'[b].phase = brk[b].phase /\ brk'[b].admitted = brk[b].admitted
        /\ brk'[b].succeeded = brk[b].succeeded /\ brk'[b].failed = brk[b].failed
    BY <1>0, <2>2 DEF Breaker
  <2>4. Debt(brk'[b]) = Debt(brk[b])
    BY <2>3 DEF Debt
  <2> QED
    BY <2>1, <2>3, <2>4, SameTickets
<1>5. CASE UNCHANGED vars
  <2>1. Kept(b) /\ brk'[b] = brk[b]
    BY <1>5 DEF vars, Kept
  <2> QED
    BY <2>1, SameTickets
<1> QED
  BY <1>1, <1>2, <1>3, <1>4, <1>5 DEF Next

\* Tickets are of half-open breakers only.
THEOREM TicketsAreHalf == Spec => []HalfTickets
<1>1. Init => HalfTickets
  BY DEF Init, HalfTickets
<1>2. ASSUME IInv, IInv', Ledger, HalfTickets, [Next]_vars PROVE HalfTickets'
  <2>1. ASSUME NEW c \in Callers, NEW b \in ticket'[c] PROVE brk'[b].phase = "half"
    <3>1. b \in Breakers
      BY <1>2 DEF IInv, TypeOK
    <3>2. TicketStep(b)
      BY <1>2, <3>1, EveryTicketStep DEF Ledger
    <3> QED
      BY <3>2 DEF TicketStep
  <2> QED
    BY <2>1 DEF HalfTickets
<1> QED
  BY <1>1, <1>2, Invariance, LedgerKept, PTL DEF Spec

\* The owners stay finitely many.
LEMMA OwnersAfter ==
    ASSUME NEW b, IsFiniteSet(Owners(b)), TicketStep(b)
    PROVE  Cardinality(Owners(b)') \in Nat
<1>1. PICK c : Owners(b)' \subseteq Owners(b) \cup {c}
  <2>1. CASE \E c \in Callers : \A d \in Callers : b \in ticket'[d] => b \in ticket[d] \/ d = c
    BY <2>1 DEF Owners
  <2>2. CASE Kept(b) \/ \A d \in Callers : b \notin ticket'[d]
    BY <2>2 DEF Kept, Owners
  <2> QED
    BY <2>1, <2>2 DEF TicketStep
<1> QED
  BY <1>1, FS_AddElement, FS_Subset, FS_CardinalityType

\* Live and counted probes outgrow the slots taken, and with them the quota, only
\* by a call of a request that holds no slot (record_outcome, cancel_probe).
THEOREM ExcessIsExplained == Spec => ExcessExplained
<1>1. ASSUME IInv, IInv', Ledger, HalfTickets, [Next]_vars PROVE ExcessStep
  <2> SUFFICES ASSUME NEW b \in Breakers, brk'[b].phase = "half",
                      \A c \in Callers : Settles(c, b) /\ pc'[c] # pc[c] => b \in ticket[c]
               PROVE  ~(Excess(b)' > Excess(b))
    BY DEF ExcessStep
  <2>1. TicketStep(b)
    BY <1>1, EveryTicketStep DEF Ledger
  <2>2. /\ IsFiniteSet(Owners(b)) /\ Cardinality(Owners(b)) \in Nat
        /\ Debt(brk[b]) \in Int /\ Debt(brk'[b]) \in Int
    BY <1>1, DebtTyped, FS_CardinalityType DEF Ledger, Accounted, AccountedAt, IInv, TypeOK
  <2>3. Excess(b) = Cardinality(Owners(b)) - Debt(brk[b])
    <3>1. brk[b].admitted \in Nat /\ brk[b].succeeded \in Nat /\ brk[b].failed \in Nat
      BY <1>1 DEF IInv, TypeOK, Breaker
    <3>2. CASE brk[b].phase = "half"
      BY <2>2, <3>1, <3>2 DEF Excess, Debt
    <3>3. CASE brk[b].phase # "half"
      <4>1. Owners(b) = {}
        BY <1>1, <3>3 DEF HalfTickets, Owners
      <4>2. Cardinality(Owners(b)) = 0
        BY <4>1, FS_EmptySet
      <4> QED
        BY <3>3, <4>2 DEF Excess, Debt
    <3> QED
      BY <3>2, <3>3
  <2>4. Excess(b)' = Cardinality(Owners(b)') - Debt(brk'[b])
    <3>1. brk'[b].admitted \in Nat /\ brk'[b].succeeded \in Nat /\ brk'[b].failed \in Nat
      BY <1>1 DEF IInv, TypeOK, Breaker
    <3>2. Cardinality(Owners(b)') \in Nat
      BY <2>1, <2>2, OwnersAfter
    <3> QED
      BY <3>1, <3>2 DEF Excess, Debt
  <2>5. CASE Kept(b) /\ Debt(brk'[b]) = Debt(brk[b])
    <3>1. Owners(b)' \subseteq Owners(b)
      BY <2>5 DEF Kept, Owners
    <3>2. Cardinality(Owners(b)') <= Cardinality(Owners(b)) /\ Cardinality(Owners(b)') \in Nat
      BY <2>2, <3>1, FS_Subset, FS_CardinalityType
    <3> QED
      BY <2>2, <2>3, <2>4, <2>5, <3>2
  <2>6. ASSUME NEW c \in Callers, Debt(brk'[b]) = Debt(brk[b]) + 1,
               \A d \in Callers : b \in ticket'[d] => b \in ticket[d] \/ d = c
        PROVE  ~(Excess(b)' > Excess(b))
    <3>1. Owners(b)' \subseteq Owners(b) \cup {c}
      BY <2>6 DEF Owners
    <3>2. /\ IsFiniteSet(Owners(b) \cup {c})
          /\ Cardinality(Owners(b) \cup {c}) <= Cardinality(Owners(b)) + 1
          /\ Cardinality(Owners(b) \cup {c}) \in Nat
      <4>1. /\ IsFiniteSet(Owners(b) \cup {c})
            /\ \/ Cardinality(Owners(b) \cup {c}) = Cardinality(Owners(b))
               \/ Cardinality(Owners(b) \cup {c}) = Cardinality(Owners(b)) + 1
        <5>1. CASE c \in Owners(b)
          <6>1. Owners(b) \cup {c} = Owners(b)
            BY <5>1
          <6> QED
            BY <2>2, <6>1
        <5>2. CASE c \notin Owners(b)
          BY <2>2, <5>2, FS_AddElement
        <5> QED
          BY <5>1, <5>2
      <4> QED
        BY <2>2, <4>1
    <3>3. /\ Cardinality(Owners(b)') <= Cardinality(Owners(b) \cup {c})
          /\ Cardinality(Owners(b)') \in Nat
      BY <3>1, <3>2, FS_Subset, FS_CardinalityType
    <3> QED
      BY <2>2, <2>3, <2>4, <2>6, <3>2, <3>3
  <2>7. ASSUME NEW c \in Callers, Settles(c, b), pc'[c] # pc[c], Kept(b), b \notin ticket'[c],
               b \in ticket[c] => Debt(brk'[b]) >= Debt(brk[b]) - 1
        PROVE  ~(Excess(b)' > Excess(b))
    <3>1. b \in ticket[c] /\ Debt(brk'[b]) >= Debt(brk[b]) - 1
      BY <2>7
    <3>2. Owners(b)' \subseteq Owners(b) \ {c} /\ c \in Owners(b)
      BY <2>7, <3>1 DEF Kept, Owners
    <3>3. /\ IsFiniteSet(Owners(b) \ {c})
          /\ Cardinality(Owners(b) \ {c}) = Cardinality(Owners(b)) - 1
          /\ Cardinality(Owners(b) \ {c}) \in Nat
      BY <2>2, <3>2, FS_RemoveElement, FS_CardinalityType
    <3>4. /\ Cardinality(Owners(b)') <= Cardinality(Owners(b) \ {c})
          /\ Cardinality(Owners(b)') \in Nat
      BY <3>2, <3>3, FS_Subset, FS_CardinalityType
    <3> QED
      BY <2>2, <2>3, <2>4, <3>1, <3>3, <3>4
  <2> QED
    BY <2>1, <2>5, <2>6, <2>7 DEF TicketStep
<1> QED
  BY <1>1, Invariance, LedgerKept, TicketsAreHalf, PTL DEF Spec, ExcessExplained
=============================================================================
