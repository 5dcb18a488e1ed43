---------------------------- MODULE CdpConnProofs ----------------------------
(***************************************************************************)
(* What every connection keeps, for any number of calls: the map holds     *)
(* exactly the calls that wait for an answer, the end of the event loop    *)
(* tells them all but stragglers, and the connection implements CdpCalls.  *)
(*                                                                         *)
(* The invariant has a part for each place a call can be: the queue of the *)
(* mutex (Mutex), the socket and the channels (Carried), and the end of   *)
(* the event loop (Ending).                                                *)
(***************************************************************************)
EXTENDS CdpConn, SequenceTheorems, TLAPS

\* Nobody is in the queue of the mutex twice, and who is in it is writing.
Queued ==
    \A i \in DOMAIN lock :
        \/ lock[i] \in Calls /\ pc[lock[i]] = "write"
        \/ lock[i] = Closer /\ closer = "lock"
Mutex == lock \in Seq(Calls \cup {Closer}) /\ IsInjective(lock) /\ Queued

\* A command is written once, and answered by what the browser did with it.
Carried ==
    \A c \in Calls :
        /\ pc[c] \in {"idle", "checked"} => rx[c] = "empty"
        /\ pc[c] \in {"idle", "checked", "write"} => c \notin wire \cup taken \cup denied
        /\ c \in wire => c \notin taken \cup denied
        /\ rx[c] = "ok" \/ <<c, "ok">> \in back => c \in taken
        /\ rx[c] = "refused" \/ <<c, "refused">> \in back => c \in denied

\* Past the end of the event loop nobody passes the flag any more, and who is
\* in the map is still to be found, was found, or is a straggler.
Ending ==
    loop # "read" =>
        /\ flag
        /\ \A c \in Calls : pc[c] = "checked" => c \in stragglers
        /\ loop = "collect" => pending \subseteq stragglers \cup unread \cup keys
        /\ loop = "drain" => pending \subseteq stragglers \cup keys
        /\ loop \in {"done", "aborted"} => pending \subseteq stragglers

IInv == TypeOK /\ Mutex /\ MapExact /\ Carried /\ Ending

-----------------------------------------------------------------------------
(* The queue of the mutex. *)

\* A task goes to the end of the queue.
LEMMA AppendQueue ==
    ASSUME NEW S, NEW q \in Seq(S), IsInjective(q), NEW t \in S,
           \A i \in DOMAIN q : q[i] # t
    PROVE  /\ Append(q, t) \in Seq(S) /\ IsInjective(Append(q, t))
           /\ \A i \in DOMAIN Append(q, t) :
                  Append(q, t)[i] = t \/ \E j \in DOMAIN q : Append(q, t)[i] = q[j]
BY DEF IsInjective

\* The holder lets go of the mutex.
LEMMA TailQueue ==
    ASSUME NEW S, NEW q \in Seq(S), IsInjective(q), q # <<>>
    PROVE  /\ Tail(q) \in Seq(S) /\ IsInjective(Tail(q))
           /\ \A i \in DOMAIN Tail(q) :
                  Tail(q)[i] # Head(q) /\ \E j \in DOMAIN q : Tail(q)[i] = q[j]
BY DEF IsInjective

\* A task leaves the queue wherever it is.
LEMMA WithoutQueue ==
    ASSUME NEW S, NEW q \in Seq(S), IsInjective(q), NEW t
    PROVE  /\ Without(q, t) \in Seq(S) /\ IsInjective(Without(q, t))
           /\ \A i \in DOMAIN Without(q, t) :
                  Without(q, t)[i] # t /\ \E j \in DOMAIN q : Without(q, t)[i] = q[j]
<1>1. CASE \A i \in DOMAIN q : q[i] # t
  BY <1>1 DEF Without, IsInjective
<1>2. CASE \E i \in DOMAIN q : q[i] = t
  <2> DEFINE k == CHOOSE i \in DOMAIN q : q[i] = t
             a == SubSeq(q, 1, k - 1)
             b == SubSeq(q, k + 1, Len(q))
             p == a \o b
  <2>1. k \in 1 .. Len(q) /\ q[k] = t
    BY <1>2
  <2>2. Without(q, t) = p
    BY <1>2 DEF Without, RemoveAt
  <2> HIDE DEF k
  <2>3. \A i \in 1 .. Len(q) : q[i] \in S
    OBVIOUS
  <2>4. a \in Seq(S) /\ Len(a) = k - 1 /\ \A i \in 1 .. k - 1 : a[i] = q[i]
    BY <2>1, <2>3, SubSeqProperties
  <2>5. /\ b \in Seq(S) /\ Len(b) = Len(q) - k
        /\ \A i \in 1 .. Len(q) - k : b[i] = q[k + i]
    <3> HIDE DEF b
    <3>1. b \in Seq(S) /\ Len(b) = (IF k + 1 <= Len(q) THEN Len(q) - (k + 1) + 1 ELSE 0)
      BY <2>1, <2>3, SubSeqProperties DEF b
    <3>2. \A i \in 1 .. Len(q) - (k + 1) + 1 : b[i] = q[(k + 1) + i - 1]
      BY <2>1, <2>3, SubSeqProperties DEF b
    <3> QED
      BY <2>1, <3>1, <3>2
  <2> HIDE DEF a, b
  <2>6. /\ p \in Seq(S) /\ Len(p) = Len(a) + Len(b)
        /\ \A i \in 1 .. Len(a) + Len(b) : p[i] = IF i <= Len(a) THEN a[i] ELSE b[i - Len(a)]
    BY <2>4, <2>5, ConcatProperties
  <2> HIDE DEF p
  <2>7. \A i \in DOMAIN p :
            IF i < k THEN i \in DOMAIN q /\ p[i] = q[i]
                     ELSE i + 1 \in DOMAIN q /\ p[i] = q[i + 1]
    <3> SUFFICES ASSUME NEW i \in DOMAIN p
                 PROVE  IF i < k THEN i \in DOMAIN q /\ p[i] = q[i]
                                 ELSE i + 1 \in DOMAIN q /\ p[i] = q[i + 1]
      OBVIOUS
    <3>1. i \in 1 .. Len(q) - 1 /\ DOMAIN q = 1 .. Len(q)
      BY <2>1, <2>4, <2>5, <2>6
    <3>2. i \in 1 .. Len(a) + Len(b) /\ Len(a) = k - 1 /\ k \in Int /\ i \in Int
      BY <2>1, <2>4, <2>5, <3>1
    <3>3. p[i] = IF i <= Len(a) THEN a[i] ELSE b[i - Len(a)]
      BY ONLY <2>6, <3>2
    <3>4. CASE i < k
      <4>1. i <= Len(a) /\ i \in 1 .. k - 1
        BY ONLY <3>1, <3>2, <3>4
      <4> QED
        BY <2>4, <3>1, <3>3, <3>4, <4>1
    <3>5. CASE ~(i < k)
      <4>1. ~(i <= Len(a)) /\ i - Len(a) \in 1 .. Len(q) - k /\ k + (i - Len(a)) = i + 1
        BY <2>1, <3>1, <3>2, <3>5
      <4>2. b[i - Len(a)] = q[k + (i - Len(a))]
        BY ONLY <2>5, <4>1
      <4> QED
        BY <2>1, <3>1, <3>3, <3>5, <4>1, <4>2
    <3> QED
      BY <3>4, <3>5
  <2>8. IsInjective(p)
    BY <2>1, <2>6, <2>7 DEF IsInjective
  <2>9. \A i \in DOMAIN p : p[i] # t /\ \E j \in DOMAIN q : p[i] = q[j]
    BY <2>1, <2>6, <2>7 DEF IsInjective
  <2> QED
    BY <2>2, <2>6, <2>8, <2>9
<1> QED
  BY <1>1, <1>2

-----------------------------------------------------------------------------
(* Each part is kept by every step. *)

LEMMA Initially == Init => IInv
<1> SUFFICES ASSUME Init PROVE IInv
  OBVIOUS
<1>1. lock \in Seq(Calls \cup {Closer}) /\ IsInjective(lock) /\ Queued
  BY DEF Init, IsInjective, Queued
<1>2. TypeOK
  BY <1>1 DEF Init, TypeOK, Answers
<1>3. MapExact /\ Carried /\ Ending
  BY DEF Init, MapExact, Waiting, Carried, Ending
<1> QED
  BY <1>1, <1>2, <1>3 DEF IInv, Mutex

LEMMA MutexStep == ASSUME IInv, [Next]_vars PROVE Mutex'
<1> DEFINE Tasks == Calls \cup {Closer}
<1>0. lock \in Seq(Tasks) /\ IsInjective(lock) /\ Queued /\ TypeOK
  BY DEF IInv, Mutex
<1>1. ASSUME NEW c \in Calls, Register(c) PROVE Mutex'
  <2>1. \A i \in DOMAIN lock : lock[i] # c
    BY <1>0, <1>1, CallsAssumption DEF Register, Queued
  <2>2. lock' = Append(lock, c) /\ closer' = closer /\ pc' = [pc EXCEPT ![c] = "write"]
    BY <1>1 DEF Register
  <2>3. /\ lock' \in Seq(Tasks) /\ IsInjective(lock')
        /\ \A i \in DOMAIN lock' : lock'[i] = c \/ \E j \in DOMAIN lock : lock'[i] = lock[j]
    BY <1>0, <2>1, <2>2, AppendQueue
  <2> QED
    BY <1>0, <2>2, <2>3 DEF Mutex, Queued, TypeOK
<1>2. ASSUME NEW c \in Calls, Written(c) \/ WriteFails(c) PROVE Mutex'
  <2>1. /\ lock # <<>> /\ Head(lock) = c /\ lock' = Tail(lock) /\ closer' = closer
        /\ \A d \in Calls \ {c} : pc'[d] = pc[d]
    BY <1>0, <1>2 DEF Written, WriteFails, Leave, Holds, TypeOK
  <2>2. /\ lock' \in Seq(Tasks) /\ IsInjective(lock')
        /\ \A i \in DOMAIN lock' : lock'[i] # c /\ \E j \in DOMAIN lock : lock'[i] = lock[j]
    BY <1>0, <2>1, TailQueue
  <2> QED
    BY <1>0, <2>1, <2>2 DEF Mutex, Queued
<1>3. ASSUME NEW c \in Calls, Cancel(c) PROVE Mutex'
  <2>1. lock' = Without(lock, c) /\ closer' = closer /\ \A d \in Calls \ {c} : pc'[d] = pc[d]
    BY <1>0, <1>3 DEF Cancel, Leave, TypeOK
  <2>2. /\ lock' \in Seq(Tasks) /\ IsInjective(lock')
        /\ \A i \in DOMAIN lock' : lock'[i] # c /\ \E j \in DOMAIN lock : lock'[i] = lock[j]
    BY <1>0, <2>1, WithoutQueue
  <2> QED
    BY <1>0, <2>1, <2>2 DEF Mutex, Queued
<1>4. ASSUME NEW c \in Calls, Check(c) \/ Return(c) \/ Timeout(c) \/ Serve(c) PROVE Mutex'
  <2>1. lock' = lock /\ closer' = closer /\ \A d \in Calls : pc[d] = "write" => pc'[d] = "write"
    BY <1>0, <1>4 DEF Check, Return, Timeout, Serve, Leave, TypeOK
  <2> QED
    BY <1>0, <2>1 DEF Mutex, Queued
<1>5. CASE Close
  <2>1. pc' = pc /\ closer = "idle"
    BY <1>5 DEF Close
  <2>2. CASE flag
    BY <1>0, <1>5, <2>1, <2>2 DEF Close, Mutex, Queued
  <2>3. CASE ~flag
    <3>1. \A i \in DOMAIN lock : lock[i] # Closer
      BY <1>0, <2>1, CallsAssumption DEF Queued
    <3>2. lock' = Append(lock, Closer) /\ closer' = "lock"
      BY <1>5, <2>3 DEF Close
    <3>3. /\ lock' \in Seq(Tasks) /\ IsInjective(lock')
          /\ \A i \in DOMAIN lock' :
                lock'[i] = Closer \/ \E j \in DOMAIN lock : lock'[i] = lock[j]
      BY <1>0, <3>1, <3>2, AppendQueue
    <3> QED
      BY <1>0, <2>1, <3>2, <3>3 DEF Mutex, Queued
  <2> QED
    BY <2>2, <2>3
<1>6. CASE Shut
  <2>1. lock # <<>> /\ Head(lock) = Closer /\ lock' = Tail(lock) /\ pc' = pc
    BY <1>6 DEF Shut, Holds
  <2>2. /\ lock' \in Seq(Tasks) /\ IsInjective(lock')
        /\ \A i \in DOMAIN lock' : lock'[i] # Closer /\ \E j \in DOMAIN lock : lock'[i] = lock[j]
    BY <1>0, <2>1, TailQueue
  <2> QED
    BY <1>0, <2>1, <2>2 DEF Mutex, Queued
<1>7. CASE CloseGivenUp
  <2>1. lock' = Without(lock, Closer) /\ pc' = pc
    BY <1>7 DEF CloseGivenUp
  <2>2. /\ lock' \in Seq(Tasks) /\ IsInjective(lock')
        /\ \A i \in DOMAIN lock' : lock'[i] # Closer /\ \E j \in DOMAIN lock : lock'[i] = lock[j]
    BY <1>0, <2>1, WithoutQueue
  <2> QED
    BY <1>0, <2>1, <2>2 DEF Mutex, Queued
<1>8. CASE EventLoop \/ DropConnection \/ Stall \/ Resume \/ UNCHANGED vars
  <2>1. lock' = lock /\ closer' = closer /\ pc' = pc
    BY <1>8 DEF EventLoop, Dispatch, ReadEnds, Collect, DrainOne, LoopEnds, DropConnection,
                Stall, Resume, vars
  <2> QED
    BY <1>0, <2>1 DEF Mutex, Queued
<1> QED
  BY <1>1, <1>2, <1>3, <1>4, <1>5, <1>6, <1>7, <1>8 DEF Next, Call

LEMMA TypeStep == ASSUME IInv, [Next]_vars PROVE TypeOK'
<1>1. ASSUME NEW c \in Calls, Check(c) PROVE TypeOK'
  BY <1>1 DEF IInv, Check, TypeOK, Answers, drain, browser
<1>2. ASSUME NEW c \in Calls, Register(c) PROVE TypeOK'
  BY <1>2, MutexStep DEF IInv, Mutex, Register, TypeOK, Answers, drain, browser
<1>3. ASSUME NEW c \in Calls, Written(c) PROVE TypeOK'
  BY <1>3, MutexStep DEF IInv, Mutex, Written, Holds, TypeOK, Answers, drain, browser
<1>4. ASSUME NEW c \in Calls, WriteFails(c) PROVE TypeOK'
  BY <1>4, MutexStep DEF IInv, Mutex, WriteFails, Leave, Holds, TypeOK, Answers, drain, browser
<1>5. ASSUME NEW c \in Calls, Return(c) PROVE TypeOK'
  BY <1>5 DEF IInv, Return, Leave, TypeOK, Answers, drain, browser
<1>6. ASSUME NEW c \in Calls, Timeout(c) PROVE TypeOK'
  BY <1>6 DEF IInv, Timeout, Leave, TypeOK, Answers, drain, browser
<1>7. ASSUME NEW c \in Calls, Cancel(c) PROVE TypeOK'
  BY <1>7, MutexStep DEF IInv, Mutex, Cancel, Leave, Waiting, TypeOK, Answers, drain, browser
<1>8. ASSUME NEW c \in Calls, Serve(c) PROVE TypeOK'
  BY <1>8 DEF IInv, Serve, TypeOK, Answers, drain, browser
<1>9. CASE Dispatch
  BY <1>9 DEF IInv, Dispatch, Deliver, TypeOK, Answers, drain, browser
<1>10. CASE ReadEnds
  BY <1>10 DEF IInv, ReadEnds, EarlyCallers, TypeOK, Answers, drain, browser
<1>11. CASE Collect
  BY <1>11 DEF IInv, Collect, TypeOK, Answers, drain, browser
<1>12. CASE DrainOne
  BY <1>12 DEF IInv, DrainOne, Deliver, TypeOK, Answers, drain, browser
<1>13. CASE LoopEnds
  BY <1>13 DEF IInv, LoopEnds, TypeOK, Answers, drain, browser
<1>14. CASE Close
  BY <1>14, MutexStep DEF IInv, Mutex, Close, TypeOK, Answers, drain, browser
<1>15. CASE Shut
  BY <1>15, MutexStep DEF IInv, Mutex, Shut, Holds, TypeOK, Answers, drain, browser
<1>16. CASE CloseGivenUp
  BY <1>16, MutexStep DEF IInv, Mutex, CloseGivenUp, TypeOK, Answers, drain, browser
<1>17. CASE DropConnection
  BY <1>17 DEF IInv, DropConnection, InCall, TypeOK, Answers, drain, browser
<1>18. CASE Stall
  BY <1>18 DEF IInv, Stall, TypeOK, Answers, drain, browser
<1>19. CASE Resume
  BY <1>19 DEF IInv, Resume, TypeOK, Answers, drain, browser
<1>20. CASE UNCHANGED vars
  BY <1>20 DEF IInv, vars, TypeOK, Answers, drain, browser
<1> QED
  BY <1>1, <1>2, <1>3, <1>4, <1>5, <1>6, <1>7, <1>8, <1>9, <1>10, <1>11, <1>12, <1>13, <1>14, <1>15, <1>16, <1>17, <1>18, <1>19, <1>20 DEF Next, Call, EventLoop

LEMMA MapStep == ASSUME IInv, [Next]_vars PROVE MapExact'
<1>1. ASSUME NEW c \in Calls, Check(c) PROVE MapExact'
  BY <1>1 DEF IInv, Check, TypeOK, MapExact, Waiting, Carried, Answers, drain, browser
<1>2. ASSUME NEW c \in Calls, Register(c) PROVE MapExact'
  <2>1. Waiting' = Waiting \cup {c} /\ c \notin Waiting
    BY <1>2 DEF IInv, TypeOK, Register, Waiting
  <2>2. rx[c] = "empty" /\ rx' = rx /\ pending' = pending \cup {c}
    BY <1>2 DEF IInv, Carried, Register
  <2> QED
    BY <2>1, <2>2 DEF IInv, MapExact
<1>3. ASSUME NEW c \in Calls, Written(c) PROVE MapExact'
  BY <1>3 DEF IInv, Written, Holds, TypeOK, MapExact, Waiting, Carried, Answers, drain, browser
<1>4. ASSUME NEW c \in Calls, WriteFails(c) PROVE MapExact'
  BY <1>4 DEF IInv, WriteFails, Leave, Holds, TypeOK, MapExact, Waiting, Carried, Answers, drain, browser
<1>5. ASSUME NEW c \in Calls, Return(c) PROVE MapExact'
  BY <1>5 DEF IInv, Return, Leave, TypeOK, MapExact, Waiting, Carried, Answers, drain, browser
<1>6. ASSUME NEW c \in Calls, Timeout(c) PROVE MapExact'
  BY <1>6 DEF IInv, Timeout, Leave, TypeOK, MapExact, Waiting, Carried, Answers, drain, browser
<1>7. ASSUME NEW c \in Calls, Cancel(c) PROVE MapExact'
  BY <1>7 DEF IInv, Cancel, Leave, Waiting, TypeOK, MapExact, Carried, Answers, drain, browser
<1>8. ASSUME NEW c \in Calls, Serve(c) PROVE MapExact'
  BY <1>8 DEF IInv, Serve, TypeOK, MapExact, Waiting, Carried, Answers, drain, browser
<1>9. CASE Dispatch
  BY <1>9 DEF IInv, Dispatch, Deliver, TypeOK, MapExact, Waiting, Carried, Answers, drain, browser
<1>10. CASE ReadEnds
  BY <1>10 DEF IInv, ReadEnds, EarlyCallers, TypeOK, MapExact, Waiting, Carried, Answers, drain, browser
<1>11. CASE Collect
  BY <1>11 DEF IInv, Collect, TypeOK, MapExact, Waiting, Carried, Answers, drain, browser
<1>12. CASE DrainOne
  BY <1>12 DEF IInv, DrainOne, Deliver, TypeOK, MapExact, Waiting, Carried, Answers, drain, browser
<1>13. CASE LoopEnds
  BY <1>13 DEF IInv, LoopEnds, TypeOK, MapExact, Waiting, Carried, Answers, drain, browser
<1>14. CASE Close
  BY <1>14 DEF IInv, Close, TypeOK, MapExact, Waiting, Carried, Answers, drain, browser
<1>15. CASE Shut
  BY <1>15 DEF IInv, Shut, Holds, TypeOK, MapExact, Waiting, Carried, Answers, drain, browser
<1>16. CASE CloseGivenUp
  BY <1>16 DEF IInv, CloseGivenUp, TypeOK, MapExact, Waiting, Carried, Answers, drain, browser
<1>17. CASE DropConnection
  BY <1>17 DEF IInv, DropConnection, InCall, TypeOK, MapExact, Waiting, Carried, Answers, drain, browser
<1>18. CASE Stall
  BY <1>18 DEF IInv, Stall, TypeOK, MapExact, Waiting, Carried, Answers, drain, browser
<1>19. CASE Resume
  BY <1>19 DEF IInv, Resume, TypeOK, MapExact, Waiting, Carried, Answers, drain, browser
<1>20. CASE UNCHANGED vars
  BY <1>20 DEF IInv, vars, TypeOK, MapExact, Waiting, Carried, Answers, drain, browser
<1> QED
  BY <1>1, <1>2, <1>3, <1>4, <1>5, <1>6, <1>7, <1>8, <1>9, <1>10, <1>11, <1>12, <1>13, <1>14, <1>15, <1>16, <1>17, <1>18, <1>19, <1>20 DEF Next, Call, EventLoop

LEMMA CarriedStep == ASSUME IInv, [Next]_vars PROVE Carried'
<1>1. ASSUME NEW c \in Calls, Check(c) PROVE Carried'
  BY <1>1 DEF IInv, Check, TypeOK, Carried, Answers, drain, browser
<1>2. ASSUME NEW c \in Calls, Register(c) PROVE Carried'
  BY <1>2 DEF IInv, Register, TypeOK, Carried, Answers, drain, browser
<1>3. ASSUME NEW c \in Calls, Written(c) PROVE Carried'
  BY <1>3 DEF IInv, Written, Holds, TypeOK, Carried, Answers, drain, browser
<1>4. ASSUME NEW c \in Calls, WriteFails(c) PROVE Carried'
  BY <1>4 DEF IInv, WriteFails, Leave, Holds, TypeOK, Carried, Answers, drain, browser
<1>5. ASSUME NEW c \in Calls, Return(c) PROVE Carried'
  BY <1>5 DEF IInv, Return, Leave, TypeOK, Carried, Answers, drain, browser
<1>6. ASSUME NEW c \in Calls, Timeout(c) PROVE Carried'
  BY <1>6 DEF IInv, Timeout, Leave, TypeOK, Carried, Answers, drain, browser
<1>7. ASSUME NEW c \in Calls, Cancel(c) PROVE Carried'
  <2> SUFFICES ASSUME NEW d \in Calls
               PROVE  /\ pc'[d] \in {"idle", "checked", "write"} =>
                            pc[d] = pc'[d] /\ (d \in wire' => d \in wire)
                      /\ d \in wire' => d \in wire \/ pc[d] = "write"
    BY <1>7 DEF IInv, Carried, Cancel, drain, browser
  <2>1. pc[c] \in {"write", "reply"}
    BY <1>7 DEF Cancel, Waiting
  <2>2. pc' = [pc EXCEPT ![c] = "dropped"]
    BY <1>7 DEF Cancel, Leave
  <2>3. wire' = wire \/ (pc[c] = "write" /\ wire' = wire \cup {c})
    <3>1. CASE Holds(c)
      <4>1. lock[1] = c /\ 1 \in DOMAIN lock
        BY <3>1 DEF IInv, TypeOK, Holds
      <4> QED
        BY <1>7, <4>1, CallsAssumption DEF IInv, Mutex, Queued, Cancel
    <3> QED
      BY <1>7, <3>1 DEF Cancel
  <2> QED
    BY <2>1, <2>2, <2>3 DEF IInv, TypeOK
<1>8. ASSUME NEW c \in Calls, Serve(c) PROVE Carried'
  <2>1. c \in wire /\ wire' = wire \ {c} /\ pc' = pc /\ rx' = rx
    BY <1>8 DEF Serve
  <2>2. CASE taken' = taken \cup {c} /\ back' = back \cup {<<c, "ok">>} /\ denied' = denied
    BY <2>1, <2>2 DEF IInv, Carried
  <2>3. CASE denied' = denied \cup {c} /\ back' = back \cup {<<c, "refused">>} /\ taken' = taken
    BY <2>1, <2>3 DEF IInv, Carried
  <2> QED
    BY <1>8, <2>2, <2>3 DEF Serve
<1>9. CASE Dispatch
  <2>1. PICK answer \in back : Deliver(answer[1], answer[2]) /\ back' = back \ {answer}
    BY <1>9 DEF Dispatch
  <2>2. PICK c \in Calls, v \in Answers : answer = <<c, v>>
    BY DEF IInv, TypeOK
  <2>3. rx' = IF c \in pending THEN [rx EXCEPT ![c] = v] ELSE rx
    BY <2>1, <2>2 DEF Deliver
  <2>4. UNCHANGED <<pc, wire, taken, denied>>
    BY <1>9 DEF Dispatch
  <2>5. c \in pending => pc[c] = "write" \/ pc[c] = "reply"
    BY DEF IInv, MapExact, Waiting
  <2>6. \A d \in Calls : rx'[d] = rx[d] \/ (d = c /\ rx'[d] = v /\ c \in pending)
    BY <2>3 DEF IInv, TypeOK
  <2> QED
    BY <2>1, <2>2, <2>4, <2>5, <2>6 DEF IInv, Carried, Answers
<1>10. CASE ReadEnds
  BY <1>10 DEF IInv, ReadEnds, EarlyCallers, TypeOK, Carried, Answers, drain, browser
<1>11. CASE Collect
  BY <1>11 DEF IInv, Collect, TypeOK, Carried, Answers, drain, browser
<1>12. CASE DrainOne
  <2>1. PICK c \in keys : Deliver(c, "closed")
    BY <1>12 DEF DrainOne
  <2>2. \A d \in Calls : rx'[d] = rx[d] \/ (d \in pending /\ rx'[d] = "closed")
    BY <2>1 DEF Deliver, IInv, TypeOK
  <2>3. \A d \in pending : pc[d] = "write" \/ pc[d] = "reply"
    BY DEF IInv, MapExact, Waiting
  <2>4. UNCHANGED <<pc, wire, back, taken, denied>>
    BY <1>12 DEF DrainOne, browser
  <2> QED
    BY <2>2, <2>3, <2>4 DEF IInv, Carried
<1>13. CASE LoopEnds
  BY <1>13 DEF IInv, LoopEnds, TypeOK, Carried, Answers, drain, browser
<1>14. CASE Close
  BY <1>14 DEF IInv, Close, TypeOK, Carried, Answers, drain, browser
<1>15. CASE Shut
  BY <1>15 DEF IInv, Shut, Holds, TypeOK, Carried, Answers, drain, browser
<1>16. CASE CloseGivenUp
  BY <1>16 DEF IInv, CloseGivenUp, TypeOK, Carried, Answers, drain, browser
<1>17. CASE DropConnection
  <2>1. pending = {}
    BY <1>17 DEF DropConnection, InCall, IInv, MapExact, Waiting
  <2>2. rx' = rx /\ UNCHANGED <<pc, wire, back, taken, denied>>
    BY <1>17, <2>1 DEF DropConnection, browser, IInv, TypeOK
  <2> QED
    BY <2>2 DEF IInv, Carried
<1>18. CASE Stall
  BY <1>18 DEF IInv, Stall, TypeOK, Carried, Answers, drain, browser
<1>19. CASE Resume
  BY <1>19 DEF IInv, Resume, TypeOK, Carried, Answers, drain, browser
<1>20. CASE UNCHANGED vars
  BY <1>20 DEF IInv, vars, TypeOK, Carried, Answers, drain, browser
<1> QED
  BY <1>1, <1>2, <1>3, <1>4, <1>5, <1>6, <1>7, <1>8, <1>9, <1>10, <1>11, <1>12, <1>13, <1>14, <1>15, <1>16, <1>17, <1>18, <1>19, <1>20 DEF Next, Call, EventLoop

LEMMA EndingStep == ASSUME IInv, [Next]_vars PROVE Ending'
<1>1. ASSUME NEW c \in Calls, Check(c) PROVE Ending'
  BY <1>1 DEF IInv, Check, TypeOK, Ending, drain, browser
<1>2. ASSUME NEW c \in Calls, Register(c) PROVE Ending'
  BY <1>2 DEF IInv, Register, TypeOK, Ending, drain, browser
<1>3. ASSUME NEW c \in Calls, Written(c) PROVE Ending'
  BY <1>3 DEF IInv, Written, Holds, TypeOK, Ending, drain, browser
<1>4. ASSUME NEW c \in Calls, WriteFails(c) PROVE Ending'
  BY <1>4 DEF IInv, WriteFails, Leave, Holds, TypeOK, Ending, drain, browser
<1>5. ASSUME NEW c \in Calls, Return(c) PROVE Ending'
  <2>1. \A d \in Calls : pc'[d] = "checked" => pc[d] = "checked"
    BY <1>5 DEF IInv, TypeOK, Answers, Return, Leave
  <2> QED
    BY <1>5, <2>1 DEF IInv, Ending, Return, Leave, drain
<1>6. ASSUME NEW c \in Calls, Timeout(c) PROVE Ending'
  BY <1>6 DEF IInv, Timeout, Leave, TypeOK, Ending, drain, browser
<1>7. ASSUME NEW c \in Calls, Cancel(c) PROVE Ending'
  BY <1>7 DEF IInv, Cancel, Leave, Waiting, TypeOK, Ending, drain, browser
<1>8. ASSUME NEW c \in Calls, Serve(c) PROVE Ending'
  BY <1>8 DEF IInv, Serve, TypeOK, Ending, drain, browser
<1>9. CASE Dispatch
  BY <1>9 DEF IInv, Dispatch, Deliver, TypeOK, Ending, drain, browser
<1>10. CASE ReadEnds
  BY <1>10 DEF IInv, ReadEnds, EarlyCallers, TypeOK, Ending, drain, browser
<1>11. CASE Collect
  BY <1>11 DEF IInv, Collect, TypeOK, Ending, drain, browser
<1>12. CASE DrainOne
  BY <1>12 DEF IInv, DrainOne, Deliver, TypeOK, Ending, drain, browser
<1>13. CASE LoopEnds
  BY <1>13 DEF IInv, LoopEnds, TypeOK, Ending, drain, browser
<1>14. CASE Close
  BY <1>14 DEF IInv, Close, TypeOK, Ending, drain, browser
<1>15. CASE Shut
  BY <1>15 DEF IInv, Shut, Holds, TypeOK, Ending, drain, browser
<1>16. CASE CloseGivenUp
  BY <1>16 DEF IInv, CloseGivenUp, TypeOK, Ending, drain, browser
<1>17. CASE DropConnection
  BY <1>17 DEF IInv, DropConnection, InCall, TypeOK, Ending, drain, browser
<1>18. CASE Stall
  BY <1>18 DEF IInv, Stall, TypeOK, Ending, drain, browser
<1>19. CASE Resume
  BY <1>19 DEF IInv, Resume, TypeOK, Ending, drain, browser
<1>20. CASE UNCHANGED vars
  BY <1>20 DEF IInv, vars, TypeOK, Ending, drain, browser
<1> QED
  BY <1>1, <1>2, <1>3, <1>4, <1>5, <1>6, <1>7, <1>8, <1>9, <1>10, <1>11, <1>12, <1>13, <1>14, <1>15, <1>16, <1>17, <1>18, <1>19, <1>20 DEF Next, Call, EventLoop

-----------------------------------------------------------------------------
(* What follows. *)

\* The inductive invariant.
THEOREM Invariance == Spec => []IInv
<1>1. IInv /\ [Next]_vars => IInv'
  BY TypeStep, MutexStep, MapStep, CarriedStep, EndingStep DEF IInv
<1> QED
  BY <1>1, Initially, PTL DEF Spec

\* The map holds exactly the calls without an answer (send_recv, its
\* PendingCleanup, dispatch, the drain and Drop).
THEOREM MapIsExact == Spec => []WaitersSound
<1>1. IInv => WaitersSound
  BY DEF IInv, WaitersSound
<1> QED
  BY <1>1, Invariance, PTL

\* The end of the event loop tells all who were registered before it.
THEOREM OthersAreTold == Spec => []OthersTold
<1>1. IInv => OthersTold
  BY DEF IInv, Ending, OthersTold
<1> QED
  BY <1>1, Invariance, PTL
-----------------------------------------------------------------------------
(* The connection implements CdpCalls. *)

abstract == [c \in Calls |-> State(c)]

\* A step that moves one call moves it alone.
LEMMA OneMoves ==
    ASSUME TypeOK, NEW c \in Calls, NEW to, pc' = [pc EXCEPT ![c] = to]
    PROVE  abstract' = [abstract EXCEPT ![c] =
                           IF to \in {"checked", "write", "reply"} THEN "open" ELSE to]
BY DEF TypeOK, abstract, State

LEMMA NoneMoves == ASSUME pc' = pc PROVE abstract' = abstract
BY DEF abstract, State

LEMMA StepRefines ==
    ASSUME IInv, [Next]_vars PROVE [Promise!Next]_(Promise!callVars)
<1>0. TypeOK
  BY DEF IInv
<1>1. ASSUME NEW c \in Calls, Check(c) PROVE Promise!Begin(c) \/ Promise!Fail(c)
  <2>1. UNCHANGED <<taken, denied>> /\ pc[c] = "idle"
    BY <1>1 DEF Check, browser
  <2>2. abstract[c] = "idle"
    BY <2>1 DEF abstract, State
  <2>3. CASE flag
    <3>1. pc' = [pc EXCEPT ![c] = "failed"]
      BY <1>1, <2>3 DEF Check
    <3>2. abstract' = [abstract EXCEPT ![c] = "failed"]
      BY <1>0, <3>1, OneMoves
    <3> QED
      BY <2>1, <2>2, <3>2 DEF Promise!Fail, abstract
  <2>4. CASE ~flag
    <3>1. pc' = [pc EXCEPT ![c] = "checked"]
      BY <1>1, <2>4 DEF Check
    <3>2. abstract' = [abstract EXCEPT ![c] = "open"]
      BY <1>0, <3>1, OneMoves
    <3> QED
      BY <2>1, <2>2, <3>2 DEF Promise!Begin, abstract
  <2> QED
    BY <2>3, <2>4
<1>2. ASSUME NEW c \in Calls, Register(c) \/ Written(c) PROVE UNCHANGED Promise!callVars
  <2>1. /\ UNCHANGED <<taken, denied>> /\ pc[c] \in {"checked", "write"}
        /\ \E to \in {"write", "reply"} : pc' = [pc EXCEPT ![c] = to]
    BY <1>2 DEF Register, Written, browser
  <2>2. abstract[c] = "open"
    BY <2>1 DEF abstract, State
  <2>3. abstract' = [abstract EXCEPT ![c] = "open"]
    BY <1>0, <2>1, OneMoves
  <2>4. abstract' = abstract
    BY <2>2, <2>3 DEF abstract
  <2> QED
    BY <2>1, <2>4 DEF Promise!callVars, abstract
<1>3. ASSUME NEW c \in Calls, WriteFails(c) \/ Timeout(c) PROVE Promise!Fail(c)
  <2>1. /\ UNCHANGED <<taken, denied>> /\ pc[c] \in {"write", "reply"}
        /\ pc' = [pc EXCEPT ![c] = "failed"]
    BY <1>3 DEF WriteFails, Timeout, Leave, browser
  <2>2. abstract[c] = "open"
    BY <2>1 DEF abstract, State
  <2>3. abstract' = [abstract EXCEPT ![c] = "failed"]
    BY <1>0, <2>1, OneMoves
  <2> QED
    BY <2>1, <2>2, <2>3 DEF Promise!Fail, abstract
<1>4. ASSUME NEW c \in Calls, Return(c) PROVE Promise!Fail(c) \/ Promise!Answer(c)
  <2>1. /\ UNCHANGED <<taken, denied>> /\ pc[c] = "reply"
        /\ pc' = [pc EXCEPT ![c] = IF rx[c] = "closed" THEN "failed" ELSE rx[c]]
    BY <1>4 DEF Return, Leave, browser
  <2>2. abstract[c] = "open"
    BY <2>1 DEF abstract, State
  <2>3. rx[c] \in {"closed", "ok", "refused"}
    BY <1>0, <1>4 DEF TypeOK, Answers, Return
  <2>4. CASE rx[c] = "closed"
    <3>1. abstract' = [abstract EXCEPT ![c] = "failed"]
      BY <1>0, <2>1, <2>4, OneMoves
    <3> QED
      BY <2>1, <2>2, <3>1 DEF Promise!Fail, abstract
  <2>5. CASE rx[c] = "ok"
    <3>1. abstract' = [abstract EXCEPT ![c] = "ok"]
      BY <1>0, <2>1, <2>5, OneMoves
    <3>2. c \in taken
      BY <2>5 DEF IInv, Carried
    <3> QED
      BY <2>1, <2>2, <3>1, <3>2 DEF Promise!Answer, abstract
  <2>6. CASE rx[c] = "refused"
    <3>1. abstract' = [abstract EXCEPT ![c] = "refused"]
      BY <1>0, <2>1, <2>6, OneMoves
    <3>2. c \in denied
      BY <2>6 DEF IInv, Carried
    <3> QED
      BY <2>1, <2>2, <3>1, <3>2 DEF Promise!Answer, abstract
  <2> QED
    BY <2>3, <2>4, <2>5, <2>6
<1>5. ASSUME NEW c \in Calls, Cancel(c) PROVE Promise!Drop(c)
  <2>1. /\ UNCHANGED <<taken, denied>> /\ pc[c] \in {"write", "reply"}
        /\ pc' = [pc EXCEPT ![c] = "dropped"]
    BY <1>5 DEF Cancel, Leave, Waiting
  <2>2. abstract[c] = "open"
    BY <2>1 DEF abstract, State
  <2>3. abstract' = [abstract EXCEPT ![c] = "dropped"]
    BY <1>0, <2>1, OneMoves
  <2> QED
    BY <2>1, <2>2, <2>3 DEF Promise!Drop, abstract
<1>6. ASSUME NEW c \in Calls, Serve(c) PROVE Promise!Take(c)
  <2>1. c \in wire /\ pc' = pc
    BY <1>6 DEF Serve
  <2>2. pc[c] # "idle" /\ c \notin taken \cup denied
    BY <2>1 DEF IInv, Carried
  <2>3. abstract' = abstract /\ abstract[c] # "idle"
    BY <2>1, <2>2, NoneMoves DEF abstract, State
  <2>4. \/ taken' = taken \cup {c} /\ UNCHANGED denied
        \/ denied' = denied \cup {c} /\ UNCHANGED taken
    BY <1>6 DEF Serve
  <2> QED
    BY <2>2, <2>3, <2>4 DEF Promise!Take, abstract
<1>7. ASSUME \/ EventLoop \/ Close \/ Shut \/ CloseGivenUp \/ DropConnection
             \/ Stall \/ Resume \/ UNCHANGED vars
      PROVE  UNCHANGED Promise!callVars
  <2>1. UNCHANGED <<pc, taken, denied>>
    BY <1>7 DEF EventLoop, Dispatch, ReadEnds, Collect, DrainOne, LoopEnds, Close, Shut,
                CloseGivenUp, DropConnection, Stall, Resume, vars, browser
  <2> QED
    BY <2>1, NoneMoves DEF Promise!callVars, abstract
<1> QED
  BY <1>1, <1>2, <1>3, <1>4, <1>5, <1>6, <1>7 DEF Next, Call, Promise!Next

\* Each command reaches the browser at most once and its caller gets the
\* browser's answer to it or an error (send_recv, dispatch): CdpCalls.
THEOREM CallsImplemented == Spec => ImplementsCalls
<1>1. Init => Promise!Init
  BY DEF Init, Promise!Init, State
<1> QED
  BY <1>1, StepRefines, Invariance, PTL DEF Spec, ImplementsCalls, Promise!Spec
=============================================================================
