------------------------- MODULE ExtractJobsProofs -------------------------
(***************************************************************************)
(* Proofs about ExtractJobs, for any number of URLs and any costs.         *)
(***************************************************************************)
EXTENDS ExtractJobs, TLAPS

\* The worker goes through the URLs in order: those behind it have their
\* answer, and while the job is open those ahead have none but their refusal.
Answered ==
    /\ \A i \in Urls : i < at => rec.results[i] # "processing"
    /\ \A i \in refused : rec.results[i] # "processing"
    /\ rec.status \notin Terminal =>
          \A i \in Urls \ refused : i >= at => rec.results[i] = "processing"

\* A URL is cancelled only with its job, and the verdict follows the answers.
Settled ==
    /\ rec.status \notin Terminal => \A i \in Urls : rec.results[i] # "cancelled"
    /\ rec.status \in Terminal =>
          /\ Lifecycle!Final(rec.results)
          /\ rec.status = Lifecycle!Verdict(rec.results)

AtUrl == wpc = "scrape" => at \in Urls \ refused

IInv == TypeOK /\ ClaimMatchesWorker /\ Answered /\ Settled /\ AtUrl

-----------------------------------------------------------------------------
(* The record. *)

\* What the worker may leave behind of a record: it is r itself, or r settled.
Settles(r, s) ==
    /\ s.status = Lifecycle!Verdict(s.results)
    /\ s.status \in Terminal
    /\ Lifecycle!Final(s.results)
    /\ \A i \in Urls : r.results[i] # "processing" => s.results[i] = r.results[i]
    /\ s.claimed = r.claimed

Unsettled(r) == \A i \in Urls : r.results[i] # "cancelled"

\* A job that ran to its end gets the verdict of its answers.
LEMMA CompletionSettles ==
    ASSUME NEW r \in Record, Unsettled(r), Lifecycle!Final(r.results)
    PROVE  /\ CompleteFromOutcomes(r) \in Record
           /\ Settles(r, CompleteFromOutcomes(r))
           /\ CompleteFromOutcomes(r).results = r.results
<1> DEFINE s == CompleteFromOutcomes(r)
<1>1. /\ s \in Record /\ s.results = r.results /\ s.claimed = r.claimed
      /\ s.status = IF \E i \in Urls : r.results[i] = "completed" THEN "completed" ELSE "failed"
  BY DEF CompleteFromOutcomes, Record, Status, Greatest
<1>2. s.status = Lifecycle!Verdict(s.results)
  BY <1>1 DEF Unsettled, Lifecycle!Verdict
<1> QED BY <1>1, <1>2 DEF Settles, Terminal

\* The barrier: a cancelling job that no URL is claimed of is settled.
LEMMA CancellationSettles ==
    ASSUME NEW r \in Record, Unsettled(r), r.status = "cancelling", r.claimed = NoUrl
    PROVE  FinishCancellation(r) \in Record /\ Settles(r, FinishCancellation(r))
<1>1. CASE \E i \in Urls : r.results[i] = "processing"
  <2> DEFINE s == FinishCancellation(r)
  <2>1. s = [r EXCEPT !.status = "cancelled", !.results = Cancelled(r.results)]
    BY <1>1 DEF FinishCancellation
  <2>2. /\ Cancelled(r.results) \in [Urls -> Status \ {"cancelling"}]
        /\ \A i \in Urls : Cancelled(r.results)[i] =
              IF r.results[i] = "processing" THEN "cancelled" ELSE r.results[i]
    BY DEF Cancelled, Record, Status
  <2>3. s \in Record /\ s.status = "cancelled" /\ s.claimed = r.claimed
        /\ s.results = Cancelled(r.results)
    BY <2>1, <2>2 DEF Record, Status
  <2>4. \E i \in Urls : s.results[i] = "cancelled"
    BY <1>1, <2>2, <2>3
  <2>5. s.status = Lifecycle!Verdict(s.results)
    BY <2>3, <2>4 DEF Lifecycle!Verdict
  <2>6. Lifecycle!Final(s.results)
    BY <2>2, <2>3 DEF Lifecycle!Final
  <2> HIDE DEF s
  <2>7. Settles(r, s)
    BY <2>2, <2>3, <2>5, <2>6 DEF Settles, Terminal
  <2> QED BY <2>3, <2>7 DEF s
<1>2. CASE ~ \E i \in Urls : r.results[i] = "processing"
  <2>1. FinishCancellation(r) = CompleteFromOutcomes(r)
    BY <1>2 DEF FinishCancellation
  <2> QED BY <1>2, <2>1, CompletionSettles DEF Lifecycle!Final
<1> QED BY <1>1, <1>2

\* Any other record passes the barrier unchanged.
LEMMA CancellationWaits ==
    ASSUME NEW r, r.status # "cancelling" \/ r.claimed # NoUrl
    PROVE  FinishCancellation(r) = r
BY DEF FinishCancellation

-----------------------------------------------------------------------------
(* The invariant, one action at a time. *)

LEMMA Initially == Init => IInv
<1> SUFFICES ASSUME Init PROVE IInv
  OBVIOUS
<1> DEFINE first == [i \in Urls |-> IF i \in refused THEN "failed" ELSE "processing"]
<1>a. /\ rec.status = "processing" /\ rec.claimed = NoUrl /\ rec.credits = 0
      /\ rec.results = first
      /\ rec = [status |-> "processing", claimed |-> NoUrl, credits |-> 0, results |-> first]
      /\ wpc = "next" /\ refused \in SUBSET Urls
  BY DEF Init
<1>b. first \in [Urls -> {"failed", "processing"}]
  OBVIOUS
<1>c. \A i \in Urls : first[i] = IF i \in refused THEN "failed" ELSE "processing"
  OBVIOUS
<1> HIDE DEF first
<1>d. rec \in Record
  BY <1>a, <1>b, JobAssumption DEF Record, Status, NoUrl
<1>e. present = TRUE /\ at = 1 /\ expired = FALSE /\ cost = [i \in Urls |-> 0]
  BY DEF Init
<1>1. TypeOK
  <2>1. cost \in [Urls -> 0 .. MaxCost] /\ at \in 1 .. N + 1
    BY <1>e, JobAssumption
  <2> QED BY <1>a, <1>d, <1>e, <2>1 DEF TypeOK
<1>2. ClaimMatchesWorker
  BY DEF Init, ClaimMatchesWorker
<1>3. Answered
  BY <1>a, <1>c DEF Init, Answered, Urls
<1>4. Settled /\ AtUrl
  BY <1>a, <1>c DEF Settled, AtUrl, Terminal
<1> QED BY <1>1, <1>2, <1>3, <1>4 DEF IInv

LEMMA SkipKeeps ==
    ASSUME IInv, Skip
    PROVE  IInv'
<1> USE DEF IInv, Skip
<1>1. TypeOK'
  BY JobAssumption DEF TypeOK, Urls
<1>2. Answered'
  <2>1. rec' = rec /\ refused' = refused /\ at' = at + 1 /\ at \in refused /\ at \in Nat
    BY DEF TypeOK
  <2>2. \A i \in Urls : i < at' => i < at \/ i = at
    BY <2>1 DEF Urls
  <2>3. \A i \in Urls : i < at' => rec'.results[i] # "processing"
    BY <2>1, <2>2 DEF Answered
  <2>4. \A i \in Urls : i >= at' => i >= at
    BY <2>1 DEF Urls
  <2> QED BY <2>1, <2>3, <2>4 DEF Answered
<1>3. ClaimMatchesWorker' /\ Settled' /\ AtUrl'
  BY DEF ClaimMatchesWorker, Settled, AtUrl, Lifecycle!Final, Lifecycle!Verdict
<1> QED BY <1>1, <1>2, <1>3

LEMMA ClaimKeeps ==
    ASSUME IInv, Claim
    PROVE  IInv'
<1> USE DEF IInv, Claim
<1>1. CASE present /\ rec.status = "processing"
  <2>1. /\ rec' \in Record /\ rec'.claimed = at
        /\ rec'.status = rec.status /\ rec'.results = rec.results
    BY <1>1, JobAssumption DEF TypeOK, Record, Urls
  <2>2. TypeOK'
    BY <1>1, <2>1 DEF TypeOK
  <2>3. rec.results[at] = "processing"
    BY <1>1, JobAssumption DEF Answered, TypeOK, Terminal, Urls
  <2>4. ClaimMatchesWorker' /\ AtUrl'
    BY <1>1, <2>1, <2>3 DEF ClaimMatchesWorker, AtUrl
  <2>5. Answered' /\ Settled'
    BY <1>1, <2>1 DEF Answered, Settled, Lifecycle!Final, Lifecycle!Verdict
  <2> QED BY <2>2, <2>4, <2>5
<1>2. CASE ~(present /\ rec.status = "processing")
  <2>1. rec' = rec
    BY <1>2, CancellationWaits DEF ClaimMatchesWorker
  <2>2. TypeOK' /\ ClaimMatchesWorker' /\ AtUrl'
    BY <1>2, <2>1 DEF TypeOK, ClaimMatchesWorker, AtUrl
  <2>3. Answered' /\ Settled'
    BY <1>2, <2>1 DEF Answered, Settled, Lifecycle!Final, Lifecycle!Verdict
  <2> QED BY <2>2, <2>3
<1> QED BY <1>1, <1>2

\* Storing an outcome answers the claimed URL and releases the claim.
LEMMA StoredOutcome ==
    ASSUME IInv, present, wpc = "scrape", NEW o \in Outcome
    PROVE  /\ Persisted(rec, o) \in Record
           /\ Persisted(rec, o).status = rec.status
           /\ Persisted(rec, o).claimed = NoUrl
           /\ Persisted(rec, o).results[at] = o.status
           /\ \A i \in Urls \ {at} : Persisted(rec, o).results[i] = rec.results[i]
           /\ Unsettled(Persisted(rec, o))
<1> DEFINE r == Persisted(rec, o)
<1>1. at \in Urls /\ o.status \in {"completed", "failed"} /\ o.cost \in Nat
  BY JobAssumption DEF IInv, AtUrl, Outcome
<1>2. rec.status \in {"processing", "cancelling"}
  BY DEF IInv, ClaimMatchesWorker
<1>a. rec \in Record
  BY DEF IInv, TypeOK
<1>3. /\ r.status = rec.status /\ r.claimed = NoUrl
      /\ r.results = [rec.results EXCEPT ![at] = o.status]
      /\ r \in Record
  <2>1. /\ r = [status |-> rec.status, claimed |-> NoUrl,
                credits |-> rec.credits + o.cost,
                results |-> [rec.results EXCEPT ![at] = o.status]]
    <3>1. r = [rec EXCEPT !.results = [rec.results EXCEPT ![at] = o.status],
                          !.credits = rec.credits + o.cost, !.claimed = NoUrl]
      BY Zenon DEF Persisted
    <3>2. [rec EXCEPT !.results = [rec.results EXCEPT ![at] = o.status],
                      !.credits = rec.credits + o.cost, !.claimed = NoUrl]
             = [status |-> rec.status, claimed |-> NoUrl,
                credits |-> rec.credits + o.cost,
                results |-> [rec.results EXCEPT ![at] = o.status]]
      <4> DEFINE x == [rec.results EXCEPT ![at] = o.status]
                 y == rec.credits + o.cost
      <4> HIDE DEF x, y
      <4>1. [rec EXCEPT !.results = x, !.credits = y, !.claimed = NoUrl]
              = [status |-> rec.status, claimed |-> NoUrl, credits |-> y, results |-> x]
        <5> DEFINE a == [rec EXCEPT !.results = x]
                   b == [a EXCEPT !.credits = y]
        <5>1. a = [status |-> rec.status, claimed |-> rec.claimed,
                   credits |-> rec.credits, results |-> x]
          BY <1>a DEF Record
        <5> HIDE DEF a
        <5>2. b = [status |-> rec.status, claimed |-> rec.claimed,
                   credits |-> y, results |-> x]
          BY <5>1
        <5> HIDE DEF b
        <5>3. [b EXCEPT !.claimed = NoUrl]
                 = [status |-> rec.status, claimed |-> NoUrl, credits |-> y, results |-> x]
          BY <5>2
        <5> QED BY <5>3 DEF a, b
      <4> QED BY <4>1, Zenon DEF x, y
    <3> QED BY <3>1, <3>2, Zenon
  <2>2. [rec.results EXCEPT ![at] = o.status] \in [Urls -> Status \ {"cancelling"}]
    BY <1>1, <1>a DEF Record, Status
  <2>3. rec.credits + o.cost \in Nat /\ NoUrl \in 0 .. N /\ rec.status \in Status
    BY <1>1, <1>a, JobAssumption DEF Record, NoUrl
  <2> HIDE DEF r
  <2> QED BY <2>1, <2>2, <2>3 DEF Record
<1>4. /\ r.results[at] = o.status
      /\ \A i \in Urls \ {at} : r.results[i] = rec.results[i]
  BY <1>1, <1>3 DEF IInv, TypeOK, Record
<1>5. Unsettled(r)
  BY <1>1, <1>2, <1>4 DEF IInv, Settled, Unsettled, Terminal
<1> QED BY <1>3, <1>4, <1>5

LEMMA PersistKeeps ==
    ASSUME IInv, Persist
    PROVE  IInv'
<1>1. CASE ~present \/ rec.status \in Terminal \/ rec.claimed # at
  <2>1. /\ rec' = rec /\ wpc' = "done" /\ UNCHANGED <<present, refused, at, expired, cost>>
    BY <1>1 DEF Persist
  <2>2. ~present
    BY <1>1 DEF IInv, ClaimMatchesWorker, Persist, Terminal
  <2>3. TypeOK' /\ ClaimMatchesWorker' /\ AtUrl'
    BY <2>1, <2>2 DEF IInv, TypeOK, ClaimMatchesWorker, AtUrl
  <2>4. Answered' /\ Settled'
    BY <2>1 DEF IInv, Answered, Settled, Lifecycle!Final, Lifecycle!Verdict
  <2> QED BY <2>3, <2>4 DEF IInv
<1>2. CASE ~(~present \/ rec.status \in Terminal \/ rec.claimed # at)
  <2>1. PICK o \in Outcome :
          /\ rec' = FinishCancellation(Persisted(rec, o))
          /\ cost' = [cost EXCEPT ![at] = o.cost]
          /\ IF rec.status = "cancelling"
             THEN wpc' = "done" /\ UNCHANGED at
             ELSE wpc' = "next" /\ at' = at + 1
    BY <1>2 DEF Persist
  <2>2. UNCHANGED <<present, refused, expired>> /\ present /\ wpc = "scrape"
    BY <1>2 DEF Persist
  <2> DEFINE r == Persisted(rec, o)
  <2>3. /\ r \in Record /\ r.status = rec.status /\ r.claimed = NoUrl
        /\ r.results[at] = o.status
        /\ \A i \in Urls \ {at} : r.results[i] = rec.results[i]
        /\ Unsettled(r)
    BY <2>2, StoredOutcome
  <2>4. at \in Urls \ refused /\ o.status \in {"completed", "failed"}
    BY <2>2 DEF IInv, AtUrl, Outcome
  <2>a. o.cost \in 0 .. MaxCost
    BY JobAssumption DEF Outcome
  <2>5. cost' \in [Urls -> 0 .. MaxCost]
    BY <2>1, <2>a DEF IInv, TypeOK
  <2> HIDE DEF r
  <2>6. CASE rec.status = "cancelling"
    <3>1. rec' \in Record /\ Settles(r, rec')
      BY <2>1, <2>3, <2>6, CancellationSettles DEF r
    <3>2. wpc' = "done" /\ at' = at
      BY <2>1, <2>6
    <3>3. TypeOK' /\ AtUrl'
      BY <2>2, <2>5, <3>1, <3>2 DEF IInv, TypeOK, AtUrl
    <3>4. ClaimMatchesWorker'
      BY <2>3, <3>1, <3>2 DEF ClaimMatchesWorker, Settles, Terminal
    <3>5. Settled'
      BY <3>1 DEF Settled, Settles, Lifecycle!Final, Lifecycle!Verdict
    <3>6. \A i \in Urls : rec'.results[i] # "processing"
      BY <3>1 DEF Settles, Lifecycle!Final
    <3>7. Answered'
      BY <2>2, <3>1, <3>2, <3>6 DEF IInv, TypeOK, Answered, Settles
    <3> QED BY <3>3, <3>4, <3>5, <3>7 DEF IInv
  <2>7. CASE rec.status # "cancelling"
    <3>1. rec' = r /\ wpc' = "next" /\ at' = at + 1 /\ rec.status = "processing"
      BY <2>1, <2>2, <2>3, <2>7, CancellationWaits DEF IInv, ClaimMatchesWorker, r
    <3>2. TypeOK' /\ AtUrl'
      BY <2>2, <2>3, <2>4, <2>5, <3>1, JobAssumption DEF IInv, TypeOK, AtUrl, Urls
    <3>3. ClaimMatchesWorker'
      BY <2>3, <3>1 DEF ClaimMatchesWorker
    <3>4. Settled'
      BY <2>3, <3>1 DEF Settled, Unsettled, Terminal
    <3>5. Answered'
      BY <2>2, <2>3, <2>4, <3>1 DEF IInv, TypeOK, Answered, Terminal, Urls
    <3> QED BY <3>2, <3>3, <3>4, <3>5 DEF IInv
  <2> QED BY <2>6, <2>7
<1> QED BY <1>1, <1>2

\* With every URL answered the job ends as it stands.
LEMMA FinalizeEnds ==
    ASSUME IInv, Finalize, present, rec.status = "processing"
    PROVE  /\ rec' \in Record /\ Settles(rec, rec')
           /\ rec'.results = rec.results
<1>1. rec' = CompleteFromOutcomes(rec)
  BY DEF Finalize, FinishProcessing
<1>2. Lifecycle!Final(rec.results)
  BY JobAssumption DEF IInv, Answered, Finalize, Lifecycle!Final, Urls
<1>3. rec \in Record /\ Unsettled(rec)
  BY DEF IInv, TypeOK, Settled, Unsettled, Terminal
<1> QED BY <1>1, <1>2, <1>3, CompletionSettles

LEMMA FinalizeWaits ==
    ASSUME IInv, Finalize, ~(present /\ rec.status = "processing")
    PROVE  rec' = rec
BY CancellationWaits DEF IInv, ClaimMatchesWorker, Finalize, FinishProcessing

LEMMA FinalizeKeeps ==
    ASSUME IInv, Finalize
    PROVE  IInv'
<1>1. wpc = "next" /\ wpc' = "done" /\ UNCHANGED <<present, refused, at, expired, cost>>
  BY DEF Finalize
<1>2. CASE present /\ rec.status = "processing"
  <2>1. rec' \in Record /\ Settles(rec, rec') /\ rec'.results = rec.results
    BY <1>2, FinalizeEnds
  <2>2. TypeOK' /\ AtUrl'
    BY <1>1, <2>1 DEF IInv, TypeOK, AtUrl
  <2>3. ClaimMatchesWorker'
    BY <1>1, <1>2, <2>1 DEF IInv, ClaimMatchesWorker, Settles, Terminal
  <2>4. Settled'
    BY <2>1 DEF Settled, Settles, Lifecycle!Final, Lifecycle!Verdict
  <2>5. Answered'
    BY <1>1, <2>1 DEF IInv, Answered, Settles
  <2> QED BY <2>2, <2>3, <2>4, <2>5 DEF IInv
<1>3. CASE ~(present /\ rec.status = "processing")
  <2>1. rec' = rec
    BY <1>3, FinalizeWaits
  <2>2. TypeOK' /\ ClaimMatchesWorker' /\ AtUrl'
    BY <1>1, <2>1 DEF IInv, TypeOK, ClaimMatchesWorker, AtUrl
  <2>3. Answered' /\ Settled'
    BY <1>1, <2>1 DEF IInv, Answered, Settled, Lifecycle!Final, Lifecycle!Verdict
  <2> QED BY <2>2, <2>3 DEF IInv
<1> QED BY <1>2, <1>3

LEMMA DeleteKeeps ==
    ASSUME IInv, Delete
    PROVE  IInv'
<1>1. present /\ UNCHANGED <<present, refused, wpc, at, expired, cost>>
  BY DEF Delete
<1>2. CASE rec.status = "processing"
  <2> DEFINE r == [rec EXCEPT !.status = "cancelling"]
  <2>1. /\ rec' = FinishCancellation(r)
        /\ r \in Record /\ r.status = "cancelling"
        /\ r.claimed = rec.claimed /\ r.results = rec.results
    BY <1>2 DEF Delete, IInv, TypeOK, Record, Status
  <2>2. Unsettled(r)
    BY <1>2, <2>1 DEF IInv, Settled, Unsettled, Terminal
  <2> HIDE DEF r
  <2>3. CASE rec.claimed = NoUrl
    <3>1. rec' \in Record /\ Settles(r, rec')
      BY <2>1, <2>2, <2>3, CancellationSettles
    <3>2. wpc # "scrape"
      BY <1>1, <2>3, JobAssumption DEF IInv, ClaimMatchesWorker, TypeOK, NoUrl
    <3>3. TypeOK' /\ AtUrl'
      BY <1>1, <3>1 DEF IInv, TypeOK, AtUrl
    <3>4. ClaimMatchesWorker'
      BY <1>1, <2>1, <2>3, <3>1, <3>2 DEF ClaimMatchesWorker, Settles, Terminal
    <3>5. Settled'
      BY <3>1 DEF Settled, Settles, Lifecycle!Final, Lifecycle!Verdict
    <3>6. Answered'
      BY <1>1, <3>1 DEF IInv, TypeOK, Answered, Settles, Lifecycle!Final
    <3> QED BY <3>3, <3>4, <3>5, <3>6 DEF IInv
  <2>4. CASE rec.claimed # NoUrl
    <3>1. rec' = r
      BY <2>1, <2>4, CancellationWaits
    <3>2. TypeOK' /\ AtUrl'
      BY <1>1, <2>1, <3>1 DEF IInv, TypeOK, AtUrl
    <3>3. ClaimMatchesWorker'
      BY <1>1, <2>1, <2>4, <3>1 DEF IInv, ClaimMatchesWorker
    <3>4. Settled'
      BY <2>1, <2>2, <3>1 DEF Settled, Unsettled, Terminal
    <3>5. Answered'
      BY <1>1, <1>2, <2>1, <3>1 DEF IInv, Answered, Terminal
    <3> QED BY <3>2, <3>3, <3>4, <3>5 DEF IInv
  <2> QED BY <2>3, <2>4
<1>3. CASE rec.status # "processing"
  <2>1. rec' = rec
    <3>1. [rec EXCEPT !.status = IF @ = "processing" THEN "cancelling" ELSE @] = rec
      BY <1>3 DEF IInv, TypeOK, Record
    <3>2. rec.status = "cancelling" => rec.claimed # NoUrl
      BY <1>1, JobAssumption DEF IInv, TypeOK, ClaimMatchesWorker, NoUrl
    <3> QED BY <3>1, <3>2, CancellationWaits DEF Delete
  <2>2. TypeOK' /\ ClaimMatchesWorker' /\ AtUrl'
    BY <1>1, <2>1 DEF IInv, TypeOK, ClaimMatchesWorker, AtUrl
  <2>3. Answered' /\ Settled'
    BY <1>1, <2>1 DEF IInv, Answered, Settled, Lifecycle!Final, Lifecycle!Verdict
  <2> QED BY <2>2, <2>3 DEF IInv
<1> QED BY <1>2, <1>3

\* Removal and the passing of time leave the record alone.
LEMMA RestKeeps ==
    ASSUME IInv, Forget \/ Expire \/ UNCHANGED vars
    PROVE  IInv'
<1>1. /\ UNCHANGED <<rec, refused, wpc, at, cost>>
      /\ present' \in BOOLEAN /\ expired' \in BOOLEAN /\ (present' => present)
  <2>1. CASE Forget
    BY <2>1 DEF Forget, IInv, TypeOK
  <2>2. CASE Expire
    BY <2>2 DEF Expire, IInv, TypeOK
  <2>3. CASE UNCHANGED vars
    BY <2>3 DEF vars, IInv, TypeOK
  <2> QED BY <2>1, <2>2, <2>3
<1>2. TypeOK' /\ ClaimMatchesWorker' /\ AtUrl'
  BY <1>1 DEF IInv, TypeOK, ClaimMatchesWorker, AtUrl
<1>3. Answered' /\ Settled'
  BY <1>1 DEF IInv, Answered, Settled, Lifecycle!Final, Lifecycle!Verdict
<1> QED BY <1>2, <1>3 DEF IInv

LEMMA Preserved == IInv /\ [Next]_vars => IInv'
BY SkipKeeps, ClaimKeeps, PersistKeeps, FinalizeKeeps, DeleteKeeps, RestKeeps
   DEF Next, Worker, LookUpExpired, Prune

\* The inductive invariant holds of every execution.
THEOREM Invariance == Spec => []IInv
BY Initially, Preserved, PTL DEF Spec

\* The record, the worker and the history keep their types.
THEOREM TypeCorrect == Spec => []TypeOK
BY Invariance, PTL DEF IInv

\* claimed_index always agrees with what the worker is doing.
THEOREM ClaimAgrees == Spec => []ClaimMatchesWorker
BY Invariance, PTL DEF IInv

\* The record keeps its types and agrees with the worker's steps (claim,
\* persist, finalize, DELETE).
THEOREM RecordIsSound == Spec => []RecordSound
BY TypeCorrect, ClaimAgrees, PTL DEF RecordSound

-----------------------------------------------------------------------------
(* The job implements JobLifecycle. *)

LEMMA InitLifecycle == Init => Lifecycle!Init
<1> SUFFICES ASSUME Init PROVE Lifecycle!Init
  OBVIOUS
<1> DEFINE first == [i \in Urls |-> IF i \in refused THEN "failed" ELSE "processing"]
<1>1. present = TRUE /\ rec.status = "processing" /\ rec.results = first
  BY DEF Init
<1>2. first \in [Urls -> {"processing", "failed"}]
  OBVIOUS
<1> HIDE DEF first
<1> QED BY <1>1, <1>2 DEF Lifecycle!Init

\* A step that settles an open record is an abstract Answer.
LEMMA SettlingAnswers ==
    ASSUME IInv, present, present', rec.status \in {"processing", "cancelling"},
           NEW r \in Record, rec' \in Record, Settles(r, rec'),
           \A i \in Urls : rec.results[i] # "processing" => r.results[i] = rec.results[i]
    PROVE  Lifecycle!Answer
<1>1. rec'.results \in [Urls -> {"processing", "completed", "failed", "cancelled"}]
  <2>1. Status \ {"cancelling"} = {"processing", "completed", "failed", "cancelled"}
    BY DEF Status
  <2> QED BY <2>1 DEF Record
<1>2. \A i \in Urls : rec.results[i] # "processing" => rec'.results[i] = rec.results[i]
  BY DEF Settles
<1>3. Lifecycle!Active
  BY DEF Lifecycle!Active
<1>4. Lifecycle!Final(rec'.results) /\ rec'.status = Lifecycle!Verdict(rec'.results)
  BY DEF Settles
<1> QED BY <1>1, <1>2, <1>3, <1>4 DEF Lifecycle!Answer

LEMMA PersistRefines ==
    ASSUME IInv, Persist
    PROVE  [Lifecycle!Next]_(Lifecycle!vars)
<1>1. CASE ~present \/ rec.status \in Terminal \/ rec.claimed # at
  BY <1>1 DEF Persist, Lifecycle!vars
<1>2. CASE ~(~present \/ rec.status \in Terminal \/ rec.claimed # at)
  <2>1. PICK o \in Outcome : rec' = FinishCancellation(Persisted(rec, o))
    BY <1>2 DEF Persist
  <2>2. present /\ present' = present /\ wpc = "scrape"
    BY <1>2 DEF Persist
  <2> DEFINE r == Persisted(rec, o)
  <2>3. /\ r \in Record /\ r.status = rec.status /\ r.claimed = NoUrl
        /\ r.results[at] = o.status
        /\ \A i \in Urls \ {at} : r.results[i] = rec.results[i]
        /\ Unsettled(r)
    BY <2>2, StoredOutcome
  <2> HIDE DEF r
  <2>4. rec.results[at] = "processing" /\ rec.status \in {"processing", "cancelling"}
    BY <2>2 DEF IInv, ClaimMatchesWorker
  <2>5. \A i \in Urls : rec.results[i] # "processing" => r.results[i] = rec.results[i]
    BY <2>3, <2>4
  <2>6. CASE rec.status = "cancelling"
    <3>1. rec' \in Record /\ Settles(r, rec')
      BY <2>1, <2>3, <2>6, CancellationSettles DEF r
    <3> QED BY <2>2, <2>3, <2>4, <2>5, <3>1, SettlingAnswers DEF Lifecycle!Next
  <2>7. CASE rec.status # "cancelling"
    <3>1. rec' = r
      BY <2>1, <2>3, <2>7, CancellationWaits DEF r
    <3>2. r.results \in [Urls -> {"processing", "completed", "failed", "cancelled"}]
      <4>1. Status \ {"cancelling"} = {"processing", "completed", "failed", "cancelled"}
        BY DEF Status
      <4> QED BY <2>3, <4>1 DEF Record
    <3>3. Lifecycle!Answer
      BY <2>2, <2>3, <2>4, <2>5, <3>1, <3>2 DEF Lifecycle!Answer, Lifecycle!Active
    <3> QED BY <3>3 DEF Lifecycle!Next
  <2> QED BY <2>6, <2>7
<1> QED BY <1>1, <1>2

LEMMA FinalizeRefines ==
    ASSUME IInv, Finalize
    PROVE  [Lifecycle!Next]_(Lifecycle!vars)
<1>1. present' = present
  BY DEF Finalize
<1>2. CASE present /\ rec.status = "processing"
  <2>1. rec' \in Record /\ Settles(rec, rec') /\ rec \in Record
    BY <1>2, FinalizeEnds DEF IInv, TypeOK
  <2> QED BY <1>1, <1>2, <2>1, SettlingAnswers DEF Lifecycle!Next
<1>3. CASE ~(present /\ rec.status = "processing")
  BY <1>1, <1>3, FinalizeWaits DEF Lifecycle!vars
<1> QED BY <1>2, <1>3

LEMMA DeleteRefines ==
    ASSUME IInv, Delete
    PROVE  [Lifecycle!Next]_(Lifecycle!vars)
<1>1. present /\ present' = present
  BY DEF Delete
<1>2. CASE rec.status = "processing"
  <2> DEFINE r == [rec EXCEPT !.status = "cancelling"]
  <2>1. /\ rec' = FinishCancellation(r)
        /\ r \in Record /\ r.status = "cancelling"
        /\ r.claimed = rec.claimed /\ r.results = rec.results
    BY <1>2 DEF Delete, IInv, TypeOK, Record, Status
  <2>2. Unsettled(r)
    BY <1>2, <2>1 DEF IInv, Settled, Unsettled, Terminal
  <2> HIDE DEF r
  <2>3. CASE rec.claimed = NoUrl
    <3>1. rec' \in Record /\ Settles(r, rec')
      BY <2>1, <2>2, <2>3, CancellationSettles
    <3> QED BY <1>1, <1>2, <2>1, <3>1, SettlingAnswers DEF Lifecycle!Next
  <2>4. CASE rec.claimed # NoUrl
    <3>1. rec' = r
      BY <2>1, <2>4, CancellationWaits
    <3> QED BY <1>1, <1>2, <2>1, <3>1 DEF Lifecycle!Next, Lifecycle!Cancel
  <2> QED BY <2>3, <2>4
<1>3. CASE rec.status # "processing"
  <2>1. [rec EXCEPT !.status = IF @ = "processing" THEN "cancelling" ELSE @] = rec
    BY <1>3 DEF IInv, TypeOK, Record
  <2>2. rec.status = "cancelling" => rec.claimed # NoUrl
    BY <1>1, JobAssumption DEF IInv, TypeOK, ClaimMatchesWorker, NoUrl
  <2>3. rec' = rec
    BY <2>1, <2>2, CancellationWaits DEF Delete
  <2> QED BY <1>1, <2>3 DEF Lifecycle!vars
<1> QED BY <1>2, <1>3

LEMMA ClaimRefines ==
    ASSUME IInv, Claim
    PROVE  [Lifecycle!Next]_(Lifecycle!vars)
<1>1. present' = present
  BY DEF Claim
<1>2. CASE present /\ rec.status = "processing"
  <2>1. rec'.status = rec.status /\ rec'.results = rec.results
    BY <1>2 DEF Claim, IInv, TypeOK, Record
  <2> QED BY <1>1, <2>1 DEF Lifecycle!vars
<1>3. CASE ~(present /\ rec.status = "processing")
  <2>1. rec' = rec
    BY <1>3, CancellationWaits DEF Claim, IInv, ClaimMatchesWorker
  <2> QED BY <1>1, <2>1 DEF Lifecycle!vars
<1> QED BY <1>2, <1>3

LEMMA ForgetRefines ==
    ASSUME IInv, present, Forget
    PROVE  Lifecycle!Next
BY DEF Forget, Lifecycle!Next, Lifecycle!Forget, IInv, TypeOK, Record, Status

LEMMA StepLifecycle == IInv /\ [Next]_vars => [Lifecycle!Next]_(Lifecycle!vars)
<1> SUFFICES ASSUME IInv, [Next]_vars PROVE [Lifecycle!Next]_(Lifecycle!vars)
  OBVIOUS
<1>1. CASE Skip
  BY <1>1 DEF Skip, Lifecycle!vars
<1>2. CASE LookUpExpired \/ Prune
  BY <1>2, ForgetRefines DEF LookUpExpired, Prune
<1>3. CASE Expire
  BY <1>3 DEF Expire, Lifecycle!vars
<1>4. CASE UNCHANGED vars
  BY <1>4 DEF vars, Lifecycle!vars
<1> QED
  BY <1>1, <1>2, <1>3, <1>4, ClaimRefines, PersistRefines, FinalizeRefines, DeleteRefines
     DEF Next, Worker

\* Whatever the worker, the requests and the clean-up do, each URL keeps its
\* answer, the verdict agrees with the answers, and an ended job is not
\* rewritten.
THEOREM LifecycleImplemented == Spec => ImplementsLifecycle
BY Invariance, InitLifecycle, StepLifecycle, PTL DEF Spec, Lifecycle!Spec, ImplementsLifecycle

-----------------------------------------------------------------------------
(* The bill. *)

\* Only a URL that was answered "completed" has cost anything, so the one
\* whose outcome is stored has not been billed yet.
Unbilled == \A i \in Urls : cost[i] # 0 => rec.results[i] = "completed"

Ledger == CreditsExact /\ Unbilled

\* t is the running total of the costs c.
RunningTotal(t, c) ==
    /\ t[0] = 0
    /\ \A i \in Urls : t[i] = t[i - 1] + c[i]

RanToItsEnd(r) == r.status \in {"completed", "failed"}

\* A record whose credits went from the measured sum to that sum with the
\* floor, on its end, keeps its bill.
LEMMA SettledBill ==
    ASSUME NEW r, NEW s, NEW c, r.credits \in Nat, Bill(r, c), ~RanToItsEnd(r),
           s.credits = IF RanToItsEnd(s) THEN Greatest(r.credits, 1) ELSE r.credits
    PROVE  Bill(s, c)
<1>1. PICK t \in [0 .. N -> 0 .. r.credits] :
         RunningTotal(t, c) /\ r.credits = t[N]
  BY DEF Bill, RunningTotal, RanToItsEnd
<1>2. s.credits \in Nat /\ s.credits >= r.credits
  BY DEF Greatest
<1>3. 0 .. r.credits \subseteq 0 .. s.credits
  BY <1>2
<1>4. t \in [0 .. N -> 0 .. s.credits]
  BY <1>3
<1>5. s.credits = IF s.status \in {"completed", "failed"} THEN Greatest(t[N], 1) ELSE t[N]
  BY <1>1 DEF RanToItsEnd
<1> QED BY <1>1, <1>4, <1>5 DEF Bill, RunningTotal

\* Neither the verdict of a job at its end nor the barrier disturbs the bill
\* or an answered URL.
LEMMA CompletionBill ==
    ASSUME NEW r \in Record, NEW c, Bill(r, c), ~RanToItsEnd(r)
    PROVE  /\ Bill(CompleteFromOutcomes(r), c)
           /\ CompleteFromOutcomes(r).results = r.results
<1> DEFINE s == CompleteFromOutcomes(r)
<1>1. /\ s.results = r.results /\ RanToItsEnd(s)
      /\ s.credits = Greatest(r.credits, 1)
  BY DEF CompleteFromOutcomes, Record, RanToItsEnd
<1>2. r.credits \in Nat
  BY DEF Record
<1> HIDE DEF s
<1>3. Bill(s, c)
  BY <1>1, <1>2, SettledBill
<1> QED BY <1>1, <1>3 DEF s

LEMMA CancellationBill ==
    ASSUME NEW r \in Record, NEW c, Bill(r, c)
    PROVE  /\ Bill(FinishCancellation(r), c)
           /\ \A i \in Urls : r.results[i] = "completed"
                 => FinishCancellation(r).results[i] = "completed"
<1>1. CASE r.status # "cancelling" \/ r.claimed # NoUrl
  BY <1>1, CancellationWaits
<1>2. CASE /\ r.status = "cancelling" /\ r.claimed = NoUrl
           /\ \E i \in Urls : r.results[i] = "processing"
  <2> DEFINE s == [r EXCEPT !.status = "cancelled", !.results = Cancelled(r.results)]
  <2>1. FinishCancellation(r) = s
    BY <1>2 DEF FinishCancellation
  <2>2. s.status = "cancelled" /\ s.credits = r.credits /\ s.results = Cancelled(r.results)
    BY DEF Record
  <2>3. r.credits \in Nat /\ ~RanToItsEnd(r)
    BY <1>2 DEF Record, RanToItsEnd
  <2> HIDE DEF s
  <2>4. Bill(s, c)
    BY <2>2, <2>3, SettledBill DEF RanToItsEnd
  <2>5. \A i \in Urls : r.results[i] = "completed" => s.results[i] = "completed"
    BY <2>2 DEF Cancelled
  <2> QED BY <2>1, <2>4, <2>5
<1>3. CASE /\ r.status = "cancelling" /\ r.claimed = NoUrl
           /\ ~ \E i \in Urls : r.results[i] = "processing"
  <2>1. FinishCancellation(r) = CompleteFromOutcomes(r)
    BY <1>3 DEF FinishCancellation
  <2> QED BY <1>3, <2>1, CompletionBill DEF RanToItsEnd
<1> QED BY <1>1, <1>2, <1>3

\* Storing an outcome bills its cost once: from the URL on, every running
\* total grows by it.
LEMMA StoredBill ==
    ASSUME IInv, Ledger, present, wpc = "scrape", NEW o \in Outcome
    PROVE  /\ Bill(Persisted(rec, o), [cost EXCEPT ![at] = o.cost])
           /\ \A i \in Urls : [cost EXCEPT ![at] = o.cost][i] # 0
                 => Persisted(rec, o).results[i] = "completed"
<1> DEFINE r == Persisted(rec, o)
           c == [cost EXCEPT ![at] = o.cost]
<1>1. /\ rec \in Record /\ rec.credits \in Nat /\ cost \in [Urls -> 0 .. MaxCost]
      /\ MaxCost \in Nat /\ N \in Nat \ {0}
  BY JobAssumption DEF IInv, TypeOK, Record
<1>2. at \in Urls /\ rec.results[at] = "processing"
      /\ ~RanToItsEnd(rec)
  BY DEF IInv, AtUrl, ClaimMatchesWorker, RanToItsEnd
<1>3. o.cost \in Nat /\ (o.cost # 0 => o.status = "completed")
  BY <1>1 DEF Outcome
<1>4. cost[at] = 0
  BY <1>2 DEF Ledger, Unbilled
<1>5. c[at] = o.cost /\ \A i \in Urls \ {at} : c[i] = cost[i]
  BY <1>1, <1>2
<1>6. /\ r.status = rec.status /\ r.results[at] = o.status
      /\ \A i \in Urls \ {at} : r.results[i] = rec.results[i]
  BY StoredOutcome
<1>7. r.credits = rec.credits + o.cost
  BY <1>1 DEF Persisted, Record
<1> HIDE DEF r, c
<1>8. PICK t \in [0 .. N -> 0 .. rec.credits] :
         RunningTotal(t, cost) /\ rec.credits = t[N]
  BY <1>2 DEF Ledger, CreditsExact, Bill, RunningTotal, RanToItsEnd
<1> DEFINE u == [i \in 0 .. N |-> IF i < at THEN t[i] ELSE t[i] + o.cost]
<1>9. u \in [0 .. N -> 0 .. r.credits]
  <2>1. ASSUME NEW i \in 0 .. N
        PROVE  (IF i < at THEN t[i] ELSE t[i] + o.cost) \in 0 .. r.credits
    <3>1. t[i] \in 0 .. rec.credits
      OBVIOUS
    <3> QED BY <1>1, <1>3, <1>7, <3>1
  <2> QED BY <2>1
<1>10. RunningTotal(u, c)
  <2>1. u[0] = 0
    BY <1>1, <1>2, <1>8 DEF RunningTotal, Urls
  <2>2. ASSUME NEW i \in Urls PROVE u[i] = u[i - 1] + c[i]
    <3>1. i \in 1 .. N /\ i \in 0 .. N /\ i - 1 \in 0 .. N /\ at \in 1 .. N
      BY <1>1, <1>2 DEF Urls
    <3>2. t[i] = t[i - 1] + cost[i] /\ t[i] \in Nat /\ t[i - 1] \in Nat
      BY <1>8, <3>1 DEF RunningTotal
    <3>3. /\ u[i] = IF i < at THEN t[i] ELSE t[i] + o.cost
          /\ u[i - 1] = IF i - 1 < at THEN t[i - 1] ELSE t[i - 1] + o.cost
      BY <3>1
    <3> HIDE DEF u
    <3>4. CASE i < at
      BY <1>5, <3>1, <3>2, <3>3, <3>4
    <3>5. CASE i = at
      BY <1>3, <1>4, <1>5, <3>1, <3>2, <3>3, <3>5
    <3>6. CASE i > at
      <4>1. c[i] = cost[i]
        BY <1>5, <3>1, <3>6
      <4>2. cost[i] \in Nat
        BY <1>1
      <4> QED BY <1>3, <3>1, <3>2, <3>3, <3>6, <4>1, <4>2
    <3> QED BY <3>1, <3>4, <3>5, <3>6
  <2> QED BY <2>1, <2>2 DEF RunningTotal
<1>11. r.credits = u[N]
  <2>1. N \in 0 .. N /\ ~(N < at)
    BY <1>1, <1>2 DEF Urls
  <2> QED BY <1>7, <1>8, <2>1
<1> HIDE DEF u
<1>12. Bill(r, c)
  BY <1>2, <1>6, <1>9, <1>10, <1>11 DEF Bill, RunningTotal, RanToItsEnd
<1>13. \A i \in Urls : c[i] # 0 => r.results[i] = "completed"
  BY <1>3, <1>5, <1>6 DEF Ledger, Unbilled
<1> QED BY <1>12, <1>13 DEF r, c

LEMMA LedgerInitially == Init => Ledger
<1> SUFFICES ASSUME Init PROVE Ledger
  OBVIOUS
<1>1. rec.credits = 0 /\ rec.status = "processing" /\ cost = [i \in Urls |-> 0]
  BY DEF Init
<1> DEFINE t == [i \in 0 .. N |-> 0]
<1>2. t \in [0 .. N -> 0 .. rec.credits]
  BY <1>1
<1>3. RunningTotal(t, cost) /\ t[N] = 0
  BY <1>1, JobAssumption DEF RunningTotal, Urls
<1> HIDE DEF t
<1>4. Bill(rec, cost)
  BY <1>1, <1>2, <1>3 DEF Bill, RunningTotal
<1> QED BY <1>1, <1>4 DEF Ledger, CreditsExact, Unbilled

\* A step that keeps the costs, what the bill is made of, and the completed
\* answers keeps the ledger.
LEMMA LedgerStays ==
    ASSUME Ledger, cost' = cost, Bill(rec', cost),
           \A i \in Urls : rec.results[i] = "completed" => rec'.results[i] = "completed"
    PROVE  Ledger'
BY DEF Ledger, CreditsExact, Unbilled

LEMMA LedgerPreserved == IInv /\ Ledger /\ [Next]_vars => Ledger'
<1> SUFFICES ASSUME IInv, Ledger, [Next]_vars PROVE Ledger'
  OBVIOUS
<1>1. rec \in Record /\ Bill(rec, cost)
  BY DEF IInv, TypeOK, Ledger, CreditsExact
<1>2. ASSUME rec' = rec, cost' = cost PROVE Ledger'
  BY <1>1, <1>2, LedgerStays
<1>3. CASE Skip \/ LookUpExpired \/ Prune \/ Expire \/ UNCHANGED vars
  BY <1>2, <1>3 DEF Skip, LookUpExpired, Prune, Forget, Expire, vars
<1>4. CASE Claim
  <2>1. CASE present /\ rec.status = "processing"
    <3>1. rec'.credits = rec.credits /\ rec'.status = rec.status /\ rec'.results = rec.results
      BY <1>1, <1>4, <2>1 DEF Claim, Record
    <3>2. Bill(rec', cost)
      BY <1>1, <3>1 DEF Bill
    <3> QED BY <1>4, <3>1, <3>2, LedgerStays DEF Claim
  <2>2. CASE ~(present /\ rec.status = "processing")
    BY <1>1, <1>2, <1>4, <2>2, CancellationBill, LedgerStays DEF Claim
  <2> QED BY <2>1, <2>2
<1>5. CASE Persist
  <2>1. CASE ~present \/ rec.status \in Terminal \/ rec.claimed # at
    BY <1>2, <1>5, <2>1 DEF Persist
  <2>2. CASE ~(~present \/ rec.status \in Terminal \/ rec.claimed # at)
    <3>1. PICK o \in Outcome : /\ rec' = FinishCancellation(Persisted(rec, o))
                               /\ cost' = [cost EXCEPT ![at] = o.cost]
      BY <1>5, <2>2 DEF Persist
    <3>2. present /\ wpc = "scrape"
      BY <1>5, <2>2 DEF Persist
    <3> DEFINE r == Persisted(rec, o)
    <3>3. r \in Record /\ Bill(r, cost')
          /\ \A i \in Urls : cost'[i] # 0 => r.results[i] = "completed"
      BY <3>1, <3>2, StoredOutcome, StoredBill
    <3> HIDE DEF r
    <3>4. /\ Bill(rec', cost')
          /\ \A i \in Urls : r.results[i] = "completed" => rec'.results[i] = "completed"
      BY <3>1, <3>3, CancellationBill DEF r
    <3> QED BY <3>3, <3>4 DEF Ledger, CreditsExact, Unbilled
  <2> QED BY <2>1, <2>2
<1>6. CASE Finalize
  <2>1. CASE present /\ rec.status = "processing"
    <3>1. rec' = CompleteFromOutcomes(rec) /\ cost' = cost /\ ~RanToItsEnd(rec)
      BY <1>6, <2>1 DEF Finalize, FinishProcessing, RanToItsEnd
    <3> QED BY <1>1, <3>1, CompletionBill, LedgerStays
  <2>2. CASE ~(present /\ rec.status = "processing")
    BY <1>2, <1>6, <2>2, FinalizeWaits DEF Finalize
  <2> QED BY <2>1, <2>2
<1>7. CASE Delete
  <2> DEFINE r == [rec EXCEPT !.status = IF @ = "processing" THEN "cancelling" ELSE @]
  <2>1. rec' = FinishCancellation(r) /\ cost' = cost
    BY <1>7 DEF Delete
  <2>2. /\ r \in Record /\ r.results = rec.results /\ r.credits = rec.credits
        /\ r.status = IF rec.status = "processing" THEN "cancelling" ELSE rec.status
    BY <1>1 DEF Record, Status
  <2> HIDE DEF r
  <2>3. Bill(r, cost)
    BY <1>1, <2>2 DEF Bill
  <2> QED BY <2>1, <2>2, <2>3, CancellationBill, LedgerStays
<1> QED BY <1>3, <1>4, <1>5, <1>6, <1>7 DEF Next, Worker

\* However the worker, its cancellation and the expiry interleave, each scrape
\* is billed once, and only a job that ran to its end pays the floor.
THEOREM BillIsExact == Spec => []CreditsExact
BY Invariance, LedgerInitially, LedgerPreserved, Initially, Preserved, PTL
   DEF Spec, Ledger
=============================================================================
