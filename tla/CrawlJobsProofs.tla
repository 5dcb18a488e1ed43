-------------------------- MODULE CrawlJobsProofs --------------------------
(***************************************************************************)
(* What a crawl or batch job guarantees for any site, any limits and any   *)
(* moment at which it is deleted: its books balance, it stays within what  *)
(* was asked, and what a poll shows can be relied on.                      *)
(*                                                                         *)
(* The invariant says what the counters count in every state of the task   *)
(* (Counted), who is in the queue and in hand while the loop runs (Lined), *)
(* how deep and how many (Bounded), and what the channel may show          *)
(* (Shown).  A verdict stays because the task that sent it has ended, and  *)
(* a batch has no scrape left under way (Shown).                           *)
(***************************************************************************)
EXTENDS CrawlJobs, FiniteSetTheorems, SequenceTheorems, TLAPS

Crawling == job.kind = "crawl"

\* A job is at a place of its own loop.
Placed ==
    pc \in Over \cup {"queued"}
           \cup (IF Crawling THEN {"setup", "loop", "fetch", "extract", "llm", "finish"}
                 ELSE {"stream"})

\* What was found is what has a fate; the counters count the pages answered.
Counted ==
    Crawling =>
        /\ visited = Pages \ With({"new"})
        /\ results = Cardinality(With({"read", "refused"}))
        /\ blocked = Cardinality(With({"refused"}))
        /\ pc \in {"queued", "setup"} => visited = {} /\ queue = <<>>

\* While the loop runs, the queue holds each waiting page once, and the page in
\* hand is the only one.
Lined ==
    Crawling /\ pc \notin {"finish"} \cup Over =>
        /\ \A i, j \in DOMAIN queue : queue[i].page = queue[j].page => i = j
        /\ \A i \in DOMAIN queue : fate[queue[i].page] = "waiting"
        /\ \A p \in With({"waiting"}) : \E i \in DOMAIN queue : queue[i].page = p
        /\ \A p \in Pages : fate[p] = "in hand" <=> InHand /\ p = cur.page

\* Counts and depths.
Bounded ==
    Crawling =>
        /\ Cardinality(visited) <= job.limit \/ visited \subseteq {Seed}
        /\ results <= job.limit /\ (InHand => results < job.limit)
        /\ pc = "finish" => Full
        /\ \A i \in DOMAIN queue : queue[i].depth <= job.deep
        /\ \A i, j \in DOMAIN queue :
              queue[i].depth <= queue[j].depth + 1 /\ (i <= j => queue[i].depth <= queue[j].depth)
        /\ InHand => \A i \in DOMAIN queue :
                        cur.depth <= queue[i].depth /\ queue[i].depth <= cur.depth + 1

\* What the channel shows, against what the task has done.
Shown ==
    /\ w.blocked <= w.completed /\ w.completed <= w.total
    /\ w.status = "Completed" => w.docs = w.completed
    /\ Crawling /\ w.status \in {"Completed", "Failed"} => pc = "ended"
    /\ Crawling /\ w.status = "Completed" =>
          w.completed >= job.limit \/ With({"waiting", "in hand"}) = {}
    /\ ~Crawling =>
          /\ w.docs = w.completed /\ w.total = job.urls /\ w.status # "Failed"
          /\ w.status = "Completed" => w.completed = job.urls
          /\ present => w.completed + (todo + active) = job.urls

IInv == TypeOK /\ Placed /\ Counted /\ Lined /\ Bounded /\ Shown
-----------------------------------------------------------------------------
(* Sets of pages, and the queue. *)

\* The pages are finitely many, and so is any set of them.
LEMMA PagesFinite ==
    ASSUME NEW S \in SUBSET Pages
    PROVE  /\ IsFiniteSet(S) /\ Cardinality(S) \in Nat
           /\ \A T \in SUBSET S : Cardinality(T) <= Cardinality(S)
<1>1. IsFiniteSet(S)
  BY SiteAssumption, FS_Subset
<1> QED
  BY <1>1, FS_Subset, FS_CardinalityType

\* One page more counts for one.
LEMMA OneMore ==
    ASSUME NEW S \in SUBSET Pages, NEW p \in Pages \ S
    PROVE  Cardinality(S \cup {p}) = Cardinality(S) + 1
BY PagesFinite, FS_AddElement

\* As many names as positions, at most.
LEMMA RangeBound ==
    ASSUME NEW n \in Nat, NEW s \in [1 .. n -> Pages]
    PROVE  Cardinality(Range(s)) <= n
<1>1. ExistsSurjection(1 .. n, Range(s))
  <2>1. s \in Surjection(1 .. n, Range(s))
    BY DEF Surjection, Range
  <2> QED
    BY <2>1 DEF ExistsSurjection
<1> QED
  BY <1>1, FS_SurjCardinalityBound

\* The queue without its head.
LEMMA Popped ==
    ASSUME NEW S, NEW q \in Seq(S), q # <<>>
    PROVE  /\ 1 \in DOMAIN q /\ Head(q) = q[1] /\ Head(q) \in S /\ Tail(q) \in Seq(S)
           /\ \A i \in DOMAIN Tail(q) :
                 i \in Nat \ {0} /\ i + 1 \in DOMAIN q /\ Tail(q)[i] = q[i + 1]
           /\ \A j \in DOMAIN q : j = 1 \/ (j - 1 \in DOMAIN Tail(q) /\ Tail(q)[j - 1] = q[j])
<1>1. Len(q) \in Nat /\ Len(q) > 0 /\ DOMAIN q = 1 .. Len(q)
  OBVIOUS
<1>2. /\ Head(q) = q[1] /\ Tail(q) \in Seq(S) /\ Len(Tail(q)) = Len(q) - 1
      /\ \A i \in 1 .. Len(q) - 1 : Tail(q)[i] = q[i + 1]
  OBVIOUS
<1>3. DOMAIN Tail(q) = 1 .. Len(q) - 1
  BY <1>2
<1> QED
  BY <1>1, <1>2, <1>3

\* The queue with others behind it.
LEMMA Joined ==
    ASSUME NEW S, NEW q \in Seq(S), NEW s \in Seq(S)
    PROVE  /\ q \o s \in Seq(S)
           /\ \A i \in DOMAIN (q \o s) :
                 \/ i \in DOMAIN q /\ (q \o s)[i] = q[i]
                 \/ /\ i > Len(q) /\ i - Len(q) \in DOMAIN s
                    /\ (q \o s)[i] = s[i - Len(q)]
           /\ \A i \in DOMAIN q : i \in DOMAIN (q \o s) /\ (q \o s)[i] = q[i]
           /\ \A i \in DOMAIN s : Len(q) + i \in DOMAIN (q \o s) /\ (q \o s)[Len(q) + i] = s[i]
<1>1. Len(q) \in Nat /\ Len(s) \in Nat /\ DOMAIN q = 1 .. Len(q) /\ DOMAIN s = 1 .. Len(s)
  OBVIOUS
<1>2. /\ q \o s \in Seq(S) /\ Len(q \o s) = Len(q) + Len(s)
      /\ \A i \in 1 .. Len(q) + Len(s) :
            (q \o s)[i] = IF i <= Len(q) THEN q[i] ELSE s[i - Len(q)]
  OBVIOUS
<1>3. DOMAIN (q \o s) = 1 .. Len(q) + Len(s)
  BY <1>2
<1>4. \A i \in DOMAIN s : /\ Len(q) + i \in 1 .. Len(q) + Len(s) /\ ~(Len(q) + i <= Len(q))
                          /\ (Len(q) + i) - Len(q) = i
  BY <1>1
<1>5. \A i \in DOMAIN s : (q \o s)[Len(q) + i] = s[i]
  BY <1>2, <1>4
<1>6. \A i \in DOMAIN (q \o s) : i <= Len(q) \/ (i > Len(q) /\ i - Len(q) \in 1 .. Len(s))
  BY <1>1, <1>3
<1> QED
  BY <1>1, <1>2, <1>3, <1>4, <1>5, <1>6

\* What is queued and what is in hand are pages.
LEMMA QueueTyped ==
    ASSUME TypeOK
    PROVE  /\ \A i \in DOMAIN queue : queue[i].page \in Pages
           /\ cur.page \in Pages
<1>1. cur \in Entry /\ \A i \in DOMAIN queue : queue[i] \in Entry
  BY DEF TypeOK
<1> QED
  BY <1>1 DEF Entry

-----------------------------------------------------------------------------
(* The initial state. *)

\* Nothing is found yet.
LEMMA Initially == Init => IInv
<1> SUFFICES ASSUME Init PROVE IInv
  OBVIOUS
<1>0. /\ job \in CrawlRequest \/ job \in BatchRequest
      /\ job.urls \in 0 .. MaxUrls /\ job.urls \in Nat
  BY RequestAssumption DEF Init, CrawlRequest, BatchRequest
<1>1. TypeOK
  <2>1. w \in Published /\ todo \in 0 .. MaxUrls /\ active \in 0 .. MaxUrls
    BY <1>0, RequestAssumption DEF Init, Published, Status, Ended
  <2>2. cur \in Entry /\ queue \in Seq(Entry)
    BY SiteAssumption, RequestAssumption DEF Init, Entry
  <2> QED
    BY <2>1, <2>2 DEF Init, TypeOK, Fates, Over
<1>2. Placed /\ Lined
  BY DEF Init, Placed, Lined, With, InHand
<1>3. Counted
  <2>1. With({"new"}) = Pages /\ With({"read", "refused"}) = {} /\ With({"refused"}) = {}
    BY DEF Init, With
  <2> QED
    BY <2>1, FS_EmptySet DEF Init, Counted
<1>4. Bounded
  BY <1>0 DEF Init, Bounded, InHand, CrawlRequest, BatchRequest, Crawling
<1>5. Shown
  BY <1>0 DEF Init, Shown, Crawling
<1> QED
  BY <1>1, <1>2, <1>3, <1>4, <1>5 DEF IInv

-----------------------------------------------------------------------------
(* Steps that leave the books and the channel alone. *)

\* The task goes to another place of its loop, or none; the record may be gone.
Moves ==
    /\ UNCHANGED <<job, w, loop, stream>>
    /\ run' \in BOOLEAN /\ del' \in BOOLEAN /\ present' \in BOOLEAN
    /\ handle' \in {"none", "kept", "taken"} /\ (present' => present)
    /\ \/ pc' = pc \/ (pc \notin Over /\ pc' = "stopped")
       \/ pc = "extract" /\ pc' = "llm"
       \/ pc = "queued" /\ pc' = IF Crawling THEN "setup" ELSE "stream"
       \/ pc = "stream" /\ pc' = "ended"

\* Such a step keeps the invariant.
LEMMA MovesKeep == ASSUME IInv, Moves PROVE IInv'
<1>1. TypeOK'
  BY DEF IInv, TypeOK, Moves, loop, stream, Over
<1>2. Placed' /\ Counted'
  BY DEF IInv, Placed, Counted, Moves, loop, With, Crawling, Over
<1>3. Lined' /\ Bounded'
  BY DEF IInv, Placed, Lined, Bounded, Full, Moves, loop, With, InHand, Crawling, Over
<1>4. Shown'
  BY DEF IInv, Placed, Shown, Moves, loop, stream, With, Crawling, Over
<1> QED
  BY <1>1, <1>2, <1>3, <1>4 DEF IInv

\* Those are the steps of the runtime, of the requests and of the clean-up task.
LEMMA MoveStep ==
    ASSUME IInv,
           \/ Wake \/ Stop \/ Acquire \/ Extracted \/ StreamEnds
           \/ StoreHandle \/ BeginCancel \/ Evict
    PROVE  IInv'
<1>0. TypeOK
  BY DEF IInv
<1>1. CASE Wake \/ Stop
  <2>1. /\ UNCHANGED <<job, w, loop, stream, present, handle, del>> /\ run' \in BOOLEAN
        /\ pc' = pc \/ (pc \notin Over /\ pc' = "stopped")
    BY <1>0, <1>1 DEF TypeOK, Wake, Stop, record
  <2>2. Moves
    BY <1>0, <2>1 DEF TypeOK, Moves
  <2> QED
    BY <2>2, MovesKeep
<1>2. CASE Acquire \/ Extracted
  <2>1. Moves
    BY <1>0, <1>2 DEF TypeOK, Moves, Acquire, Extracted, Await, record, Crawling
  <2> QED
    BY <2>1, MovesKeep
<1>3. CASE StreamEnds
  <2>1. Moves
    BY <1>0, <1>3 DEF TypeOK, Moves, StreamEnds, Return, record
  <2> QED
    BY <2>1, MovesKeep
<1>4. CASE StoreHandle \/ BeginCancel \/ Evict
  <2>1. Moves
    BY <1>0, <1>4 DEF TypeOK, Moves, StoreHandle, BeginCancel, Evict
  <2> QED
    BY <2>1, MovesKeep
<1> QED
  BY <1>1, <1>2, <1>3, <1>4

-----------------------------------------------------------------------------
(* Steps that write to the channel only. *)

\* Only the channel's value and the task's place change, the task's to "ended".
Writes ==
    /\ UNCHANGED <<job, present, handle, loop, stream>>
    /\ w' \in Published /\ del' \in BOOLEAN /\ run' \in BOOLEAN /\ pc' \in {pc, "ended"}

\* Such a step keeps the books.
LEMMA WritesKeep == ASSUME IInv, Writes, Shown' PROVE IInv'
<1>1. TypeOK'
  BY DEF IInv, TypeOK, Writes, loop, stream, Over
<1>2. Placed' /\ Counted'
  BY DEF IInv, Placed, Counted, Writes, loop, With, Crawling, Over
<1>3. Lined' /\ Bounded'
  BY DEF IInv, Placed, Lined, Bounded, Full, Writes, loop, With, InHand, Crawling, Over
<1> QED
  BY <1>1, <1>2, <1>3 DEF IInv

\* What a crawl publishes as it goes is well formed.
LEMMA ProgressTyped ==
    ASSUME TypeOK, NEW c \in Nat, NEW b \in Nat
    PROVE  Progress(c, b) \in Published
<1>1. Cardinality(visited) \in Nat
  BY PagesFinite DEF TypeOK
<1> QED
  BY <1>1 DEF Progress, Published, Status

\* A bad setting, and DELETE's mark.
LEMMA MarkStep == ASSUME IInv, SetupFails \/ MarkCancelled PROVE IInv'
<1>0. TypeOK
  BY DEF IInv
<1>1. CASE SetupFails
  <2>1. Crawling /\ pc' = "ended" /\ UNCHANGED <<job, fate>>
    BY <1>1 DEF IInv, Placed, SetupFails, Return, loop, Over
  <2> DEFINE v == [status |-> "Failed", total |-> 0, completed |-> 0, blocked |-> 0, docs |-> 0]
  <2>2. v \in Published /\ w \in Published /\ w' \in {v, w}
    BY <1>0, <1>1 DEF TypeOK, SetupFails, Send, Published, Status, Ended
  <2>3. Writes
    BY <1>0, <1>1, <2>1, <2>2 DEF TypeOK, SetupFails, Return, Writes, record
  <2>4. w.status # "Completed" /\ w.status # "Failed"
    BY <1>1, <2>1 DEF IInv, Shown, SetupFails
  <2>5. Shown'
    <3>1. CASE w' = v
      BY <2>1, <3>1 DEF Shown, Crawling
    <3>2. CASE w' = w
      BY <2>1, <2>4, <3>2 DEF IInv, Shown, Crawling
    <3> QED
      BY <2>2, <3>1, <3>2
  <2> QED
    BY <2>3, <2>5, WritesKeep
<1>2. CASE MarkCancelled
  <2>1. /\ w \in Published /\ w' = [w EXCEPT !.status = "Cancelled"]
        /\ UNCHANGED <<job, present, handle, pc, run, loop, stream>> /\ del' = FALSE
    BY <1>0, <1>2 DEF TypeOK, MarkCancelled
  <2>2. /\ w' \in Published /\ w'.status = "Cancelled" /\ w'.total = w.total
        /\ w'.completed = w.completed /\ w'.blocked = w.blocked /\ w'.docs = w.docs
    BY <2>1 DEF Published, Status, Ended
  <2>3. Writes
    BY <1>0, <2>1, <2>2 DEF Writes, TypeOK
  <2>4. Shown'
    BY <2>1, <2>2 DEF IInv, Shown, Crawling, stream
  <2> QED
    BY <2>3, <2>4, WritesKeep
<1> QED
  BY <1>1, <1>2

\* The counters are within what was found.
LEMMA Balance ==
    ASSUME TypeOK, Counted, Crawling
    PROVE  blocked <= results /\ results <= Cardinality(visited)
<1> DEFINE R == With({"read", "refused"})  B == With({"refused"})
<1>1. R \in SUBSET Pages /\ B \in SUBSET R /\ R \in SUBSET visited /\ visited \in SUBSET Pages
  BY DEF Counted, With
<1>2. Cardinality(B) <= Cardinality(R) /\ Cardinality(R) <= Cardinality(visited)
  BY <1>1, PagesFinite
<1> QED
  BY <1>2 DEF Counted

\* The verdict comes when as many pages are answered as may be, or none is left.
LEMMA CompleteStep == ASSUME IInv, Complete PROVE IInv'
<1>0. TypeOK
  BY DEF IInv
<1>1. /\ Crawling /\ pc' = "ended" /\ run' = FALSE /\ UNCHANGED <<job, record, loop, stream>>
      /\ pc = "finish" \/ (pc = "loop" /\ queue = <<>>)
  BY DEF IInv, Placed, Complete, Return, Over
<1> DEFINE v == [Progress(results, blocked) EXCEPT !.status = "Completed", !.docs = results]
<1>2. /\ v \in Published /\ v.status = "Completed" /\ v.docs = results /\ v.completed = results
      /\ v.blocked = blocked /\ v.total = Cardinality(visited)
  <2>1. Cardinality(visited) \in Nat
    BY <1>0, PagesFinite DEF TypeOK
  <2> QED
    BY <1>0, <2>1 DEF TypeOK, Progress, Published, Status, Ended
<1>3. w' = v \/ w' = w
  BY DEF Complete, Send
<1> HIDE DEF v
<1>4. Writes
  BY <1>0, <1>1, <1>2, <1>3 DEF Writes, TypeOK, record
<1>5. results >= job.limit \/ With({"waiting", "in hand"}) = {}
  <2>1. CASE pc = "finish"
    BY <1>1, <2>1 DEF IInv, Bounded, Full
  <2>2. CASE pc = "loop" /\ queue = <<>>
    <3>1. With({"waiting"}) = {} /\ \A p \in Pages : fate[p] # "in hand"
      <4>1. DOMAIN queue = {}
        BY <2>2
      <4>2. Crawling /\ pc \notin {"finish"} \cup Over /\ ~InHand
        BY <1>1, <2>2 DEF InHand, Over
      <4> QED
        BY <4>1, <4>2 DEF IInv, Lined
    <3> QED
      BY <3>1 DEF With
  <2> QED
    BY <1>1, <2>1, <2>2
<1>6. blocked <= results /\ results <= Cardinality(visited)
  BY <1>1, Balance DEF IInv
<1>7. Shown'
  <2>1. CASE w' = v
    BY <1>1, <1>2, <1>5, <1>6, <2>1 DEF Shown, Crawling, With, loop
  <2>2. CASE w' = w
    BY <1>1, <2>2 DEF IInv, Shown, Crawling, With, loop
  <2> QED
    BY <1>3, <2>1, <2>2
<1> QED
  BY <1>4, <1>7, WritesKeep

-----------------------------------------------------------------------------
(* The batch. *)

\* A scrape begins or ends: each document is counted as its scrape leaves.
LEMMA BatchStep == ASSUME IInv, Launch \/ Document PROVE IInv'
<1>0. TypeOK
  BY DEF IInv
<1>1. /\ ~Crawling /\ pc = "stream" /\ pc' = "stream" /\ run' \in BOOLEAN
      /\ UNCHANGED <<job, record, loop>>
  BY DEF IInv, Placed, Launch, Document, Await, Over
<1>2. /\ todo \in Nat /\ active \in Nat /\ todo' \in Nat /\ active' \in Nat
      /\ todo' <= todo /\ todo' + active' <= todo + active
      /\ w.completed \in Nat /\ w.docs \in Nat /\ w.total \in Nat /\ w.blocked \in Nat
      /\ w \in Published
  <2>1. todo \in Nat /\ active \in Nat /\ todo <= MaxUrls /\ active <= MaxUrls
    BY <1>0, RequestAssumption DEF TypeOK
  <2>2. w \in Published
    BY <1>0 DEF TypeOK
  <2> QED
    BY <2>1, <2>2 DEF Launch, Document, Published
<1>3. job.width \in 1 .. MaxUrls /\ job.urls \in Nat
  BY <1>0, <1>1, RequestAssumption DEF TypeOK, Crawling, CrawlRequest, BatchRequest
<1>4. todo' \in 0 .. MaxUrls /\ active' \in 0 .. MaxUrls
  <2>1. todo \in 0 .. MaxUrls /\ active \in 0 .. MaxUrls /\ MaxUrls \in Nat
    BY <1>0, RequestAssumption DEF TypeOK
  <2> QED
    BY <1>3, <2>1 DEF Launch, Document
<1>5. w' \in Published /\ Shown'
  <2>1. CASE Launch
    <3>1. w' = w /\ todo' + active' = todo + active
      BY <1>2, <2>1 DEF Launch
    <3> QED
      BY <1>1, <1>2, <3>1 DEF IInv, Shown, Crawling, record
  <2>2. CASE Document /\ ~present
    <3>1. w' = w
      BY <2>2 DEF Document, Send
    <3> QED
      BY <1>1, <1>2, <2>2, <3>1 DEF IInv, Shown, Crawling, record
  <2>3. CASE Document /\ present
    <3>1. PICK refused \in {0, 1} :
              w' = AfterDocument([w EXCEPT !.docs = @ + 1, !.completed = @ + 1,
                                           !.blocked = @ + refused])
      BY <2>3 DEF Document, Send
    <3> DEFINE v == [w EXCEPT !.docs = @ + 1, !.completed = @ + 1, !.blocked = @ + refused]
    <3>2. /\ v \in Published /\ v.docs = w.docs + 1 /\ v.completed = w.completed + 1
          /\ v.blocked = w.blocked + refused /\ v.total = w.total /\ v.status = w.status
      <4>1. w.docs + 1 \in Nat /\ w.completed + 1 \in Nat /\ w.blocked + refused \in Nat
        BY <1>2
      <4> QED
        BY <1>2, <4>1 DEF Published
    <3> HIDE DEF v
    <3>3. /\ w' \in Published /\ w'.docs = v.docs /\ w'.completed = v.completed
          /\ w'.blocked = v.blocked /\ w'.total = v.total
          /\ w'.status = IF v.completed >= v.total /\ v.status = "InProgress"
                         THEN "Completed" ELSE v.status
      BY <3>1, <3>2 DEF AfterDocument, Published, Status, Ended, v
    <3>4. w.completed + (todo + active) = job.urls /\ active > 0 /\ todo' = todo /\ active' = active - 1
      BY <1>1, <2>3 DEF IInv, Shown, Document
    <3>5. w.completed < job.urls /\ w'.completed + (todo' + active') = job.urls
      BY <1>2, <1>3, <3>2, <3>3, <3>4
    <3>6. w.status # "Completed" /\ w.status # "Failed"
      <4>1. w.completed # job.urls
        BY <1>2, <1>3, <3>5
      <4> QED
        BY <1>1, <4>1 DEF IInv, Shown
    <3>7. w.total = job.urls /\ w.docs = w.completed /\ w.blocked <= w.completed
      BY <1>1 DEF IInv, Shown
    <3>8. /\ w'.blocked <= w'.completed /\ w'.completed <= w'.total
          /\ w'.docs = w'.completed /\ w'.total = job.urls
      BY <1>2, <1>3, <3>2, <3>3, <3>5, <3>7
    <3>9. w'.status # "Failed" /\ (w'.status = "Completed" => w'.completed = job.urls)
      BY <1>2, <1>3, <3>2, <3>3, <3>5, <3>6, <3>7
    <3> QED
      BY <1>1, <3>3, <3>5, <3>8, <3>9 DEF Shown, Crawling
  <2> QED
    BY <2>1, <2>2, <2>3
<1>6. TypeOK'
  BY <1>0, <1>1, <1>4, <1>5 DEF TypeOK, record, loop
<1>7. Placed' /\ Counted' /\ Lined' /\ Bounded'
  BY <1>1 DEF Placed, Counted, Lined, Bounded, Crawling
<1> QED
  BY <1>5, <1>6, <1>7 DEF IInv

-----------------------------------------------------------------------------
(* The crawl loop. *)

\* The seed is found, at depth 0, and waits.
LEMMA SetupStep == ASSUME IInv, SetupDone PROVE IInv'
<1>0. TypeOK
  BY DEF IInv
<1> DEFINE e == [page |-> Seed, depth |-> 0]
<1>1. /\ Crawling /\ pc = "setup" /\ pc' = "loop" /\ visited' = {Seed} /\ queue' = <<e>>
      /\ fate' = [fate EXCEPT ![Seed] = "waiting"]
      /\ UNCHANGED <<job, record, w, run, cur, results, blocked, stream>>
  BY DEF IInv, Placed, SetupDone, Over
<1>2. e \in Entry /\ e.page = Seed /\ e.depth = 0 /\ Seed \in Pages
  BY SiteAssumption, RequestAssumption DEF Entry
<1> HIDE DEF e
<1>3. queue' \in Seq(Entry) /\ DOMAIN queue' = {1} /\ queue'[1] = e
  BY <1>1, <1>2
<1>4. visited = {} /\ With({"new"}) = Pages
  BY <1>1 DEF IInv, Counted, With
<1>5. /\ fate' \in [Pages -> Fates] /\ fate'[Seed] = "waiting"
      /\ \A p \in Pages : p # Seed => fate'[p] = "new"
      /\ \A p \in Pages : fate[p] = "new"
  BY <1>0, <1>1, <1>2, <1>4 DEF TypeOK, Fates, With
<1>6. TypeOK'
  BY <1>0, <1>1, <1>2, <1>3, <1>5 DEF TypeOK, record, stream
<1>7. Placed'
  BY <1>1 DEF Placed, Crawling
<1>8. Counted'
  <2>1. /\ With({"read", "refused"})' = {} /\ With({"read", "refused"}) = {}
        /\ With({"refused"})' = {} /\ With({"refused"}) = {}
    BY <1>2, <1>5 DEF With
  <2>2. visited' = Pages \ With({"new"})'
    BY <1>1, <1>2, <1>5 DEF With
  <2> QED
    BY <1>1, <2>1, <2>2 DEF IInv, Counted, Crawling
<1>9. Lined'
  BY <1>1, <1>2, <1>3, <1>5 DEF Lined, With, InHand
<1>10. Bounded'
  <2>1. job.limit \in Nat /\ job.deep \in Nat
    BY <1>0, <1>1, RequestAssumption DEF TypeOK, Crawling, CrawlRequest, BatchRequest
  <2>2. results' <= job'.limit
    BY <1>1 DEF IInv, Bounded
  <2> QED
    BY <1>1, <1>2, <1>3, <2>1, <2>2 DEF Bounded, InHand
<1>11. Shown'
  BY <1>1, <1>5 DEF IInv, Shown, Crawling, With, record, stream
<1> QED
  BY <1>6, <1>7, <1>8, <1>9, <1>10, <1>11 DEF IInv

\* The head of the queue leaves it: for good, passed over, or into the hand.
LEMMA PopStep == ASSUME IInv, Break \/ Skip \/ Pop PROVE IInv'
<1>0. TypeOK
  BY DEF IInv
<1> DEFINE e == Head(queue)
<1>1. /\ Crawling /\ pc = "loop" /\ queue # <<>> /\ queue' = Tail(queue)
      /\ UNCHANGED <<job, record, w, visited, results, blocked, stream>>
  BY DEF IInv, Placed, Break, Skip, Pop, Over
<1>2. /\ queue \in Seq(Entry) /\ queue' \in Seq(Entry)
      /\ 1 \in DOMAIN queue /\ e = queue[1] /\ e \in Entry
      /\ \A i \in DOMAIN queue' :
            i \in Nat \ {0} /\ i + 1 \in DOMAIN queue /\ queue'[i] = queue[i + 1]
      /\ \A j \in DOMAIN queue :
            j = 1 \/ (j - 1 \in DOMAIN queue' /\ queue'[j - 1] = queue[j])
  BY <1>0, <1>1, Popped DEF TypeOK
<1>3. e.page \in Pages /\ e.depth \in Nat /\ fate[e.page] = "waiting"
  <2>1. e.page \in Pages /\ e.depth \in Nat
    BY <1>2, RequestAssumption DEF Entry
  <2>2. fate[queue[1].page] = "waiting"
    BY <1>1, <1>2 DEF IInv, Lined, Over
  <2> QED
    BY <1>2, <2>1, <2>2
<1> HIDE DEF e
<1>4. /\ run' \in BOOLEAN /\ cur' \in Entry
      /\ \/ pc' = "finish" /\ Full /\ UNCHANGED <<fate, cur>>
         \/ pc' = "loop" /\ fate' = [fate EXCEPT ![e.page] = "skipped"] /\ cur' = cur
         \/ /\ pc' = "fetch" /\ ~Full /\ cur' = e
            /\ fate' = [fate EXCEPT ![e.page] = "in hand"]
  BY <1>0, <1>1, <1>2 DEF TypeOK, Break, Skip, Pop, Await, e
<1>5. /\ fate' \in [Pages -> Fates]
      /\ \A p \in Pages : p # e.page => fate'[p] = fate[p]
      /\ fate'[e.page] = CASE pc' = "finish" -> "waiting"
                           [] pc' = "loop" -> "skipped"
                           [] pc' = "fetch" -> "in hand"
  BY <1>0, <1>3, <1>4 DEF TypeOK, Fates
<1>6. TypeOK'
  BY <1>0, <1>1, <1>2, <1>4, <1>5 DEF TypeOK, record, stream
<1>7. Placed'
  BY <1>1, <1>4 DEF Placed, Crawling
<1>8. Counted'
  <2>1. /\ With({"new"})' = With({"new"}) /\ With({"refused"})' = With({"refused"})
        /\ With({"read", "refused"})' = With({"read", "refused"})
    BY <1>3, <1>4, <1>5 DEF With
  <2> QED
    BY <1>1, <1>4, <2>1 DEF IInv, Counted, Crawling
<1>9. Lined'
  <2> SUFFICES ASSUME pc' # "finish" PROVE Lined'
    BY DEF Lined
  <2>1. ASSUME NEW i \in DOMAIN queue', NEW j \in DOMAIN queue', queue'[i].page = queue'[j].page
        PROVE  i = j
    <3>1. i + 1 = j + 1
      <4>1. /\ i + 1 \in DOMAIN queue /\ j + 1 \in DOMAIN queue
            /\ queue[i + 1].page = queue[j + 1].page
        BY <1>2, <2>1
      <4> QED
        BY <1>1, <4>1 DEF IInv, Lined, Over
    <3> QED
      BY <1>2, <3>1
  <2>2. ASSUME NEW i \in DOMAIN queue' PROVE fate'[queue'[i].page] = "waiting"
    <3>1. /\ i + 1 \in DOMAIN queue /\ queue'[i] = queue[i + 1] /\ i + 1 # 1
          /\ queue[i + 1] \in Entry
      BY <1>2
    <3>2. queue[i + 1].page # e.page /\ fate[queue[i + 1].page] = "waiting"
      BY <1>1, <1>2, <3>1 DEF IInv, Lined, Over
    <3> QED
      BY <1>5, <3>1, <3>2 DEF Entry
  <2>3. ASSUME NEW p \in Pages, fate'[p] = "waiting" PROVE \E i \in DOMAIN queue' : queue'[i].page = p
    <3>1. p # e.page /\ fate[p] = "waiting"
      BY <1>4, <1>5, <2>3
    <3>2. PICK j \in DOMAIN queue : queue[j].page = p
      BY <1>1, <3>1 DEF IInv, Lined, With, Over
    <3>3. j # 1
      BY <1>2, <3>1, <3>2
    <3> QED
      BY <1>2, <3>2, <3>3
  <2>4. ASSUME NEW p \in Pages PROVE fate'[p] = "in hand" <=> InHand' /\ p = cur'.page
    <3>1. fate[p] # "in hand"
      BY <1>1 DEF IInv, Lined, InHand, Over
    <3> QED
      BY <1>3, <1>4, <1>5, <3>1 DEF InHand
  <2> QED
    BY <2>1, <2>2, <2>3, <2>4 DEF Lined, With
<1>10. Bounded'
  <2>1. ASSUME NEW i \in DOMAIN queue'
        PROVE  /\ queue'[i].depth <= job.deep /\ queue'[i].depth \in Nat
               /\ e.depth <= queue'[i].depth /\ queue'[i].depth <= e.depth + 1
    <3>1. i + 1 \in DOMAIN queue /\ queue'[i] = queue[i + 1] /\ 1 <= i + 1 /\ queue[i + 1] \in Entry
      BY <1>2
    <3>2. /\ queue[i + 1].depth <= job.deep /\ queue[1].depth <= queue[i + 1].depth
          /\ queue[i + 1].depth <= queue[1].depth + 1
      BY <1>1, <1>2, <3>1 DEF IInv, Bounded
    <3> QED
      BY <1>2, <3>1, <3>2, RequestAssumption DEF Entry
  <2>2. ASSUME NEW i \in DOMAIN queue', NEW j \in DOMAIN queue'
        PROVE  /\ queue'[i].depth <= queue'[j].depth + 1
               /\ i <= j => queue'[i].depth <= queue'[j].depth
    <3>1. /\ i + 1 \in DOMAIN queue /\ j + 1 \in DOMAIN queue /\ (i <= j => i + 1 <= j + 1)
          /\ queue'[i] = queue[i + 1] /\ queue'[j] = queue[j + 1]
      BY <1>2
    <3> QED
      BY <1>1, <3>1 DEF IInv, Bounded
  <2>3. results <= job.limit /\ (pc' = "fetch" => results < job.limit) /\ (pc' = "finish" => Full)
    <3>1. results \in Nat /\ job.limit \in Nat
      BY <1>0, <1>1, RequestAssumption DEF TypeOK, Crawling, CrawlRequest, BatchRequest
    <3>2. results <= job.limit
      BY <1>1 DEF IInv, Bounded
    <3>3. /\ pc' = "fetch" => ~(results >= job.limit)
          /\ pc' = "finish" => results >= job.limit
      BY <1>4 DEF Full
    <3> QED
      BY <3>1, <3>2, <3>3 DEF Full
  <2>4. Cardinality(visited) <= job.limit \/ visited \subseteq {Seed}
    BY <1>1 DEF IInv, Bounded
  <2> QED
    BY <1>1, <1>4, <2>1, <2>2, <2>3, <2>4 DEF Bounded, InHand, Full
<1>11. Shown'
  BY <1>1, <1>4 DEF IInv, Shown, Crawling, record, stream
<1> QED
  BY <1>6, <1>7, <1>8, <1>9, <1>10, <1>11 DEF IInv

\* What is added to the queue and to what was found: other pages, once each, one
\* deeper, and no more than there is room for.
Added(n, links) ==
    LET s == [i \in 1 .. n |-> [page |-> links[i], depth |-> cur.depth + 1]]
    IN /\ links \in [1 .. n -> Pages]
       /\ \A i \in 1 .. n : links[i] \notin visited
       /\ \A i, j \in 1 .. n : links[i] = links[j] => i = j
       /\ n > 0 => cur.depth < job.deep /\ Cardinality(visited) + n <= job.limit
       /\ visited' = visited \cup Range(links)
       /\ s \in Seq(Entry) /\ Len(s) = n /\ DOMAIN s = 1 .. n
       /\ queue' = queue \o s
       /\ fate' = [p \in Pages |-> IF p \in Range(links) THEN "waiting" ELSE fate[p]]

LEMMA FoundFacts ==
    ASSUME IInv, Fetched
    PROVE  \E n \in Nat : \E links : Added(n, links)
<1>0. TypeOK /\ pc = "fetch" /\ Crawling
  BY DEF IInv, Placed, Fetched, Over
<1>1. /\ job.limit \in Nat /\ job.deep \in 0 .. MaxDepth /\ MaxDepth \in Nat
      /\ cur.depth \in 0 .. MaxDepth /\ Cardinality(visited) \in Nat
  <2>1. job.limit \in Nat /\ job.deep \in 0 .. MaxDepth
    BY <1>0, RequestAssumption DEF TypeOK, Crawling, CrawlRequest, BatchRequest
  <2>2. cur.depth \in 0 .. MaxDepth
    BY <1>0 DEF TypeOK, Entry
  <2>3. Cardinality(visited) \in Nat
    BY <1>0, PagesFinite DEF TypeOK
  <2> QED
    BY <2>1, <2>2, <2>3, RequestAssumption
<1>2. PICK links \in Discoveries :
          /\ visited' = visited \cup Range(links)
          /\ queue' = queue \o [i \in DOMAIN links |->
                                   [page |-> links[i], depth |-> cur.depth + 1]]
          /\ fate' = [p \in Pages |-> IF p \in Range(links) THEN "waiting" ELSE fate[p]]
  BY DEF Fetched
<1>3. PICK n \in Nat :
          /\ links \in [1 .. n -> Pages \ visited] /\ IsInjective(links)
          /\ n > 0 => cur.depth < job.deep /\ Cardinality(visited) + n <= job.limit
  <2>1. CASE cur.depth >= job.deep
    <3>1. links = <<>>
      BY <2>1 DEF Discoveries
    <3>2. links \in [1 .. 0 -> Pages \ visited] /\ IsInjective(links)
      BY <3>1 DEF IsInjective
    <3> QED
      BY <3>2
  <2>2. CASE ~(cur.depth >= job.deep)
    <3>1. PICK n \in 0 .. job.limit - Cardinality(visited) :
              links \in [1 .. n -> Pages \ visited] /\ IsInjective(links)
      BY <2>2 DEF Discoveries
    <3>2. n \in Nat /\ Cardinality(visited) + n <= job.limit /\ cur.depth < job.deep
      BY <1>1, <2>2, <3>1
    <3> QED
      BY <3>1, <3>2
  <2> QED
    BY <2>1, <2>2
<1> DEFINE s == [i \in 1 .. n |-> [page |-> links[i], depth |-> cur.depth + 1]]
<1>4. links \in [1 .. n -> Pages] /\ DOMAIN links = 1 .. n
  BY <1>3
<1>5. s \in Seq(Entry) /\ Len(s) = n /\ DOMAIN s = 1 .. n
  <2>1. ASSUME NEW i \in 1 .. n PROVE [page |-> links[i], depth |-> cur.depth + 1] \in Entry
    <3>1. n > 0
      BY <2>1
    <3>2. cur.depth + 1 \in 0 .. MaxDepth
      BY <1>1, <1>3, <3>1
    <3>3. links[i] \in Pages
      BY <1>4
    <3> QED
      BY <3>2, <3>3 DEF Entry
  <2>2. s \in [1 .. n -> Entry]
    BY <2>1
  <2> QED
    BY <2>2
<1>6. queue' = queue \o s
  BY <1>2, <1>4
<1>7. /\ \A i \in 1 .. n : links[i] \notin visited
      /\ \A i, j \in 1 .. n : links[i] = links[j] => i = j
  BY <1>3, <1>4 DEF IsInjective
<1>8. Added(n, links)
  BY <1>2, <1>3, <1>4, <1>5, <1>6, <1>7 DEF Added
<1> QED
  BY <1>8

\* The links of a page are queued behind what is there, as deep or one less.
LEMMA FetchedStep == ASSUME IInv, Fetched PROVE IInv'
<1>0. TypeOK /\ Counted /\ Lined /\ Bounded
  BY DEF IInv
<1>1. /\ Crawling /\ pc = "fetch" /\ pc' = "extract" /\ run' \in BOOLEAN
      /\ UNCHANGED <<job, record, w, cur, results, blocked, stream>>
  BY DEF IInv, Placed, Fetched, Await, Over
<1>a. PICK n \in Nat : \E links : Added(n, links)
  BY FoundFacts
<1>b. PICK links : Added(n, links)
  BY <1>a
<1>2. LET s == [i \in 1 .. n |-> [page |-> links[i], depth |-> cur.depth + 1]]
      IN /\ links \in [1 .. n -> Pages]
         /\ \A i \in 1 .. n : links[i] \notin visited
         /\ \A i, j \in 1 .. n : links[i] = links[j] => i = j
         /\ n > 0 => cur.depth < job.deep /\ Cardinality(visited) + n <= job.limit
         /\ visited' = visited \cup Range(links)
         /\ s \in Seq(Entry) /\ Len(s) = n /\ DOMAIN s = 1 .. n
         /\ queue' = queue \o s
         /\ fate' = [p \in Pages |-> IF p \in Range(links) THEN "waiting" ELSE fate[p]]
  BY <1>b DEF Added
<1> DEFINE s == [i \in 1 .. n |-> [page |-> links[i], depth |-> cur.depth + 1]]
<1>3. /\ queue \in Seq(Entry) /\ s \in Seq(Entry) /\ DOMAIN s = 1 .. n /\ queue' = queue \o s
      /\ \A i \in 1 .. n : s[i].page = links[i] /\ s[i].depth = cur.depth + 1
      /\ Len(queue) \in Nat /\ DOMAIN queue = 1 .. Len(queue)
  BY <1>0, <1>2 DEF TypeOK
<1> HIDE DEF s
<1>4. /\ queue' \in Seq(Entry)
      /\ \A i \in DOMAIN queue' :
            \/ i \in DOMAIN queue /\ queue'[i] = queue[i]
            \/ i > Len(queue) /\ i - Len(queue) \in 1 .. n /\ queue'[i] = s[i - Len(queue)]
      /\ \A i \in DOMAIN queue : i \in DOMAIN queue' /\ queue'[i] = queue[i]
      /\ \A i \in 1 .. n : Len(queue) + i \in DOMAIN queue' /\ queue'[Len(queue) + i] = s[i]
  BY <1>3, Joined
<1>5. /\ fate' \in [Pages -> Fates]
      /\ \A p \in Pages : p \in Range(links) => fate'[p] = "waiting" /\ fate[p] = "new"
      /\ \A p \in Pages : p \notin Range(links) => fate'[p] = fate[p]
      /\ \A i \in 1 .. n : links[i] \in Range(links) /\ links[i] \in Pages
      /\ \A p \in Range(links) : \E i \in 1 .. n : links[i] = p
      /\ visited \subseteq Pages /\ visited' = visited \cup Range(links) /\ visited' \subseteq Pages
  <2>1. /\ Range(links) \subseteq Pages
        /\ \A i \in 1 .. n : links[i] \in Range(links) /\ links[i] \in Pages
        /\ \A p \in Range(links) : \E i \in 1 .. n : links[i] = p
    BY <1>2 DEF Range
  <2>2. \A p \in Range(links) : p \notin visited
    BY <1>2, <2>1
  <2>3. \A p \in Pages : p \notin visited => fate[p] = "new"
    BY <1>0, <1>1 DEF Counted, With
  <2>4. fate' = [p \in Pages |-> IF p \in Range(links) THEN "waiting" ELSE fate[p]]
    BY <1>2
  <2>5. visited \subseteq Pages /\ visited' = visited \cup Range(links)
    BY <1>0, <1>2 DEF TypeOK
  <2> QED
    BY <1>0, <2>1, <2>2, <2>3, <2>4, <2>5 DEF TypeOK, Fates
<1>c. \A i \in DOMAIN queue' :
         \/ i \in DOMAIN queue /\ queue'[i] = queue[i]
         \/ /\ i > Len(queue) /\ i - Len(queue) \in 1 .. n
            /\ queue'[i].page = links[i - Len(queue)] /\ queue'[i].page \in Range(links)
            /\ queue'[i].depth = cur.depth + 1
  BY <1>3, <1>4, <1>5
<1>6. TypeOK'
  BY <1>0, <1>1, <1>4, <1>5 DEF TypeOK, record, stream
<1>7. Placed'
  BY <1>1 DEF Placed, Crawling
<1>8. Counted'
  <2>1. /\ With({"refused"})' = With({"refused"})
        /\ With({"read", "refused"})' = With({"read", "refused"})
    BY <1>5 DEF With
  <2>2. visited' = Pages \ With({"new"})'
    BY <1>0, <1>1, <1>5 DEF With, Counted
  <2> QED
    BY <1>0, <1>1, <2>1, <2>2 DEF Counted, Crawling
<1>9. Lined'
  <2>1. /\ \A i, j \in DOMAIN queue : queue[i].page = queue[j].page => i = j
        /\ \A i \in DOMAIN queue : fate[queue[i].page] = "waiting"
        /\ \A p \in With({"waiting"}) : \E i \in DOMAIN queue : queue[i].page = p
        /\ \A p \in Pages : fate[p] = "in hand" <=> p = cur.page
    BY <1>0, <1>1 DEF Lined, InHand, Over
  <2>2. \A i \in DOMAIN queue : queue[i].page \in Pages /\ queue[i].page \notin Range(links)
    <3> SUFFICES ASSUME NEW i \in DOMAIN queue
                 PROVE  queue[i].page \in Pages /\ queue[i].page \notin Range(links)
      OBVIOUS
    <3>1. queue[i] \in Entry
      BY <1>3
    <3>2. queue[i].page \in Pages /\ fate[queue[i].page] = "waiting"
      BY <2>1, <3>1 DEF Entry
    <3> QED
      BY <1>5, <3>2
  <2>3. ASSUME NEW i \in DOMAIN queue', NEW j \in DOMAIN queue', queue'[i].page = queue'[j].page
        PROVE  i = j
    <3>1. CASE i \in DOMAIN queue /\ queue'[i] = queue[i]
      <4>1. queue'[j].page \notin Range(links)
        BY <2>2, <2>3, <3>1
      <4>2. j \in DOMAIN queue /\ queue'[j] = queue[j]
        BY <1>c, <4>1
      <4> QED
        BY <2>1, <2>3, <3>1, <4>2
    <3>2. CASE /\ i > Len(queue) /\ i - Len(queue) \in 1 .. n
               /\ queue'[i].page = links[i - Len(queue)] /\ queue'[i].page \in Range(links)
      <4>1. queue'[j].page \in Range(links)
        BY <2>3, <3>2
      <4>2. j - Len(queue) \in 1 .. n /\ queue'[j].page = links[j - Len(queue)]
        BY <1>c, <2>2, <4>1
      <4>3. i - Len(queue) = j - Len(queue)
        BY <1>2, <2>3, <3>2, <4>2
      <4>4. i \in Int /\ j \in Int
        BY <1>4
      <4> QED
        BY <1>3, <4>3, <4>4
    <3> QED
      BY <1>c, <3>1, <3>2
  <2>4. ASSUME NEW i \in DOMAIN queue' PROVE fate'[queue'[i].page] = "waiting"
    <3>1. CASE i \in DOMAIN queue /\ queue'[i] = queue[i]
      <4>1. queue[i].page \in Pages /\ queue[i].page \notin Range(links)
        BY <2>2, <3>1
      <4>2. fate[queue[i].page] = "waiting"
        BY <2>1, <3>1
      <4> QED
        BY <1>5, <3>1, <4>1, <4>2
    <3>2. CASE queue'[i].page \in Range(links)
      BY <1>2, <1>5, <3>2
    <3> QED
      BY <1>c, <3>1, <3>2
  <2>5. ASSUME NEW p \in Pages, fate'[p] = "waiting" PROVE \E i \in DOMAIN queue' : queue'[i].page = p
    <3>1. CASE p \in Range(links)
      <4>1. PICK i \in 1 .. n : links[i] = p
        BY <1>5, <3>1
      <4>2. Len(queue) + i \in DOMAIN queue' /\ queue'[Len(queue) + i] = s[i] /\ s[i].page = p
        BY <1>3, <1>4, <4>1
      <4> QED
        BY <4>2
    <3>2. CASE p \notin Range(links)
      <4>1. PICK i \in DOMAIN queue : queue[i].page = p
        BY <1>5, <2>1, <2>5, <3>2 DEF With
      <4> QED
        BY <1>4, <4>1
    <3> QED
      BY <3>1, <3>2
  <2>6. ASSUME NEW p \in Pages PROVE fate'[p] = "in hand" <=> InHand' /\ p = cur'.page
    <3>1. fate'[p] = "in hand" <=> fate[p] = "in hand"
      BY <1>5
    <3> QED
      BY <1>1, <2>1, <3>1 DEF InHand
  <2> QED
    BY <2>3, <2>4, <2>5, <2>6 DEF Lined, With
<1>10. Bounded'
  <2>1. /\ cur.depth \in Nat /\ job.deep \in Nat /\ job.limit \in Nat
        /\ \A i \in DOMAIN queue : queue[i].depth \in Nat
    <3>1. job.deep \in Nat /\ job.limit \in Nat
      BY <1>0, <1>1, RequestAssumption DEF TypeOK, Crawling, CrawlRequest, BatchRequest
    <3>2. \A x \in Entry : x.depth \in Nat
      BY RequestAssumption DEF Entry
    <3>3. cur \in Entry /\ \A i \in DOMAIN queue : queue[i] \in Entry
      BY <1>0, <1>3 DEF TypeOK
    <3> QED
      BY <3>1, <3>2, <3>3
  <2>2. /\ \A i \in DOMAIN queue : /\ queue[i].depth <= job.deep
                                   /\ cur.depth <= queue[i].depth
                                   /\ queue[i].depth <= cur.depth + 1
        /\ \A i, j \in DOMAIN queue : i <= j => queue[i].depth <= queue[j].depth
    BY <1>0, <1>1 DEF Bounded, InHand
  <2>3. ASSUME NEW i \in DOMAIN queue'
        PROVE  /\ queue'[i].depth \in Nat /\ queue'[i].depth <= job.deep
               /\ cur.depth <= queue'[i].depth /\ queue'[i].depth <= cur.depth + 1
    <3>1. CASE i \in DOMAIN queue /\ queue'[i] = queue[i]
      BY <2>1, <2>2, <3>1
    <3>2. CASE i - Len(queue) \in 1 .. n /\ queue'[i].depth = cur.depth + 1
      <4>1. n > 0
        BY <3>2
      <4>2. cur.depth < job.deep
        BY <1>2, <4>1
      <4> QED
        BY <2>1, <3>2, <4>2
    <3> QED
      BY <1>c, <3>1, <3>2
  <2>4. ASSUME NEW i \in DOMAIN queue', NEW j \in DOMAIN queue', i <= j
        PROVE  queue'[i].depth <= queue'[j].depth
    <3>1. CASE j \in DOMAIN queue /\ queue'[j] = queue[j]
      <4>1. i \in DOMAIN queue /\ queue'[i] = queue[i]
        BY <1>3, <1>4, <2>4, <3>1
      <4> QED
        BY <2>2, <2>4, <3>1, <4>1
    <3>2. CASE j > Len(queue) /\ j - Len(queue) \in 1 .. n /\ queue'[j] = s[j - Len(queue)]
      <4>1. queue'[j].depth = cur.depth + 1
        BY <1>3, <3>2
      <4> QED
        BY <2>3, <4>1
    <3> QED
      BY <1>4, <3>1, <3>2
  <2>5. \A i, j \in DOMAIN queue' : queue'[i].depth <= queue'[j].depth + 1
    BY <2>1, <2>3
  <2>6. Cardinality(visited') <= job.limit \/ visited' \subseteq {Seed}
    <3>1. CASE n = 0
      <4>1. visited' = visited
        BY <1>5, <3>1
      <4> QED
        BY <1>0, <1>1, <4>1 DEF Bounded
    <3>2. CASE n > 0
      <4>1. Cardinality(visited) + n <= job.limit
        BY <1>2, <3>2
      <4>2. Cardinality(Range(links)) <= n
        BY <1>2, RangeBound
      <4>3. /\ Range(links) \subseteq Pages /\ IsFiniteSet(Range(links)) /\ IsFiniteSet(visited)
            /\ Cardinality(visited) \in Nat /\ Cardinality(Range(links)) \in Nat
        BY <1>5, PagesFinite
      <4>4. /\ Cardinality(visited') = Cardinality(visited) + Cardinality(Range(links))
                                       - Cardinality(visited \cap Range(links))
            /\ Cardinality(visited \cap Range(links)) \in Nat
        BY <1>5, <4>3, FS_Union, FS_Intersection, FS_CardinalityType
      <4> QED
        BY <2>1, <4>1, <4>2, <4>3, <4>4
    <3> QED
      BY <3>1, <3>2
  <2>7. results <= job.limit /\ results < job.limit
    BY <1>0, <1>1 DEF Bounded, InHand
  <2> QED
    BY <1>1, <2>3, <2>4, <2>5, <2>6, <2>7 DEF Bounded, InHand
<1>11. Shown'
  BY <1>1 DEF IInv, Shown, Crawling, record, stream
<1> QED
  BY <1>6, <1>7, <1>8, <1>9, <1>10, <1>11 DEF IInv

\* A page is answered: one result more, and one refusal more if it was refused.
\* It was in hand, so it was found and not counted yet.
LEMMA AnswerStep == ASSUME IInv, FetchFails \/ ExtractFails \/ Read PROVE IInv'
<1>0. TypeOK /\ Counted /\ Lined /\ Bounded
  BY DEF IInv
<1>1. /\ Crawling /\ InHand /\ pc' = "loop"
      /\ UNCHANGED <<job, record, run, visited, queue, cur, stream>>
  BY DEF IInv, Placed, FetchFails, ExtractFails, Read, Refuse, Answer, InHand, Over
<1>2. PICK how \in {"read", "refused"}, b \in {blocked, blocked + 1} :
          /\ results' = results + 1 /\ blocked' = b
          /\ b = IF how = "refused" THEN blocked + 1 ELSE blocked
          /\ fate' = [fate EXCEPT ![cur.page] = how]
          /\ Send(Progress(results + 1, b))
  BY DEF FetchFails, ExtractFails, Read, Refuse, Answer
<1>3. cur.page \in Pages /\ fate[cur.page] = "in hand"
  BY <1>0, <1>1 DEF TypeOK, Entry, Lined, InHand, Over
<1>4. /\ fate' \in [Pages -> Fates] /\ fate'[cur.page] = how
      /\ \A p \in Pages : p # cur.page => fate'[p] = fate[p]
  BY <1>0, <1>2, <1>3 DEF TypeOK, Fates
<1>5. Counted'
  <2>1. With({"read", "refused"})' = With({"read", "refused"}) \cup {cur.page}
    BY <1>2, <1>3, <1>4 DEF With
  <2>2. With({"refused"})' = IF how = "refused" THEN With({"refused"}) \cup {cur.page}
                                                ELSE With({"refused"})
    BY <1>2, <1>3, <1>4 DEF With
  <2>3. /\ With({"read", "refused"}) \in SUBSET Pages /\ With({"refused"}) \in SUBSET Pages
        /\ cur.page \in Pages \ With({"read", "refused"}) /\ cur.page \in Pages \ With({"refused"})
    BY <1>3 DEF With
  <2>4. /\ Cardinality(With({"read", "refused"}) \cup {cur.page})
              = Cardinality(With({"read", "refused"})) + 1
        /\ Cardinality(With({"refused"}) \cup {cur.page}) = Cardinality(With({"refused"})) + 1
    BY <2>3, OneMore
  <2>5. results' = Cardinality(With({"read", "refused"})')
    BY <1>0, <1>1, <1>2, <2>1, <2>4 DEF Counted
  <2>6. blocked' = Cardinality(With({"refused"})')
    BY <1>0, <1>1, <1>2, <2>2, <2>4 DEF Counted
  <2>7. visited' = Pages \ With({"new"})'
    BY <1>0, <1>1, <1>2, <1>3, <1>4 DEF Counted, With
  <2> QED
    BY <1>1, <2>5, <2>6, <2>7 DEF Counted
<1>6. /\ results \in Nat /\ blocked \in Nat /\ results' \in Nat /\ blocked' \in Nat
      /\ Cardinality(visited) \in Nat
  <2>1. results \in Nat /\ blocked \in Nat /\ Cardinality(visited) \in Nat
    BY <1>0, PagesFinite DEF TypeOK
  <2> QED
    BY <1>2, <2>1
<1>7. w' \in Published /\ (w' = w \/ w' = Progress(results', blocked'))
  <2>1. w' = w \/ w' = Progress(results', blocked')
    BY <1>2 DEF Send
  <2>2. Progress(results', blocked') \in Published
    BY <1>0, <1>6, ProgressTyped
  <2> QED
    BY <1>0, <2>1, <2>2 DEF TypeOK
<1>8. TypeOK'
  BY <1>0, <1>1, <1>4, <1>6, <1>7 DEF TypeOK, record, stream
<1>9. Placed'
  BY <1>1 DEF Placed, Crawling
<1>10. Lined'
  <2>1. /\ \A i, j \in DOMAIN queue : queue[i].page = queue[j].page => i = j
        /\ \A i \in DOMAIN queue : fate[queue[i].page] = "waiting"
        /\ \A p \in With({"waiting"}) : \E i \in DOMAIN queue : queue[i].page = p
        /\ \A p \in Pages : fate[p] = "in hand" <=> p = cur.page
    BY <1>0, <1>1 DEF Lined, InHand, Over
  <2>2. \A i \in DOMAIN queue : queue[i].page \in Pages
    BY <1>0, QueueTyped
  <2>3. \A i \in DOMAIN queue : fate'[queue[i].page] = "waiting"
    <3> SUFFICES ASSUME NEW i \in DOMAIN queue PROVE fate'[queue[i].page] = "waiting"
      OBVIOUS
    <3>1. queue[i].page # cur.page
      BY <1>3, <2>1
    <3> QED
      <4>1. queue[i].page \in Pages /\ fate[queue[i].page] = "waiting"
        BY <2>1, <2>2
      <4> QED
        BY <1>4, <3>1, <4>1
  <2>4. With({"waiting"})' = With({"waiting"})
    BY <1>2, <1>3, <1>4 DEF With
  <2>5. \A p \in Pages : fate'[p] # "in hand"
    BY <1>2, <1>4, <2>1
  <2> QED
    <3>1. \A p \in With({"waiting"})' : \E i \in DOMAIN queue : queue[i].page = p
      BY <2>1, <2>4
    <3>2. ~InHand' /\ queue' = queue
      BY <1>1 DEF InHand
    <3> QED
      BY <2>1, <2>3, <2>5, <3>1, <3>2 DEF Lined
<1>11. Bounded'
  <2>1. job.limit \in Nat
    BY <1>0, <1>1, RequestAssumption DEF TypeOK, Crawling, CrawlRequest, BatchRequest
  <2>2. results' <= job.limit
    <3>1. results < job.limit
      BY <1>0, <1>1 DEF Bounded
    <3> QED
      BY <1>2, <1>6, <2>1, <3>1
  <2>3. /\ Cardinality(visited) <= job.limit \/ visited \subseteq {Seed}
        /\ \A i \in DOMAIN queue : queue[i].depth <= job.deep
        /\ \A i, j \in DOMAIN queue :
              queue[i].depth <= queue[j].depth + 1 /\ (i <= j => queue[i].depth <= queue[j].depth)
    BY <1>0, <1>1 DEF Bounded
  <2> QED
    BY <1>1, <2>2, <2>3 DEF Bounded, InHand
<1>12. Shown'
  <2>1. w.status \notin {"Completed", "Failed"}
    BY <1>1 DEF IInv, Shown, InHand
  <2>2. CASE w' = w
    BY <1>1, <2>1, <2>2 DEF IInv, Shown, Crawling
  <2>3. CASE w' = Progress(results', blocked')
    <3>1. blocked' <= results' /\ results' <= Cardinality(visited')
      <4>1. TypeOK' /\ Counted' /\ Crawling'
        BY <1>1, <1>5, <1>8 DEF Crawling
      <4>2. (TypeOK /\ Counted /\ Crawling => blocked <= results /\ results <= Cardinality(visited))'
        BY Balance, PTL
      <4> QED
        BY <4>1, <4>2
    <3> QED
      BY <1>1, <2>3, <3>1 DEF Shown, Progress, Crawling
  <2> QED
    BY <1>7, <2>2, <2>3
<1> QED
  BY <1>5, <1>8, <1>9, <1>10, <1>11, <1>12 DEF IInv

-----------------------------------------------------------------------------
(* The invariant. *)

\* Every step keeps the invariant.
LEMMA Inductive == IInv /\ [Next]_vars => IInv'
<1> SUFFICES ASSUME IInv, [Next]_vars PROVE IInv'
  OBVIOUS
<1>1. CASE Wake \/ Stop \/ StoreHandle \/ BeginCancel \/ MarkCancelled \/ Evict
  BY <1>1, MoveStep, MarkStep
<1>2. CASE Task
  BY <1>2, MoveStep, MarkStep, SetupStep, PopStep, FetchedStep, AnswerStep, CompleteStep,
     BatchStep DEF Task
<1>3. CASE UNCHANGED vars
  <2>1. Moves
    BY <1>3 DEF IInv, TypeOK, Moves, vars, record
  <2> QED
    BY <2>1, MovesKeep
<1> QED
  BY <1>1, <1>2, <1>3 DEF Next

\* Books, bounds and channel are in order throughout.
THEOREM Invariance == Spec => []IInv
BY Initially, Inductive, PTL DEF Spec

-----------------------------------------------------------------------------
(* What follows. *)

\* No page is lost or taken twice, for any site and any links, and the counters
\* that are billed are those of the pages answered and refused (run_crawl).
THEOREM BooksBalance == Spec => []Bookkeeping
<1>1. IInv => Bookkeeping
  <2> SUFFICES ASSUME IInv, Crawling, pc \notin {"queued", "setup", "finish"} \cup Over
               PROVE  PagesAccounted
    BY DEF IInv, Bookkeeping, PagesAccounted, Crawling
  <2>1. /\ \A i, j \in DOMAIN queue : queue[i].page = queue[j].page => i = j
        /\ \A i \in DOMAIN queue : fate[queue[i].page] = "waiting"
        /\ \A p \in With({"waiting"}) : \E i \in DOMAIN queue : queue[i].page = p
        /\ \A p \in Pages : fate[p] = "in hand" <=> InHand /\ p = cur.page
    BY DEF IInv, Lined
  <2>2. /\ \A i \in DOMAIN queue : queue[i].page \in Pages
        /\ cur.page \in Pages
    BY QueueTyped DEF IInv
  <2>3. IsInjective(Waiting)
    BY <2>1 DEF IsInjective, Waiting
  <2>4. Range(Waiting) = With({"waiting"})
    <3>1. Range(Waiting) = {queue[i].page : i \in DOMAIN queue}
      BY DEF Range, Waiting
    <3> QED
      <4>1. ASSUME NEW p \in Range(Waiting) PROVE p \in With({"waiting"})
        <5>1. PICK i \in DOMAIN queue : p = queue[i].page
          BY <3>1
        <5>2. p \in Pages /\ fate[p] = "waiting"
          BY <2>1, <2>2, <5>1
        <5> QED
          BY <5>2 DEF With
      <4>2. ASSUME NEW p \in With({"waiting"}) PROVE p \in Range(Waiting)
        <5>1. PICK i \in DOMAIN queue : queue[i].page = p
          BY <2>1
        <5> QED
          BY <3>1, <5>1
      <4> QED
        BY <4>1, <4>2
  <2>5. With({"in hand"}) = IF InHand THEN {cur.page} ELSE {}
    <3>1. With({"in hand"}) = {p \in Pages : fate[p] = "in hand"}
      BY DEF With
    <3>2. CASE InHand
      <4>1. \A p \in Pages : fate[p] = "in hand" <=> p = cur.page
        BY <2>1, <3>2
      <4> QED
        BY <2>2, <3>1, <3>2, <4>1
    <3>3. CASE ~InHand
      <4>1. \A p \in Pages : fate[p] # "in hand"
        BY <2>1, <3>3
      <4> QED
        BY <3>1, <3>3, <4>1
    <3> QED
      BY <3>2, <3>3
  <2> QED
    BY <2>3, <2>4, <2>5 DEF IInv, Counted, PagesAccounted
<1> QED
  BY <1>1, Invariance, PTL

\* A crawl finds and answers no more than it may, no deeper than it may, and a
\* page is first found at its least depth (run_crawl).
THEOREM LimitsAreKept == Spec => []WithinLimits
<1>1. IInv => WithinLimits
  BY DEF IInv, Bounded, WithinLimits, Crawling
<1> QED
  BY <1>1, Invariance, PTL

\* What a poll shows agrees with itself, and "Completed" means that nothing was
\* left to do (run_crawl, run_batch).
THEOREM ReportsAreHonest == Spec => []ReportHonest
<1>1. IInv => ReportHonest
  BY DEF IInv, Shown, ReportHonest, ReportAgrees, CompletedWhole, Crawling, TypeOK,
     CrawlRequest, BatchRequest
<1> QED
  BY <1>1, Invariance, PTL

\* A verdict stays, but for the mark of a DELETE that had found the job running,
\* which the task of a batch never takes back.
THEOREM VerdictsAreKept == Spec => VerdictKept
<1>1. IInv /\ [Next]_vars => VerdictStep
  <2> SUFFICES ASSUME IInv, [Next]_vars PROVE VerdictStep
    OBVIOUS
  <2>1. CASE w' = w
    BY <2>1 DEF VerdictStep
  <2>2. CASE MarkCancelled
    BY <2>2 DEF IInv, TypeOK, Published, MarkCancelled, VerdictStep
  <2>3. CASE SetupFails \/ FetchFails \/ ExtractFails \/ Read \/ Complete
    <3>1. Crawling /\ pc # "ended"
      BY <2>3 DEF IInv, Placed, SetupFails, FetchFails, ExtractFails, Read, Complete, Over
    <3> QED
      BY <3>1 DEF IInv, Shown, VerdictStep, Crawling
  <2>4. CASE Document
    <3>1. ~Crawling /\ active > 0 /\ active \in Nat /\ todo \in Nat
      BY <2>4, RequestAssumption DEF IInv, TypeOK, Placed, Document, Over
    <3>2. CASE ~present
      BY <2>1, <2>4, <3>2 DEF Document, Send
    <3>3. CASE present
      <4>1. w.completed + (todo + active) = job.urls /\ w.completed \in Nat /\ job.urls \in Nat
        BY <3>1, <3>3, RequestAssumption
           DEF IInv, TypeOK, Shown, Published, Crawling, CrawlRequest, BatchRequest
      <4>2. w.completed # job.urls
        BY <3>1, <4>1
      <4>3. w.status \notin {"Completed", "Failed"}
        BY <3>1, <4>2 DEF IInv, Shown
      <4>4. w.status = "Cancelled" => w'.status = "Cancelled"
        BY <2>4, <3>3 DEF IInv, TypeOK, Published, Document, Send, AfterDocument
      <4> QED
        BY <4>3, <4>4 DEF VerdictStep
    <3> QED
      BY <3>2, <3>3
  <2>5. w' = w \/ \/ MarkCancelled \/ SetupFails \/ FetchFails \/ ExtractFails \/ Read
                  \/ Complete \/ Document
    <3>1. (Wake \/ Stop \/ StoreHandle \/ BeginCancel \/ Evict) => w' = w
      BY DEF Wake, Stop, StoreHandle, BeginCancel, Evict
    <3>2. (Acquire \/ SetupDone \/ Break \/ Skip \/ Pop \/ Fetched \/ Extracted \/ Launch
             \/ StreamEnds) => w' = w
      BY DEF Acquire, SetupDone, Break, Skip, Pop, Fetched, Extracted, Launch, StreamEnds
    <3>3. UNCHANGED vars => w' = w
      BY DEF vars
    <3> QED
      BY <3>1, <3>2, <3>3 DEF Next, Task
  <2> QED
    BY <2>1, <2>2, <2>3, <2>4, <2>5
<1> QED
  BY <1>1, Invariance, PTL DEF Spec, VerdictKept
=============================================================================
