------------------------------ MODULE CrawlJobs ------------------------------
(***************************************************************************)
(* A crawl or batch job of crw-server/src/state.rs: its record in the      *)
(* crawl_jobs map, the watch channel its task publishes through, the task  *)
(* itself (the breadth-first loop of crw-crawl/src/crawl.rs, or the        *)
(* concurrent stream of a batch), DELETE, and the clean-up task.           *)
(*                                                                         *)
(* Jobs share the map, a semaphore of crawl permits and, batches, one of   *)
(* pipeline permits; neither is ever closed, and their permits come back   *)
(* with the futures that hold them.  The model has one job, for which the  *)
(* others are the time it waits for its permits.                           *)
(*                                                                         *)
(* tokio's abort() takes effect when the task next yields: a task that is  *)
(* being polled (run) goes on through every await whose result is ready,   *)
(* on its own thread, while DELETE writes on another.                      *)
(***************************************************************************)
EXTENDS Integers, Sequences, FiniteSets, Functions

CONSTANTS
    Pages, Seed,    \* what links can lead to (canonical URLs); where a crawl begins
    MaxPages, MaxDepth, MaxUrls     \* bounds on what a request asks for

ASSUME SiteAssumption == Seed \in Pages /\ IsFiniteSet(Pages)
ASSUME RequestAssumption == MaxPages \in Nat /\ MaxDepth \in Nat /\ MaxUrls \in Nat \ {0}

VARIABLES
    job,        \* the request: kind, and max_pages, max_depth or the URLs and the width
    present,    \* the map has the record
    w,          \* the value in the watch channel
    handle,     \* the record's abort handle; "taken": abort() was called
    del,        \* a DELETE has read the status and holds the map's write lock
    pc, run,    \* the task: where it is, and whether a thread is polling it
    visited, queue, cur,    \* the crawl loop's set, queue and page in hand
    results, blocked,       \* results.len() and the count of refused pages
    todo, active,           \* a batch's URLs not begun, and under way
    fate        \* history: what became of each page

loop == <<visited, queue, cur, results, blocked, fate>>
stream == <<todo, active>>
record == <<present, handle, del>>
vars == <<job, record, w, pc, run, loop, stream>>

Ended == {"Completed", "Failed", "Cancelled"}
Status == Ended \cup {"InProgress"}
Published == [status : Status, total : Nat, completed : Nat, blocked : Nat, docs : Nat]
Fates == {"new", "waiting", "in hand", "skipped", "read", "refused"}
Entry == [page : Pages, depth : 0 .. MaxDepth]
Over == {"ended", "stopped"}

CrawlRequest == [kind : {"crawl"}, limit : 0 .. MaxPages, deep : 0 .. MaxDepth,
                 urls : {0}, width : {1}]
BatchRequest == [kind : {"batch"}, limit : {0}, deep : {0},
                 urls : 1 .. MaxUrls, width : 1 .. MaxUrls]

\* The record is in the map and the task spawned; the abort handle is stored
\* afterwards, and GET /v2/crawl/active shows the id before that.
Init ==
    /\ job \in CrawlRequest \cup BatchRequest
    /\ present = TRUE /\ handle = "none" /\ del = FALSE
    /\ w = [status |-> "InProgress", total |-> job.urls, completed |-> 0,
            blocked |-> 0, docs |-> 0]
    /\ pc = "queued" /\ run = FALSE
    /\ visited = {} /\ queue = <<>> /\ cur = [page |-> Seed, depth |-> 0]
    /\ results = 0 /\ blocked = 0
    /\ todo = job.urls /\ active = 0
    /\ fate = [p \in Pages |-> "new"]

-----------------------------------------------------------------------------
(* The task under tokio. *)

\* The task reaches an await: its result is ready, or the thread leaves it.
Await(at) == pc' = at /\ run' \in BOOLEAN

Return == pc' = "ended" /\ run' = FALSE

\* What is awaited has come: permit, page, extraction or answer.
Wake ==
    /\ pc \notin Over /\ ~run
    /\ handle # "taken"
    /\ run' = TRUE
    /\ UNCHANGED <<job, record, w, pc, loop, stream>>

\* An aborted task is dropped, with its permits, once no thread polls it.
Stop ==
    /\ pc \notin Over /\ ~run
    /\ handle = "taken"
    /\ pc' = "stopped"
    /\ UNCHANGED <<job, record, w, run, loop, stream>>

\* A send fails, and leaves the value alone, once the record is gone.
Send(v) == w' = IF present THEN v ELSE w

\* A crawl permit.  (The arm for an empty batch is left out: both handlers
\* refuse one.)
Acquire ==
    /\ run /\ pc = "queued"
    /\ Await(IF job.kind = "crawl" THEN "setup" ELSE "stream")
    /\ UNCHANGED <<job, record, w, loop, stream>>

-----------------------------------------------------------------------------
(* The crawl loop. *)

\* A bad proxy list, URL, address or proxy fails the job.
SetupFails ==
    /\ run /\ pc = "setup"
    /\ Send([status |-> "Failed", total |-> 0, completed |-> 0, blocked |-> 0, docs |-> 0])
    /\ Return
    /\ UNCHANGED <<job, record, loop, stream>>

\* The rules of robots.txt are there, or are taken to be empty.
SetupDone ==
    /\ run /\ pc = "setup"
    /\ pc' = "loop"
    /\ visited' = {Seed}
    /\ queue' = <<[page |-> Seed, depth |-> 0]>>
    /\ fate' = [fate EXCEPT ![Seed] = "waiting"]
    /\ UNCHANGED <<job, record, w, run, cur, results, blocked, stream>>

\* Mutant: the loop stops once it has found as many pages as it may answer.
M_Full == Cardinality(visited) >= job.limit

Full == results >= job.limit

\* Enough pages: the rest of the queue is left.
Break ==
    /\ run /\ pc = "loop" /\ queue # <<>>
    /\ Full
    /\ queue' = Tail(queue) /\ pc' = "finish"
    /\ UNCHANGED <<job, record, w, run, visited, cur, results, blocked, fate, stream>>

\* robots.txt forbids the page: it is passed over and counted nowhere.
Skip ==
    /\ run /\ pc = "loop" /\ queue # <<>>
    /\ ~Full
    /\ queue' = Tail(queue)
    /\ fate' = [fate EXCEPT ![Head(queue).page] = "skipped"]
    /\ UNCHANGED <<job, record, w, pc, run, visited, cur, results, blocked, stream>>

Pop ==
    /\ run /\ pc = "loop" /\ queue # <<>>
    /\ ~Full
    /\ queue' = Tail(queue) /\ cur' = Head(queue)
    /\ fate' = [fate EXCEPT ![Head(queue).page] = "in hand"]
    /\ Await("fetch")
    /\ UNCHANGED <<job, record, w, visited, results, blocked, stream>>

Progress(completed, refused) ==
    [status |-> "InProgress", total |-> Cardinality(visited), completed |-> completed,
     blocked |-> refused, docs |-> 0]

\* A page that could not be read is answered with a placeholder, not billed.
Refuse ==
    /\ results' = results + 1 /\ blocked' = blocked + 1
    /\ fate' = [fate EXCEPT ![cur.page] = "refused"]
    /\ Send(Progress(results + 1, blocked + 1))
    /\ pc' = "loop"
    /\ UNCHANGED <<job, record, run, visited, queue, cur, stream>>

\* Mutant: a page that did not answer goes back to the queue.
M_FetchFails ==
    /\ run /\ pc = "fetch"
    /\ queue' = Append(queue, cur)
    /\ fate' = [fate EXCEPT ![cur.page] = "waiting"]
    /\ pc' = "loop"
    /\ UNCHANGED <<job, record, w, run, visited, cur, results, blocked, stream>>

\* No answer, a wall, or a CDN that could not reach the origin.
FetchFails == run /\ pc = "fetch" /\ Refuse

\* Mutant: pages already found are not left out.
M_Discoveries ==
    IF cur.depth >= job.deep THEN {<<>>}
    ELSE {s \in UNION {[1 .. n -> Pages] : n \in 0 .. job.limit - Cardinality(visited)} :
            IsInjective(s)}

\* Mutant: the bound is not applied to what is found.
M_AllDiscoveries ==
    IF cur.depth >= job.deep THEN {<<>>}
    ELSE {s \in UNION {[1 .. n -> Pages \ visited] : n \in 0 .. Cardinality(Pages)} :
            IsInjective(s)}

\* The links a page can add to the queue: any, in any order, that are safe, of
\* the same origin and not assets (which Pages are), not found before, and no
\* more than there is room for.
Discoveries ==
    IF cur.depth >= job.deep THEN {<<>>}
    ELSE {s \in UNION {[1 .. n -> Pages \ visited] :
                          n \in 0 .. job.limit - Cardinality(visited)} :
            IsInjective(s)}

\* The page is there; its links are queued before it is extracted.
Fetched ==
    /\ run /\ pc = "fetch"
    /\ \E links \in Discoveries :
          /\ visited' = visited \cup Range(links)
          /\ queue' = queue \o [i \in DOMAIN links |->
                                   [page |-> links[i], depth |-> cur.depth + 1]]
          /\ fate' = [p \in Pages |-> IF p \in Range(links) THEN "waiting" ELSE fate[p]]
    /\ Await("extract")
    /\ UNCHANGED <<job, record, w, cur, results, blocked, stream>>

\* Extraction or PDF conversion failed, or the page is a wall or an error page.
ExtractFails == run /\ pc = "extract" /\ Refuse

Answer ==
    /\ results' = results + 1
    /\ fate' = [fate EXCEPT ![cur.page] = "read"]
    /\ Send(Progress(results + 1, blocked))
    /\ pc' = "loop"
    /\ UNCHANGED <<job, record, run, visited, queue, cur, blocked, stream>>

\* Only a page that was read goes to the model, when a schema asks for it.
Extracted ==
    /\ run /\ pc = "extract"
    /\ Await("llm")
    /\ UNCHANGED <<job, record, w, loop, stream>>

Read == run /\ pc \in {"extract", "llm"} /\ Answer

\* The documents go out once, with the verdict.
Complete ==
    /\ run
    /\ pc = "finish" \/ (pc = "loop" /\ queue = <<>>)
    /\ Send([Progress(results, blocked) EXCEPT !.status = "Completed", !.docs = results])
    /\ Return
    /\ UNCHANGED <<job, record, loop, stream>>

-----------------------------------------------------------------------------
(* The batch stream: up to width scrapes at once, polled by the one task. *)

Launch ==
    /\ run /\ pc = "stream"
    /\ todo > 0 /\ active < job.width
    /\ todo' = todo - 1 /\ active' = active + 1
    /\ Await("stream")
    /\ UNCHANGED <<job, record, w, loop>>

\* Mutant: the verdict comes with the document before the last.
M_AfterDocument(v) ==
    [v EXCEPT !.status = IF v.completed + 1 >= v.total /\ @ = "InProgress"
                         THEN "Completed" ELSE @]

AfterDocument(v) ==
    [v EXCEPT !.status = IF v.completed >= v.total /\ @ = "InProgress"
                         THEN "Completed" ELSE @]

\* A scrape is over; the record is modified in place.
Document ==
    /\ run /\ pc = "stream" /\ active > 0
    /\ active' = active - 1
    /\ \E refused \in {0, 1} :
          Send(AfterDocument([w EXCEPT !.docs = @ + 1, !.completed = @ + 1,
                                       !.blocked = @ + refused]))
    /\ Await("stream")
    /\ UNCHANGED <<job, record, loop, todo>>

StreamEnds ==
    /\ run /\ pc = "stream" /\ todo = 0 /\ active = 0
    /\ Return
    /\ UNCHANGED <<job, record, w, loop, stream>>

Task ==
    \/ Acquire
    \/ SetupFails \/ SetupDone
    \/ Break \/ Skip \/ Pop
    \/ FetchFails \/ Fetched
    \/ ExtractFails \/ Extracted \/ Read
    \/ Complete
    \/ Launch \/ Document \/ StreamEnds

-----------------------------------------------------------------------------
(* The requests and the clean-up task. *)

StoreHandle ==
    /\ handle = "none" /\ ~del /\ present
    /\ handle' = "kept"
    /\ UNCHANGED <<job, present, del, w, pc, run, loop, stream>>

\* DELETE under the map's write lock, which the task never takes: it reads the
\* status and aborts the task if it has a handle ...
BeginCancel ==
    /\ present /\ ~del
    /\ w.status \notin Ended
    /\ handle' = IF handle = "kept" THEN "taken" ELSE handle
    /\ del' = TRUE
    /\ UNCHANGED <<job, present, w, pc, run, loop, stream>>

\* ... and marks the job, whatever the task wrote meanwhile.
MarkCancelled ==
    /\ del
    /\ w' = [w EXCEPT !.status = "Cancelled"]
    /\ del' = FALSE
    /\ UNCHANGED <<job, present, handle, pc, run, loop, stream>>

\* An ended job may be past its TTL, which runs from its creation, at any time.
Evict ==
    /\ present /\ ~del
    /\ w.status \in Ended
    /\ present' = FALSE
    /\ UNCHANGED <<job, handle, del, w, pc, run, loop, stream>>

Next == Wake \/ Stop \/ Task \/ StoreHandle \/ BeginCancel \/ MarkCancelled \/ Evict

Spec == Init /\ [][Next]_vars

\* tokio polls ready tasks and drops aborted ones; permits come back and every
\* fetch, extraction and model call has a deadline; a handler that has begun
\* ends; the clean-up task wakes for ever.
FairSpec ==
    /\ Spec
    /\ WF_vars(Task) /\ WF_vars(Wake) /\ WF_vars(Stop)
    /\ WF_vars(StoreHandle) /\ WF_vars(MarkCancelled) /\ WF_vars(Evict)

-----------------------------------------------------------------------------
(* Properties. *)

TypeOK ==
    /\ job \in CrawlRequest \cup BatchRequest
    /\ present \in BOOLEAN /\ del \in BOOLEAN /\ run \in BOOLEAN
    /\ handle \in {"none", "kept", "taken"}
    /\ w \in Published
    /\ pc \in {"queued", "setup", "loop", "fetch", "extract", "llm", "finish", "stream"}
              \cup Over
    /\ visited \in SUBSET Pages /\ queue \in Seq(Entry) /\ cur \in Entry
    /\ results \in Nat /\ blocked \in Nat
    /\ todo \in 0 .. MaxUrls /\ active \in 0 .. MaxUrls
    /\ fate \in [Pages -> Fates]

With(fates) == {p \in Pages : fate[p] \in fates}
Waiting == [i \in DOMAIN queue |-> queue[i].page]
InHand == pc \in {"fetch", "extract", "llm"}

\* No page is lost and none is taken twice: what was found is the pages queued,
\* in hand, forbidden and answered; the queue holds each waiting page once; and
\* the counters that are billed are those of the pages answered and refused.
PagesAccounted ==
    job.kind = "crawl" /\ pc \notin {"queued", "setup", "finish"} \cup Over =>
        /\ visited = Pages \ With({"new"})
        /\ IsInjective(Waiting) /\ Range(Waiting) = With({"waiting"})
        /\ With({"in hand"}) = IF InHand THEN {cur.page} ELSE {}
        /\ results = Cardinality(With({"read", "refused"}))
        /\ blocked = Cardinality(With({"refused"}))

\* The task has its types and its books are in order.
Bookkeeping == TypeOK /\ PagesAccounted

\* The crawl stays within what was asked: pages found and pages answered within
\* max_pages (the seed is always found), no page deeper than max_depth, and the
\* queue in breadth-first order, so that a page is first found at its least depth.
WithinLimits ==
    job.kind = "crawl" =>
        /\ Cardinality(visited) <= job.limit \/ visited \subseteq {Seed}
        /\ results <= job.limit
        /\ \A i \in DOMAIN queue : queue[i].depth <= job.deep
        /\ \A i, j \in DOMAIN queue : i <= j => queue[i].depth <= queue[j].depth
        /\ InHand => \A i \in DOMAIN queue :
                        cur.depth <= queue[i].depth /\ queue[i].depth <= cur.depth + 1

\* What a poll shows agrees with itself: pages refused within pages answered
\* within pages known, and the verdict comes with a document for every page
\* that is counted.
ReportAgrees ==
    /\ w.blocked <= w.completed /\ w.completed <= w.total
    /\ w.status = "Completed" \/ job.kind = "batch" => w.docs = w.completed

\* A job is reported completed only when nothing is left to do: every URL of a
\* batch has its document; a crawl has answered as many pages as it may, or has
\* no page it found and neither answered nor skipped.
CompletedWhole ==
    w.status = "Completed" =>
        IF job.kind = "batch" THEN w.completed = job.urls
        ELSE w.completed >= job.limit \/ With({"waiting", "in hand"}) = {}

\* What a poll shows can be relied on.
ReportHonest == ReportAgrees /\ CompletedWhole

\* A job that has ended stays as it is, except that a DELETE which had found it
\* running may still call it cancelled; its pages and counters stay.  And the
\* task of a batch never overwrites the Cancelled that DELETE wrote.
VerdictStep ==
    /\ w.status \in {"Completed", "Failed"} =>
          w' = w \/ (del /\ w' = [w EXCEPT !.status = "Cancelled"])
    /\ job.kind = "batch" /\ w.status = "Cancelled" => w'.status = "Cancelled"
VerdictKept == [][VerdictStep]_vars

\* The task ends, whatever the site links to and whenever it is cancelled; and
\* the record of a batch, and of a crawl whose task nobody aborted, is evicted
\* in the end.
JobEnds ==
    /\ <>(pc \in Over)
    /\ job.kind = "batch" \/ [](handle # "taken") => <>~present

\* What the comment of DELETE says: a job it marked can be evicted and does not
\* report that it is scraping for ever.
CancelledEvicted == w.status = "Cancelled" ~> ~present
=============================================================================
