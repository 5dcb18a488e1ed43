----------------------------- MODULE ExtractJobs -----------------------------
(***************************************************************************)
(* An asynchronous extract job of crw-server/src/state.rs: its record in   *)
(* the extract_jobs map, the worker that scrapes its URLs one by one, the  *)
(* requests that poll and cancel it, and the clean-up task.  Every step    *)
(* holds the map's write lock; the worker gives it up while it scrapes.    *)
(* Jobs share nothing but the map, so the model has one.                   *)
(***************************************************************************)
EXTENDS Integers

CONSTANTS
    N,          \* URLs in the job
    MaxCost     \* the most credits one scrape can cost

ASSUME JobAssumption == N \in Nat \ {0} /\ MaxCost \in Nat \ {0}

VARIABLES
    present,    \* the map has the record
    rec,        \* the record
    refused,    \* the URLs that failed preflight at admission
    wpc, at,    \* the worker: where it is, and at which URL
    expired,    \* created_at is at least the TTL ago
    cost        \* history: what each completed URL was measured to cost
vars == <<present, rec, refused, wpc, at, expired, cost>>

Urls == 1 .. N
Status == {"processing", "cancelling", "completed", "failed", "cancelled"}
Terminal == {"completed", "failed", "cancelled"}
NoUrl == 0
Record == [status : Status, claimed : 0 .. N, credits : Nat,
           results : [Urls -> Status \ {"cancelling"}]]

Init ==
    /\ present = TRUE
    /\ refused \in SUBSET Urls
    /\ rec = [status |-> "processing", claimed |-> NoUrl, credits |-> 0,
              results |-> [i \in Urls |->
                              IF i \in refused THEN "failed" ELSE "processing"]]
    /\ wpc = "next" /\ at = 1
    /\ expired = FALSE
    /\ cost = [i \in Urls |-> 0]

-----------------------------------------------------------------------------
(* The record. *)

Greatest(a, b) == IF a >= b THEN a ELSE b

\* The verdict of a job that ran to its end, with its one-credit floor.
CompleteFromOutcomes(r) ==
    LET ok == \E i \in Urls : r.results[i] = "completed"
    IN [r EXCEPT !.status = IF ok THEN "completed" ELSE "failed",
                 !.credits = Greatest(r.credits, 1)]

Cancelled(results) ==
    [i \in Urls |-> IF results[i] = "processing" THEN "cancelled" ELSE results[i]]

\* Mutant: the barrier does not wait for the URL under way.
M_FinishCancellation(r) ==
    CASE r.status # "cancelling" -> r
      [] r.status = "cancelling" /\ \E i \in Urls : r.results[i] = "processing" ->
            [r EXCEPT !.status = "cancelled", !.results = Cancelled(r.results)]
      [] OTHER -> CompleteFromOutcomes(r)

\* Mutant: a cancelled job is charged the floor too.
M_FinishCharged(r) ==
    CASE r.status # "cancelling" \/ r.claimed # NoUrl -> r
      [] /\ r.status = "cancelling" /\ r.claimed = NoUrl
         /\ \E i \in Urls : r.results[i] = "processing" ->
            [r EXCEPT !.status = "cancelled", !.results = Cancelled(r.results),
                      !.credits = Greatest(r.credits, 1)]
      [] OTHER -> CompleteFromOutcomes(r)

FinishCancellation(r) ==
    CASE r.status # "cancelling" \/ r.claimed # NoUrl -> r
      [] /\ r.status = "cancelling" /\ r.claimed = NoUrl
         /\ \E i \in Urls : r.results[i] = "processing" ->
            [r EXCEPT !.status = "cancelled", !.results = Cancelled(r.results)]
      [] OTHER -> CompleteFromOutcomes(r)

FinishProcessing(r) ==
    IF r.status = "processing" THEN CompleteFromOutcomes(r) ELSE FinishCancellation(r)

-----------------------------------------------------------------------------
(* The worker. *)

\* A URL that failed preflight is passed over.
Skip ==
    /\ wpc = "next" /\ at \in refused
    /\ at' = at + 1
    /\ UNCHANGED <<present, rec, refused, wpc, expired, cost>>

\* Claim the URL while the job is still wanted.  (The code also passes over a
\* URL that already has an answer; Answered in ExtractJobsProofs shows none has.)
Claim ==
    /\ wpc = "next" /\ at \in Urls \ refused
    /\ IF present /\ rec.status = "processing"
       THEN /\ rec' = [rec EXCEPT !.claimed = at]
            /\ wpc' = "scrape"
       ELSE /\ rec' = IF present THEN FinishCancellation(rec) ELSE rec
            /\ wpc' = "done"
    /\ UNCHANGED <<present, refused, at, expired, cost>>

Outcome == [status : {"completed"}, cost : 1 .. MaxCost]
           \cup [status : {"failed"}, cost : {0}]

Persisted(r, o) ==
    [r EXCEPT !.results = [@ EXCEPT ![at] = o.status],
              !.credits = @ + o.cost, !.claimed = NoUrl]

\* Mutant: the worker leaves the cancellation for somebody else to settle.
M_Persist ==
    /\ wpc = "scrape"
    /\ IF ~present \/ rec.status \in Terminal \/ rec.claimed # at
       THEN wpc' = "done" /\ UNCHANGED <<rec, at, cost>>
       ELSE \E o \in Outcome :
          /\ rec' = Persisted(rec, o)
          /\ cost' = [cost EXCEPT ![at] = o.cost]
          /\ IF rec.status = "cancelling"
             THEN wpc' = "done" /\ UNCHANGED at
             ELSE wpc' = "next" /\ at' = at + 1
    /\ UNCHANGED <<present, refused, expired>>

\* The scrape is over: store its result, and settle a cancellation that came
\* meanwhile; a record that is gone or has ended is left alone.
Persist ==
    /\ wpc = "scrape"
    /\ IF ~present \/ rec.status \in Terminal \/ rec.claimed # at
       THEN wpc' = "done" /\ UNCHANGED <<rec, at, cost>>
       ELSE \E o \in Outcome :
          /\ rec' = FinishCancellation(Persisted(rec, o))
          /\ cost' = [cost EXCEPT ![at] = o.cost]
          /\ IF rec.status = "cancelling"
             THEN wpc' = "done" /\ UNCHANGED at
             ELSE wpc' = "next" /\ at' = at + 1
    /\ UNCHANGED <<present, refused, expired>>

Finalize ==
    /\ wpc = "next" /\ at = N + 1
    /\ rec' = IF present THEN FinishProcessing(rec) ELSE rec
    /\ wpc' = "done"
    /\ UNCHANGED <<present, refused, at, expired, cost>>

Worker == Skip \/ Claim \/ Persist \/ Finalize

-----------------------------------------------------------------------------
(* Requests and the clean-up task. *)

Forget ==
    /\ present' = FALSE
    /\ UNCHANGED <<rec, refused, wpc, at, expired, cost>>

\* Mutant: DELETE does not look whether the job has ended.
M_Delete ==
    /\ present /\ ~expired
    /\ rec' = FinishCancellation([rec EXCEPT !.status = "cancelling"])
    /\ UNCHANGED <<present, refused, wpc, at, expired, cost>>

\* DELETE: cancel, at once when no URL is claimed; a second call changes
\* nothing, and one on an expired job removes it.
Delete ==
    /\ present /\ ~expired
    /\ rec' = FinishCancellation(
                 [rec EXCEPT !.status = IF @ = "processing" THEN "cancelling" ELSE @])
    /\ UNCHANGED <<present, refused, wpc, at, expired, cost>>

LookUpExpired == present /\ expired /\ Forget

Prune == present /\ expired /\ Forget

Expire ==
    /\ ~expired
    /\ expired' = TRUE
    /\ UNCHANGED <<present, rec, refused, wpc, at, cost>>

Next == Worker \/ Delete \/ LookUpExpired \/ Prune \/ Expire

Spec == Init /\ [][Next]_vars

\* Time passes.  Everything else may stop for ever, unless a property assumes
\* one of: tokio runs the worker, and a scrape ends by its deadline; the
\* clean-up task runs once a minute.
FairSpec == Spec /\ WF_vars(Expire)
WorkerFairness == WF_vars(Worker)
CleanupFairness == WF_vars(Prune)

-----------------------------------------------------------------------------
(* Properties. *)

TypeOK ==
    /\ present \in BOOLEAN
    /\ rec \in Record
    /\ refused \in SUBSET Urls
    /\ wpc \in {"next", "scrape", "done"}
    /\ at \in 1 .. N + 1
    /\ expired \in BOOLEAN
    /\ cost \in [Urls -> 0 .. MaxCost]

\* While the record exists, it says a URL is claimed exactly while the worker
\* scrapes that URL, the job has not ended, and the URL has no answer yet: a
\* cancellation can neither overtake the scrape nor wait for one nobody does.
ClaimMatchesWorker ==
    present =>
        IF wpc = "scrape"
        THEN /\ rec.claimed = at
             /\ rec.status \in {"processing", "cancelling"}
             /\ rec.results[at] = "processing"
        ELSE rec.claimed = NoUrl /\ rec.status # "cancelling"

\* The record has its types, and agrees with the worker.
RecordSound == TypeOK /\ ClaimMatchesWorker

\* The bill: a job that ran to its end costs what its URLs were measured to
\* cost, at least one credit; any other job exactly what was measured.  The
\* sum is a running total.
Bill(r, c) ==
    \E total \in [0 .. N -> 0 .. r.credits] :
        /\ total[0] = 0
        /\ \A i \in Urls : total[i] = total[i - 1] + c[i]
        /\ r.credits = IF r.status \in {"completed", "failed"}
                       THEN Greatest(total[N], 1) ELSE total[N]
CreditsExact == Bill(rec, cost)

\* A cancelled job settles while its worker runs: with the scrape under way
\* over, it does not stay "cancelling" until it expires.  And every job is
\* forgotten in the end, even one whose worker hangs for ever.
JobSettles ==
    /\ WorkerFairness => (rec.status = "cancelling" ~> rec.status # "cancelling" \/ ~present)
    /\ CleanupFairness => <>(~present)

\* What the job promises: see JobLifecycle.
Lifecycle == INSTANCE JobLifecycle
    WITH state <- IF present THEN rec.status ELSE "gone", answer <- rec.results
ImplementsLifecycle == Lifecycle!Spec
=============================================================================
