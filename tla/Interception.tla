---------------------------- MODULE Interception ----------------------------
(***************************************************************************)
(* One render on a connection of its own, crw-renderer/src/cdp.rs: every   *)
(* request the page makes is paused by the browser and answered, after its *)
(* destination was judged, by the interception pump; frames and workers    *)
(* attach held, and are let go once they are guarded; the pump is dropped  *)
(* when the page's work ends, and what it left is failed; the target is    *)
(* closed before the connection, by a reaper if the render was cancelled.  *)
(*                                                                         *)
(* A command is what CdpCalls promises of it: the browser carries it out   *)
(* or refuses it some time, or never; the caller gets that answer, or      *)
(* gives up at its timeout.  The browser's side is external.  The pooled   *)
(* path closes its target in BrowserPool instead.  A "worker" is a         *)
(* dedicated one; a service worker attaches or not, for the source says    *)
(* both; a shared worker never does and is outside the guard.              *)
(***************************************************************************)
EXTENDS Naturals, Sequences, FiniteSets

CONSTANTS
    Requests, Children, Page,
    RingSize    \* events a receiver may fall behind (1024)

ASSUME RenderAssumption ==
    /\ Page \notin Children /\ Requests \cap (Children \cup {Page}) = {}
    /\ RingSize \in Nat \ {0}

VARIABLES
    phase,      \* fetch_inner, then its caller
    outstanding, ours,  \* the pump's records: requests not answered, child sessions
    handler,    \* the pump's futures: what each child's and request's awaits
    ring,       \* events the pump has not received
    conn,       \* "up", "shut" once the render lets go of it, "ended", or "broken"
    wire, back, \* commands not served; answers not looked at, TRUE if it was carried out
    target, navigated,  \* the page's target exists; it was told to load the page
    guarded, watched,   \* sessions with Fetch enabled; with auto-attach
    child, home,        \* each child: its state and kind; the session it is under
    req, from,          \* each request: its state; the session that made it
    seen, allowed   \* history: requests the pump received; those it judged fit

pump == <<outstanding, ours, handler, seen>>
socket == <<conn, wire, back>>
page == <<target, navigated, guarded, watched, child, home, req, from>>
vars == <<phase, pump, ring, socket, page, allowed>>

Sessions == Children \cup {Page}
Things == Requests \cup Sessions
Commands == {"enable", "attach", "run", "close", "continue", "fail"} \X Things
Phases == {"enable", "attach", "work", "teardown", "close", "closing", "stuck",
           "reaping", "reap", "end", "dropped"}
Kinds == {"frame", "worker", "service"}
Down == conn \in {"ended", "broken"}

Init ==
    /\ phase = "enable"
    /\ outstanding = {} /\ ours = {}
    /\ handler = [x \in Requests \cup Children |-> "none"]
    /\ ring = <<>>
    /\ conn = "up" /\ wire = {} /\ back = {}
    /\ target = "open" /\ navigated = FALSE /\ guarded = {} /\ watched = {}
    /\ child = [k \in Children |-> [state |-> "none", kind |-> "frame"]]
    /\ home = [k \in Children |-> Page]
    /\ req = [r \in Requests |-> "none"]
    /\ from = [r \in Requests |-> Page]
    /\ seen = {} /\ allowed = {}

-----------------------------------------------------------------------------
(* The browser. *)

\* The pump listens from the moment the work begins until it is dropped; the
\* ring drops the oldest event when the pump is too far behind.
Emit(event) ==
    ring' = CASE phase # "work" \/ conn # "up" -> ring
              [] phase = "work" /\ conn = "up" /\ Len(ring) < RingSize -> Append(ring, event)
              [] OTHER -> Append(Tail(ring), event)

Runs(s) == IF s = Page THEN navigated ELSE child[s].state \in {"running", "loose"}

\* What a worker asks for pauses on the session of the page.
PausesOn(s) == IF s # Page /\ child[s].kind = "worker" THEN Page ELSE s

\* A page that was navigated, or a child, asks for something.
Ask(r, s) ==
    /\ target = "open"
    /\ req[r] = "none" /\ Runs(s)
    /\ from' = [from EXCEPT ![r] = PausesOn(s)]
    /\ IF PausesOn(s) \in guarded /\ ~Down
       THEN req' = [req EXCEPT ![r] = "paused"] /\ Emit(<<"paused", r>>)
       ELSE req' = [req EXCEPT ![r] = "free"] /\ UNCHANGED ring
    /\ UNCHANGED <<phase, pump, socket, target, navigated, guarded, watched, child, home, allowed>>

\* A page and a frame hold any kind of child, a dedicated worker its own kind.
Begets(s) ==
    IF s = Page \/ child[s].kind = "frame" THEN Kinds
    ELSE IF child[s].kind = "worker" THEN {"worker"} ELSE {}

\* Names are given in a fixed order: which child has which does not matter.
Fresh == CHOOSE k \in Children : child[k].state = "none"

\* A child begins: held, if the session above it has auto-attach, but that a
\* service worker may not attach to it.
Spawn(k, s, kind) ==
    /\ target = "open"
    /\ child[k].state = "none" /\ k = Fresh
    /\ Runs(s) /\ kind \in Begets(s)
    /\ home' = [home EXCEPT ![k] = s]
    /\ \/ /\ s \in watched /\ ~Down
          /\ child' = [child EXCEPT ![k] = [state |-> "held", kind |-> kind]]
          /\ Emit(<<"attached", k>>)
       \/ /\ s \notin watched \/ Down \/ kind = "service"
          /\ child' = [child EXCEPT ![k] = [state |-> "loose", kind |-> kind]]
          /\ UNCHANGED ring
    /\ UNCHANGED <<phase, pump, socket, target, navigated, guarded, watched, req, from, allowed>>

\* The target of a child, or of the page with all that is in it, is gone.
Die(s) ==
    LET under == IF s = Page THEN Children ELSE {s}
    IN /\ child' = [k \in Children |->
                       IF k \in under /\ child[k].state # "none"
                       THEN [child[k] EXCEPT !.state = "gone"] ELSE child[k]]
       /\ req' = [r \in Requests |->
                     IF req[r] = "paused" /\ from[r] \in under \cup {s} THEN "gone" ELSE req[r]]
       /\ target' = IF s = Page THEN "closed" ELSE target

\* The page drops a frame or a worker; of one whose parent went too, the same.
Vanish(k) ==
    /\ Runs(k) \/ child[k].state = "held"
    /\ Die(k)
    /\ UNCHANGED <<phase, pump, ring, socket, navigated, guarded, watched, home, from, allowed>>

Alive(x) ==
    IF x \in Requests THEN req[x] = "paused"
    ELSE target = "open" /\ (x \in Children => child[x].state \in {"held", "running"})

\* What a command does; it takes a thing that is still there.
Effect(cmd, x) ==
    CASE cmd = "enable" -> /\ guarded' = guarded \cup {x}
                           /\ UNCHANGED <<target, watched, child, req>>
      [] cmd = "attach" -> /\ watched' = watched \cup {x}
                           /\ UNCHANGED <<target, guarded, child, req>>
      [] cmd = "run" -> /\ child' = [child EXCEPT ![x].state = "running"]
                        /\ UNCHANGED <<target, guarded, watched, req>>
      [] cmd = "continue" -> /\ req' = [req EXCEPT ![x] = "sent"]
                             /\ UNCHANGED <<target, guarded, watched, child>>
      [] cmd = "fail" -> /\ req' = [req EXCEPT ![x] = "failed"]
                         /\ UNCHANGED <<target, guarded, watched, child>>
      [] cmd = "close" -> Die(x) /\ UNCHANGED <<guarded, watched>>

\* A worker has no Fetch domain.
CanTake(cmd, x) == Alive(x) /\ ~(cmd = "enable" /\ x \in Children /\ child[x].kind = "worker")

Awaits(x, cmd) ==
    x # Page /\ (handler[x] = cmd \/ (handler[x] = "resume" /\ cmd = "run"))

\* An answer nobody waits for is dropped.
Reply(cmd, x, done) == back' = IF Awaits(x, cmd) THEN back \cup {<<x, done>>} ELSE back

Serve(cmd, x) ==
    /\ ~Down /\ <<cmd, x>> \in wire
    /\ wire' = wire \ {<<cmd, x>>}
    /\ \/ CanTake(cmd, x) /\ Effect(cmd, x) /\ Reply(cmd, x, TRUE)
       \/ /\ ~CanTake(cmd, x) \/ cmd \in {"enable", "attach"}
          /\ Reply(cmd, x, FALSE)
          /\ UNCHANGED <<target, guarded, watched, child, req>>
    /\ UNCHANGED <<phase, pump, ring, conn, navigated, home, from, allowed>>

\* A session that is detached releases what it held.
Release(how) ==
    /\ conn' = how /\ wire' = {}
    /\ req' = [r \in Requests |-> IF req[r] = "paused" THEN "free" ELSE req[r]]
    /\ child' = [k \in Children |-> IF child[k].state = "held"
                                    THEN [child[k] EXCEPT !.state = "loose"] ELSE child[k]]
    /\ UNCHANGED <<phase, pump, ring, back, target, navigated, guarded, watched, home,
                   from, allowed>>

Break == ~Down /\ Release("broken")

\* The browser sees the end of the socket after all that was written to it.
Detach == conn = "shut" /\ wire = {} /\ Release("ended")

-----------------------------------------------------------------------------
(* Commands, as their callers see them. *)

Send(cmds) == wire' = IF conn = "up" THEN wire \cup cmds ELSE wire

\* What the handler of x awaits was carried out; was refused; was not carried
\* out, as far as it is told: refused, timed out, or the connection is down.
Ok(x) == <<x, TRUE>> \in back
Refused(x) == <<x, FALSE>> \in back
NotOk(x) == ~Ok(x)

-----------------------------------------------------------------------------
(* fetch_inner up to the work. *)

\* Without the guard the page is not loaded.
EnableFetch ==
    /\ phase = "enable"
    /\ \/ conn = "up" /\ guarded' = guarded \cup {Page} /\ phase' = "attach"
       \/ guarded' \in {guarded, guarded \cup {Page}} /\ phase' = "close"
    /\ UNCHANGED <<pump, ring, socket, target, navigated, watched, child, home, req, from,
                   allowed>>

\* Best effort; then the page is told to load, with the pump listening.
AutoAttach ==
    /\ phase = "attach"
    /\ watched' \in {watched} \cup (IF conn = "up" THEN {watched \cup {Page}} ELSE {})
    /\ phase' = "work" /\ navigated' = TRUE
    /\ UNCHANGED <<pump, ring, socket, target, guarded, child, home, req, from, allowed>>


-----------------------------------------------------------------------------
(* The pump, which is polled while the work goes on. *)

IsOurs(s) == s = Page \/ s \in ours

\* A paused request is recorded before its handler takes it; a child session
\* is remembered before its handler guards it.  An event of a session that is
\* not ours is left alone.
Receive ==
    /\ phase = "work" /\ ring # <<>>
    /\ LET kind == Head(ring)[1]  x == Head(ring)[2]
       IN \/ /\ kind = "paused" /\ IsOurs(from[x])
             /\ outstanding' = outstanding \cup {x}
             /\ handler' = [handler EXCEPT ![x] = "check"]
             /\ seen' = seen \cup {x}
             /\ UNCHANGED <<ours, wire>>
          \/ /\ kind = "attached" /\ IsOurs(home[x])
             /\ ours' = ours \cup {x}
             /\ handler' = [handler EXCEPT ![x] = "enable"]
             /\ Send({<<"enable", x>>})
             /\ UNCHANGED <<outstanding, seen>>
          \/ /\ ~IsOurs(IF kind = "paused" THEN from[x] ELSE home[x])
             /\ UNCHANGED <<pump, wire>>
    /\ ring' = Tail(ring)
    /\ UNCHANGED <<phase, conn, back, page, allowed>>

At(x, step) == phase = "work" /\ handler[x] = step
Then(x, step) ==
    /\ handler' = [handler EXCEPT ![x] = step]
    /\ back' = back \ {<<x, TRUE>>, <<x, FALSE>>}

\* Mutant: a check that runs out of its budget lets the request go.
M_Judge(r) ==
    /\ At(r, "check")
    /\ \/ allowed' = allowed \cup {r} /\ Then(r, "continue") /\ Send({<<"continue", r>>})
       \/ UNCHANGED allowed /\ Then(r, "continue") /\ Send({<<"continue", r>>})
    /\ UNCHANGED <<phase, outstanding, ours, seen, ring, conn, page>>

\* The blocklist, or the check of the destination, which fails closed when its
\* budget is spent.
Judge(r) ==
    /\ At(r, "check")
    /\ \/ allowed' = allowed \cup {r} /\ Then(r, "continue") /\ Send({<<"continue", r>>})
       \/ UNCHANGED allowed /\ Then(r, "fail") /\ Send({<<"fail", r>>})
    /\ UNCHANGED <<phase, outstanding, ours, seen, ring, conn, page>>

\* Mutant: an answer that was sent is taken for given.
M_Settled(r) == outstanding \ {r}

\* Forgotten only once the browser has taken the answer.
Settled(r) == IF Ok(r) THEN outstanding \ {r} ELSE outstanding

Answered(r) ==
    /\ \E how \in {"continue", "fail"} : At(r, how)
    /\ outstanding' = Settled(r)
    /\ Then(r, "done")
    /\ UNCHANGED <<phase, ours, seen, ring, conn, wire, page, allowed>>

\* Mutant: the frame is let go whatever became of the guard.
M_MayResume(k) == TRUE

\* What can be let go without a guard of its own: a worker that has no Fetch.
MayResume(k) == child[k].kind = "worker" /\ Refused(k)

Guarded(k) ==
    /\ At(k, "enable") /\ Ok(k)
    /\ Then(k, "attach") /\ Send({<<"attach", k>>})
    /\ UNCHANGED <<phase, outstanding, ours, seen, ring, conn, page, allowed>>

\* Whether its own children will attach is not looked at.
LetGo(k) ==
    /\ At(k, "attach")
    /\ Then(k, "done") /\ Send({<<"run", k>>})
    /\ UNCHANGED <<phase, outstanding, ours, seen, ring, conn, page, allowed>>

Unguarded(k) ==
    /\ At(k, "enable") /\ NotOk(k)
    /\ IF MayResume(k)
       THEN Then(k, "resume") /\ Send({<<"run", k>>})
       ELSE Then(k, "done") /\ Send({<<"close", k>>})
    /\ UNCHANGED <<phase, outstanding, ours, seen, ring, conn, page, allowed>>

Resumed(k) ==
    /\ At(k, "resume")
    /\ Then(k, "done")
    /\ IF Ok(k) THEN UNCHANGED wire ELSE Send({<<"close", k>>})
    /\ UNCHANGED <<phase, outstanding, ours, seen, ring, conn, page, allowed>>

Handle ==
    \/ \E r \in Requests : Judge(r) \/ Answered(r)
    \/ \E k \in Children : Guarded(k) \/ LetGo(k) \/ Unguarded(k) \/ Resumed(k)

-----------------------------------------------------------------------------
(* The end of the render. *)

DropPump ==
    /\ handler' = [x \in DOMAIN handler |-> "none"]
    /\ ring' = <<>> /\ back' = {}

\* Mutant: the futures of the pump are joined, not dropped.
M_WorkEnds ==
    /\ phase = "work"
    /\ \A x \in DOMAIN handler : handler[x] \in {"none", "done"}
    /\ phase' = "teardown"
    /\ DropPump
    /\ UNCHANGED <<outstanding, ours, seen, conn, wire, page, allowed>>

\* The work is over, one way or another; the pump goes with its futures and
\* the events it had not received.
WorkEnds ==
    /\ phase = "work"
    /\ phase' = "teardown"
    /\ DropPump
    /\ UNCHANGED <<outstanding, ours, seen, conn, wire, page, allowed>>

\* What was left is failed, all at once, for two seconds at most.
FailLeftover(r) ==
    /\ phase = "teardown" /\ r \in outstanding
    /\ handler[r] = "none"
    /\ Then(r, "fail") /\ Send({<<"fail", r>>})
    /\ UNCHANGED <<phase, outstanding, ours, seen, ring, conn, page, allowed>>

TeardownEnds ==
    /\ phase = "teardown"
    /\ phase' = "close"
    /\ UNCHANGED <<pump, ring, socket, page, allowed>>

\* The id leaves its slot and the close is written, unless the browser has
\* stopped reading.
CloseTarget ==
    /\ phase = "close"
    /\ \/ Send({<<"close", Page>>}) /\ phase' = "closing"
       \/ UNCHANGED wire /\ phase' = "stuck"
    /\ UNCHANGED <<pump, ring, conn, back, page, allowed>>

Unstick ==
    /\ phase = "stuck"
    /\ Send({<<"close", Page>>}) /\ phase' = "closing"
    /\ UNCHANGED <<pump, ring, conn, back, page, allowed>>

HangUp == conn' = IF conn = "up" THEN "shut" ELSE conn

\* Closed, refused or timed out: the connection is closed behind it.
CloseConnection ==
    /\ phase \in {"closing", "reap"}
    /\ HangUp /\ phase' = "end"
    /\ UNCHANGED <<pump, ring, wire, back, page, allowed>>

\* Mutant: nothing closes the target of a cancelled render.
M_Cancel ==
    /\ phase \in {"enable", "attach", "work", "teardown"}
    /\ phase' = "reap" /\ DropPump
    /\ UNCHANGED <<outstanding, ours, seen, conn, wire, page, allowed>>

\* The render is dropped at an await, and its reaper takes the connection to a
\* task of its own ...
Cancel ==
    /\ phase \in {"enable", "attach", "work", "teardown"}
    /\ phase' = "reaping" /\ DropPump
    /\ UNCHANGED <<outstanding, ours, seen, conn, wire, page, allowed>>

\* ... which writes the close once the browser reads, however long that takes,
Reap ==
    /\ phase = "reaping"
    /\ phase' = "reap" /\ Send({<<"close", Page>>})
    /\ UNCHANGED <<pump, ring, conn, back, page, allowed>>

\* unless the id was already taken: the connection goes with the render,
\* and with it a close that was not written.
CancelLate ==
    /\ phase \in {"closing", "stuck"}
    /\ HangUp /\ phase' = IF phase = "stuck" THEN "dropped" ELSE "end"
    /\ UNCHANGED <<pump, ring, wire, back, page, allowed>>

Render ==
    \/ EnableFetch \/ AutoAttach
    \/ WorkEnds \/ (\E r \in Requests : FailLeftover(r)) \/ TeardownEnds
    \/ CloseTarget \/ Unstick \/ CloseConnection

Browser ==
    \/ \E r \in Requests, s \in Sessions : Ask(r, s)
    \/ \E k \in Children, s \in Sessions, kind \in Kinds : Spawn(k, s, kind)
    \/ \E k \in Children : Vanish(k)
    \/ \E c \in wire : Serve(c[1], c[2])

Next == Render \/ Receive \/ Handle \/ Cancel \/ Reap \/ CancelLate \/ Browser \/ Break \/ Detach

Spec == Init /\ [][Next]_vars

\* Every step of fetch_inner has a deadline, and a cancellation ends the last
\* one; the browser sees the socket end.  Nothing else is promised.
FairSpec ==
    /\ Spec
    /\ WF_vars(Render) /\ WF_vars(phase = "stuck" /\ CancelLate)
    /\ WF_vars(Detach)

-----------------------------------------------------------------------------
(* Properties. *)

States == {"none", "held", "running", "loose", "gone"}
Steps == {"none", "check", "continue", "fail", "enable", "attach", "resume", "done"}
Events == {"paused"} \X Requests \cup {"attached"} \X Children

TypeOK ==
    /\ phase \in Phases
    /\ outstanding \subseteq Requests /\ ours \subseteq Children
    /\ handler \in [Requests \cup Children -> Steps]
    /\ ring \in Seq(Events) /\ Len(ring) <= RingSize
    /\ conn \in {"up", "shut", "ended", "broken"}
    /\ wire \subseteq Commands /\ back \subseteq (Requests \cup Children) \X BOOLEAN
    /\ target \in {"open", "closed"} /\ navigated \in BOOLEAN
    /\ guarded \subseteq Sessions /\ watched \subseteq Sessions
    /\ child \in [Children -> [state : States, kind : Kinds]]
    /\ home \in [Children -> Sessions]
    /\ req \in [Requests -> {"none", "paused", "sent", "failed", "free", "gone"}]
    /\ from \in [Requests -> Sessions]
    /\ seen \subseteq Requests /\ allowed \subseteq Requests

\* No request of the page, of a frame or of a worker leaves the browser without
\* having been judged fit, whatever is late, lost or cancelled; as long as the
\* connection is there, only a child that never attached escapes, and of those
\* only a dedicated worker is judged with the page.
NothingUnjudged ==
    \A r \in Requests :
        /\ req[r] = "sent" => r \in allowed
        /\ req[r] = "free" => Down \/ (from[r] # Page /\ from[r] \notin guarded)

\* A child that attached, but for a dedicated worker, runs only with its own
\* guard on.
FramesGuarded ==
    \A k \in Children :
        child[k].state = "running" /\ child[k].kind # "worker" => k \in guarded

\* A request the pump has received stays on record as long as the browser holds
\* it, so that teardown fails it.
RecordsCover == \A r \in seen : req[r] = "paused" => r \in outstanding

\* The render has its types, and its records cover what it has received.
RenderSound == TypeOK /\ RecordsCover

\* The connection ends after the target: it releases nothing, unless the render
\* was dropped while the close could not be written.
ClosedBeforeDetach ==
    [][conn' = "ended" /\ conn # "ended" /\ phase # "dropped" =>
          req' = req /\ child' = child]_vars

\* If the browser reads and serves, what the reaper writes included, no request
\* stays paused for ever: one whose event was dropped, or whose answer was lost,
\* dies with its target.
PausedResolved ==
    []<>(wire = {} /\ phase # "reaping") => \A r \in Requests : req[r] = "paused" ~> req[r] # "paused"
=============================================================================
