------------------------------ MODULE CdpConn ------------------------------
(***************************************************************************)
(* One WebSocket connection to a browser, crw-renderer/src/cdp_conn.rs:    *)
(* the tasks that call send_recv on it, its event loop, close() and Drop.  *)
(* Shared are the closed flag, the map from command ids to the waiting     *)
(* callers, and the writing half of the socket behind a fair mutex.        *)
(*                                                                         *)
(* An id is taken from a counter and never used again, so a call is its    *)
(* id.  What the browser does, and what the socket loses, is external.     *)
(***************************************************************************)
EXTENDS Naturals, Sequences, FiniteSets, SequencesExt

CONSTANTS
    Calls,  \* the calls made in the connection's life
    Closer  \* the task that closes it

ASSUME CallsAssumption == IsFiniteSet(Calls) /\ Closer \notin Calls

VARIABLES
    flag,       \* is_closed
    pending,    \* the ids in the map
    lock,       \* the mutex of the writing half: its holder and those behind
    sink,       \* the writing half: "open", or "shut" by a close frame
    pc, rx,     \* each call: where it is, what is in its oneshot channel
    closer,     \* close()
    loop,       \* the event loop
    unread, keys,   \* the drain: ids not looked for yet, ids found
    stalled,    \* the browser does not read, and the socket's buffer is full
    wire,       \* commands written, not yet read by the browser
    back,       \* answers not yet read by the event loop
    taken, denied,  \* history: what the browser carried out and refused
    stragglers  \* history: calls the end of the event loop found past the flag, not in the map

browser == <<stalled, wire, back, taken, denied>>
drain == <<loop, unread, keys>>
vars == <<flag, pending, lock, sink, pc, rx, closer, drain, browser, stragglers>>

Answers == {"ok", "refused"}
Waiting == {c \in Calls : pc[c] \in {"write", "reply"}}
InCall == {c \in Calls : pc[c] \in {"checked", "write", "reply"}}

Init ==
    /\ flag = FALSE /\ pending = {} /\ lock = <<>> /\ sink = "open"
    /\ pc = [c \in Calls |-> "idle"]
    /\ rx = [c \in Calls |-> "empty"]
    /\ closer = "idle"
    /\ loop = "read" /\ unread = {} /\ keys = {}
    /\ stalled = FALSE /\ wire = {} /\ back = {}
    /\ taken = {} /\ denied = {} /\ stragglers = {}

\* A task that is dropped leaves the mutex, or the queue for it.
Without(q, t) ==
    IF \E i \in DOMAIN q : q[i] = t
    THEN RemoveAt(q, CHOOSE i \in DOMAIN q : q[i] = t)
    ELSE q

-----------------------------------------------------------------------------
(* send_recv.  Between its awaits the other threads run too. *)

Check(c) ==
    /\ pc[c] = "idle" /\ loop # "aborted"
    /\ pc' = [pc EXCEPT ![c] = IF flag THEN "failed" ELSE "checked"]
    /\ UNCHANGED <<flag, pending, lock, sink, rx, closer, drain, browser, stragglers>>

\* The waiter goes into the map before the command is written.
Register(c) ==
    /\ pc[c] = "checked"
    /\ pending' = pending \cup {c}
    /\ lock' = Append(lock, c)
    /\ pc' = [pc EXCEPT ![c] = "write"]
    /\ UNCHANGED <<flag, sink, rx, closer, drain, browser, stragglers>>

Holds(t) == lock # <<>> /\ Head(lock) = t

Written(c) ==
    /\ pc[c] = "write" /\ Holds(c)
    /\ sink = "open" /\ ~stalled
    /\ wire' = wire \cup {c}
    /\ lock' = Tail(lock)
    /\ pc' = [pc EXCEPT ![c] = "reply"]
    /\ UNCHANGED <<flag, pending, sink, rx, closer, drain, stalled, back, taken,
                   denied, stragglers>>

\* Mutant: a call that gives up leaves its entry in the map.
M_Leave(c, how) ==
    /\ pc' = [pc EXCEPT ![c] = how]
    /\ UNCHANGED pending

\* The call is over; its PendingCleanup takes the entry out if it is there.
Leave(c, how) ==
    /\ pc' = [pc EXCEPT ![c] = how]
    /\ pending' = pending \ {c}

\* The socket was shut by close(), or is broken, which may show here first.
WriteFails(c) ==
    /\ pc[c] = "write" /\ Holds(c)
    /\ Leave(c, "failed")
    /\ lock' = Tail(lock)
    /\ UNCHANGED <<flag, sink, rx, closer, drain, browser, stragglers>>

Return(c) ==
    /\ pc[c] = "reply" /\ rx[c] # "empty"
    /\ Leave(c, IF rx[c] = "closed" THEN "failed" ELSE rx[c])
    /\ UNCHANGED <<flag, lock, sink, rx, closer, drain, browser, stragglers>>

\* Mutant: once the connection is closed the drain is left to end the wait.
M_Timeout(c) ==
    /\ pc[c] = "reply" /\ rx[c] = "empty" /\ ~flag
    /\ Leave(c, "failed")
    /\ UNCHANGED <<flag, lock, sink, rx, closer, drain, browser, stragglers>>

\* Only the wait for the answer is timed.
Timeout(c) ==
    /\ pc[c] = "reply" /\ rx[c] = "empty"
    /\ Leave(c, "failed")
    /\ UNCHANGED <<flag, lock, sink, rx, closer, drain, browser, stragglers>>

\* The caller is dropped at an await.  While it writes, the frame may already
\* be in the sink's buffer and go out with the next one.
Cancel(c) ==
    /\ c \in Waiting
    /\ Leave(c, "dropped")
    /\ lock' = Without(lock, c)
    /\ \/ UNCHANGED wire
       \/ Holds(c) /\ sink = "open" /\ wire' = wire \cup {c}
    /\ UNCHANGED <<flag, sink, rx, closer, drain, stalled, back, taken, denied,
                   stragglers>>

-----------------------------------------------------------------------------
(* The event loop. *)

\* Mutant: an answer goes to whoever waits, whatever its id.
M_Deliver(c, v) ==
    \/ \E d \in pending : pending' = pending \ {d} /\ rx' = [rx EXCEPT ![d] = v]
    \/ pending = {} /\ UNCHANGED <<pending, rx>>

\* Each sender leaves the map once, so each channel gets one value at most; an
\* answer nobody waits for any more is dropped.
Deliver(c, v) ==
    /\ pending' = pending \ {c}
    /\ rx' = IF c \in pending THEN [rx EXCEPT ![c] = v] ELSE rx

Dispatch ==
    /\ loop = "read"
    /\ \E answer \in back :
          /\ Deliver(answer[1], answer[2])
          /\ back' = back \ {answer}
    /\ UNCHANGED <<flag, lock, sink, pc, closer, drain, stalled, wire, taken,
                   denied, stragglers>>

EarlyCallers == {c \in Calls : pc[c] = "checked"}

\* Mutant: the flag is left to close().
M_ReadEnds ==
    /\ loop = "read"
    /\ loop' = "collect" /\ unread' = Calls
    /\ stragglers' = EarlyCallers
    /\ UNCHANGED <<flag, pending, lock, sink, pc, rx, closer, keys, browser>>

\* A close frame, an error (the socket's, or a message over the limit), or the
\* end of the stream.
ReadEnds ==
    /\ loop = "read"
    /\ flag' = TRUE
    /\ loop' = "collect" /\ unread' = Calls
    /\ stragglers' = EarlyCallers
    /\ UNCHANGED <<pending, lock, sink, pc, rx, closer, keys, browser>>

\* The map is read shard by shard, while others change it ...
Collect ==
    /\ loop = "collect"
    /\ \E c \in unread :
          /\ keys' = keys \cup ({c} \cap pending)
          /\ unread' = unread \ {c}
          /\ loop' = IF unread' = {} THEN "drain" ELSE loop
    /\ UNCHANGED <<flag, pending, lock, sink, pc, rx, closer, browser, stragglers>>

\* ... then each waiter found and still there is told.
DrainOne ==
    /\ loop = "drain"
    /\ \E c \in keys : Deliver(c, "closed") /\ keys' = keys \ {c}
    /\ UNCHANGED <<flag, lock, sink, pc, closer, loop, unread, browser, stragglers>>

LoopEnds ==
    /\ loop = "drain" /\ keys = {}
    /\ loop' = "done"
    /\ UNCHANGED <<flag, pending, lock, sink, pc, rx, closer, unread, keys, browser,
                   stragglers>>

-----------------------------------------------------------------------------
(* close() and Drop. *)

\* Only the call that sets the flag goes on.
Close ==
    /\ closer = "idle" /\ loop # "aborted"
    /\ flag' = TRUE
    /\ IF flag
       THEN closer' = "done" /\ UNCHANGED lock
       ELSE closer' = "lock" /\ lock' = Append(lock, Closer)
    /\ UNCHANGED <<pending, sink, pc, rx, drain, browser, stragglers>>

\* The close frame has a deadline of its own; the mutex has none.
Shut ==
    /\ closer = "lock" /\ Holds(Closer)
    /\ sink' = "shut"
    /\ lock' = Tail(lock)
    /\ closer' = "done"
    /\ UNCHANGED <<flag, pending, pc, rx, drain, browser, stragglers>>

\* The pool gives close() a second.
CloseGivenUp ==
    /\ closer = "lock"
    /\ lock' = Without(lock, Closer)
    /\ closer' = "done"
    /\ UNCHANGED <<flag, pending, sink, pc, rx, drain, browser, stragglers>>

\* The last owner is gone, and with it every call, which borrowed it.
DropConnection ==
    /\ loop # "aborted"
    /\ InCall = {} /\ closer # "lock"
    /\ flag' = TRUE
    /\ rx' = [c \in Calls |-> IF c \in pending THEN "closed" ELSE rx[c]]
    /\ pending' = {}
    /\ loop' = "aborted"
    /\ UNCHANGED <<lock, sink, pc, closer, unread, keys, browser, stragglers>>

-----------------------------------------------------------------------------
(* The browser and the socket. *)

Serve(c) ==
    /\ c \in wire /\ ~stalled
    /\ wire' = wire \ {c}
    /\ \/ taken' = taken \cup {c} /\ back' = back \cup {<<c, "ok">>} /\ UNCHANGED denied
       \/ denied' = denied \cup {c} /\ back' = back \cup {<<c, "refused">>} /\ UNCHANGED taken
    /\ UNCHANGED <<flag, pending, lock, sink, pc, rx, closer, drain, stalled, stragglers>>

Stall ==
    /\ ~stalled /\ stalled' = TRUE
    /\ UNCHANGED <<flag, pending, lock, sink, pc, rx, closer, drain, wire, back,
                   taken, denied, stragglers>>

Resume ==
    /\ stalled /\ stalled' = FALSE
    /\ UNCHANGED <<flag, pending, lock, sink, pc, rx, closer, drain, wire, back,
                   taken, denied, stragglers>>

Call(c) == Check(c) \/ Register(c) \/ Written(c) \/ WriteFails(c) \/ Return(c) \/ Timeout(c)
GoesOn(c) ==
    \/ Register(c) \/ Written(c) \/ Return(c) \/ Timeout(c)
    \/ sink = "shut" /\ WriteFails(c)
EventLoop == Dispatch \/ ReadEnds \/ Collect \/ DrainOne \/ LoopEnds

Next ==
    \/ \E c \in Calls : Call(c) \/ Cancel(c) \/ Serve(c)
    \/ EventLoop
    \/ Close \/ Shut \/ CloseGivenUp \/ DropConnection
    \/ Stall \/ Resume

Spec == Init /\ [][Next]_vars

\* tokio polls ready tasks; a write to a shut socket fails at once.  The browser
\* may answer nothing, and may stop reading; nobody has to begin a call, to
\* cancel one, or to close.
FairSpec ==
    /\ Spec
    /\ \A c \in Calls : WF_vars(GoesOn(c))
    /\ WF_vars(Collect) /\ WF_vars(DrainOne) /\ WF_vars(LoopEnds)
    /\ WF_vars(Shut)

-----------------------------------------------------------------------------
(* Properties. *)

TypeOK ==
    /\ flag \in BOOLEAN /\ stalled \in BOOLEAN
    /\ pending \subseteq Calls /\ unread \subseteq Calls /\ keys \subseteq Calls
    /\ lock \in Seq(Calls \cup {Closer}) /\ IsInjective(lock)
    /\ sink \in {"open", "shut"}
    /\ pc \in [Calls -> {"idle", "checked", "write", "reply", "failed", "dropped"}
                        \cup Answers]
    /\ rx \in [Calls -> {"empty", "closed"} \cup Answers]
    /\ closer \in {"idle", "lock", "done"}
    /\ loop \in {"read", "collect", "drain", "done", "aborted"}
    /\ wire \subseteq Calls /\ back \subseteq Calls \X Answers
    /\ taken \subseteq Calls /\ denied \subseteq Calls /\ stragglers \subseteq Calls

\* The map holds exactly the calls in progress that have no answer yet: nothing
\* leaks when a caller times out or is dropped, nobody waits for an answer that
\* went elsewhere, and Drop finds the map empty.
MapExact == pending = {c \in Waiting : rx[c] = "empty"}

\* The connection has its types, and its map is exact.
WaitersSound == TypeOK /\ MapExact

\* Once the event loop is over, every call that was registered before has been
\* told; what is left in the map are calls that had passed the flag and were
\* not registered yet when the loop ended.
OthersTold == loop \in {"done", "aborted"} => pending \subseteq stragglers

\* The connection does what CdpCalls promises.
State(c) ==
    CASE pc[c] \in {"checked", "write", "reply"} -> "open"
      [] OTHER -> pc[c]
Promise == INSTANCE CdpCalls WITH state <- [c \in Calls |-> State(c)]
ImplementsCalls == Promise!Spec

\* While the browser reads, every call comes to an end, whether the browser
\* answers, closes or is silent; and so does close().
CallsEnd ==
    <>[]~stalled =>
        /\ \A c \in Calls : pc[c] \in {"checked", "write", "reply"} ~>
                            pc[c] \notin {"checked", "write", "reply"}
        /\ closer = "lock" ~> closer = "done"
=============================================================================
