------------------------------ MODULE CdpCalls ------------------------------
(***************************************************************************)
(* What a CDP connection (cdp_conn.rs) promises the tasks that share it:   *)
(* each command reaches the browser at most once; the caller gets at most  *)
(* one answer, which is the browser's to this very command; a caller that  *)
(* is told of a failure by anyone else knows nothing: the browser may have *)
(* taken the command, or may still take it.                                *)
(***************************************************************************)
CONSTANT Calls

VARIABLES
    state,  \* what each call has come to
    taken,  \* commands the browser carried out
    denied  \* commands the browser refused
callVars == <<state, taken, denied>>

States == {"idle", "open", "ok", "refused", "failed", "dropped"}

Init ==
    /\ state = [c \in Calls |-> "idle"]
    /\ taken = {} /\ denied = {}

Begin(c) ==
    /\ state[c] = "idle"
    /\ state' = [state EXCEPT ![c] = "open"]
    /\ UNCHANGED <<taken, denied>>

\* Whatever has become of the caller.
Take(c) ==
    /\ state[c] # "idle" /\ c \notin taken \cup denied
    /\ \/ taken' = taken \cup {c} /\ UNCHANGED denied
       \/ denied' = denied \cup {c} /\ UNCHANGED taken
    /\ UNCHANGED state

Answer(c) ==
    /\ state[c] = "open"
    /\ \/ c \in taken /\ state' = [state EXCEPT ![c] = "ok"]
       \/ c \in denied /\ state' = [state EXCEPT ![c] = "refused"]
    /\ UNCHANGED <<taken, denied>>

\* The connection failed, or the timeout passed.
Fail(c) ==
    /\ state[c] \in {"idle", "open"}
    /\ state' = [state EXCEPT ![c] = "failed"]
    /\ UNCHANGED <<taken, denied>>

\* The caller's future was dropped.
Drop(c) ==
    /\ state[c] = "open"
    /\ state' = [state EXCEPT ![c] = "dropped"]
    /\ UNCHANGED <<taken, denied>>

Next == \E c \in Calls : Begin(c) \/ Take(c) \/ Answer(c) \/ Fail(c) \/ Drop(c)

Spec == Init /\ [][Next]_callVars
=============================================================================
