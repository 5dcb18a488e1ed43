---------------------------- MODULE BrowseSession ----------------------------
(***************************************************************************)
(* The interactive browser server, crw-browse: concurrent tool calls share *)
(* one default session, which is opened by the first goto, attaches to one *)
(* target lazily, and keeps the map of the element references its last     *)
(* tree snapshot handed out.  A listener clears the map when the page      *)
(* navigates; a guard answers the requests the page makes.                 *)
(*                                                                         *)
(* A call sends commands through the session's connection: the browser     *)
(* carries one out or not, and the caller has an answer, or an error, or   *)
(* gives up (CdpCalls).  The browser is external.  A target is attached    *)
(* once, so it stands for its CDP session too; a document is its number in *)
(* its target, 0 being about:blank.                                        *)
(***************************************************************************)
EXTENDS Naturals, FiniteSets

CONSTANTS
    Calls, Targets, None,
    MaxDocs     \* bound: documents a target may show

ASSUME BrowseAssumption == None \notin Calls \cup Targets /\ MaxDocs \in Nat

VARIABLES
    tool, pc,   \* each call: the tool, and where it is
    sid, snap,  \* the session it works on, and the document of its snapshot
    session, sessions,  \* default_session, and how many the registry holds
    opening,    \* the call with the write lock of default_session
    attaching, hand,    \* the call with attach_lock, and the target it is attaching
    recorded,   \* target_id and cdp_session_id
    listener, guard,    \* what the two tasks listen to
    refs,       \* ref_map: the documents whose nodes it names, one or none
    conn,       \* the connection is there
    opened, watched, paused,    \* targets; with Page enabled; with Fetch enabled
    doc,        \* what each target shows
    inbox,      \* navigations the listener has not received
    failed, lagged, late    \* history: targets whose attachment failed; an event was
                            \* lost; the map's snapshot was old when it was stored

call == <<tool, pc, sid, snap>>
server == <<session, sessions, opening>>
attachment == <<attaching, hand, recorded, listener, guard>>
browser == <<conn, opened, watched, paused, doc>>
vars == <<call, server, attachment, refs, browser, inbox, failed, lagged, late>>

Docs == 0 .. MaxDocs
Ended == {"done", "error"}

Init ==
    /\ tool = [c \in Calls |-> "goto"] /\ pc = [c \in Calls |-> "idle"]
    /\ sid = [c \in Calls |-> None] /\ snap = [c \in Calls |-> 0]
    /\ session = FALSE /\ sessions = 0 /\ opening = None
    /\ attaching = None /\ hand = None /\ recorded = None
    /\ listener = None /\ guard = None
    /\ refs = {}
    /\ conn = TRUE /\ opened = {} /\ watched = {} /\ paused = {}
    /\ doc = [t \in Targets |-> 0]
    /\ inbox = 0
    /\ failed = {} /\ lagged = FALSE /\ late = FALSE

Go(c, at) == pc' = [pc EXCEPT ![c] = at]

\* A command that may still be carried out after its caller has given up.
Perhaps(set, t) == {set, set \cup (IF conn THEN {t} ELSE {})}

-----------------------------------------------------------------------------
(* The default session. *)

\* A tool is called; it looks for the session, which waits for a writer.
Begin(c, name) ==
    /\ pc[c] = "idle" /\ opening = None
    /\ tool' = [tool EXCEPT ![c] = name]
    /\ Go(c, CASE session -> IF name = "goto" THEN "sid" ELSE "target"
               [] ~session /\ name = "goto" -> "open"
               [] OTHER -> "error")
    /\ UNCHANGED <<sid, snap, server, attachment, refs, browser, inbox, failed, lagged, late>>

\* Under the write lock the slot is looked at again.
TakeSlot(c) ==
    /\ pc[c] = "open" /\ opening = None
    /\ IF session THEN Go(c, "sid") /\ UNCHANGED opening
                  ELSE Go(c, "connect") /\ opening' = c
    /\ UNCHANGED <<tool, sid, snap, session, sessions, attachment, refs, browser, inbox,
                   failed, lagged, late>>

\* The connection is made, within ten seconds, and the session registered.
Connect(c) ==
    /\ pc[c] = "connect"
    /\ opening' = None
    /\ \/ Go(c, "sid") /\ session' = TRUE /\ sessions' = sessions + 1
       \/ Go(c, "error") /\ UNCHANGED <<session, sessions>>
    /\ UNCHANGED <<tool, sid, snap, attachment, refs, browser, inbox, failed, lagged, late>>

-----------------------------------------------------------------------------
(* ensure_attached. *)

Work(c) == sid' = [sid EXCEPT ![c] = recorded] /\ Go(c, "navigate")

Attached(c) ==
    /\ pc[c] = "sid"
    /\ IF recorded # None THEN Work(c) ELSE Go(c, "lock") /\ UNCHANGED sid
    /\ UNCHANGED <<tool, snap, server, attachment, refs, browser, inbox, failed, lagged, late>>

\* Mutant: whoever waited for attach_lock attaches.
M_TakeAttach(c) ==
    /\ pc[c] = "lock" /\ attaching = None
    /\ Go(c, "create") /\ attaching' = c /\ UNCHANGED sid
    /\ UNCHANGED <<tool, snap, server, hand, recorded, listener, guard, refs, browser, inbox,
                   failed, lagged, late>>

\* Under attach_lock the session is looked at again.
TakeAttach(c) ==
    /\ pc[c] = "lock" /\ attaching = None
    /\ IF recorded # None THEN Work(c) /\ UNCHANGED attaching
                          ELSE Go(c, "create") /\ attaching' = c /\ UNCHANGED sid
    /\ UNCHANGED <<tool, snap, server, hand, recorded, listener, guard, refs, browser, inbox,
                   failed, lagged, late>>

\* An error returns through the guard of attach_lock; the target stays open.
GiveUp(c) ==
    /\ Go(c, "error")
    /\ attaching' = None /\ hand' = None
    /\ failed' = failed \cup ({hand} \ {None})
    /\ UNCHANGED <<sid, recorded, listener, guard>>

Create(c) ==
    /\ pc[c] = "create"
    /\ \/ \E t \in Targets \ opened :
             /\ conn
             /\ opened' = opened \cup {t}
             /\ \/ hand' = t /\ Go(c, "attach") /\ UNCHANGED <<attaching, failed>>
                \/ Go(c, "error") /\ attaching' = None /\ failed' = failed \cup {t}
                   /\ UNCHANGED hand
          /\ UNCHANGED <<sid, recorded, listener, guard>>
       \/ GiveUp(c) /\ UNCHANGED opened
    /\ UNCHANGED <<tool, snap, server, refs, conn, watched, paused, doc, inbox, lagged, late>>

\* The listener is started before anything is enabled, unless there is one.
Attach(c) ==
    /\ pc[c] = "attach"
    /\ \/ /\ conn /\ Go(c, "domains")
          /\ listener' = IF listener = None THEN hand ELSE listener
          /\ UNCHANGED <<sid, attaching, hand, recorded, guard, failed>>
       \/ GiveUp(c)
    /\ UNCHANGED <<tool, snap, server, refs, browser, inbox, lagged, late>>

\* Page, Runtime, Accessibility and Network are enabled in turn.
Domains(c) ==
    /\ pc[c] = "domains"
    /\ \/ /\ conn /\ watched' = watched \cup {hand} /\ Go(c, "guard")
          /\ UNCHANGED <<sid, attachment, failed>>
       \/ watched' \in Perhaps(watched, hand) /\ GiveUp(c)
    /\ UNCHANGED <<tool, snap, server, refs, conn, opened, paused, doc, inbox, lagged, late>>

\* Mutant: the session is recorded when the target is attached, guarded or not.
M_Guard(c) ==
    /\ pc[c] = "guard"
    /\ paused' \in Perhaps(paused, hand)
    /\ guard' = IF guard = None THEN hand ELSE guard
    /\ recorded' = hand
    /\ sid' = [sid EXCEPT ![c] = hand]
    /\ Go(c, "navigate") /\ attaching' = None /\ hand' = None
    /\ UNCHANGED <<listener, failed>>
    /\ UNCHANGED <<tool, snap, server, refs, conn, opened, watched, doc, inbox, lagged, late>>

\* Fetch is enabled, the guard started, and only then is the session recorded.
Guard(c) ==
    /\ pc[c] = "guard"
    /\ \/ /\ conn /\ paused' = paused \cup {hand}
          /\ guard' = IF guard = None THEN hand ELSE guard
          /\ recorded' = hand
          /\ sid' = [sid EXCEPT ![c] = hand]
          /\ Go(c, "navigate") /\ attaching' = None /\ hand' = None
          /\ UNCHANGED <<listener, failed>>
       \/ paused' \in Perhaps(paused, hand) /\ GiveUp(c)
    /\ UNCHANGED <<tool, snap, server, refs, conn, opened, watched, doc, inbox, lagged, late>>

-----------------------------------------------------------------------------
(* goto and tree. *)

\* The target shows another document, and says so where Page is enabled.
Shows(t) ==
    /\ doc' = [doc EXCEPT ![t] = @ + 1]
    /\ inbox' = IF listener = t /\ t \in watched THEN inbox + 1 ELSE inbox

\* Page.navigate answers; or fails, carried out or not.
Navigate(c) ==
    /\ pc[c] = "navigate"
    /\ \/ conn /\ doc[sid[c]] < MaxDocs /\ Shows(sid[c]) /\ pc' \in {[pc EXCEPT ![c] = "load"],
                                                                  [pc EXCEPT ![c] = "error"]}
       \/ UNCHANGED <<doc, inbox>> /\ Go(c, "error")
    /\ UNCHANGED <<tool, sid, snap, server, attachment, refs, conn, opened, watched, paused,
                   failed, lagged, late>>


\* The page has loaded, or the time is up: the references are dropped.
Loaded(c) ==
    /\ pc[c] = "load"
    /\ refs' = {} /\ late' = FALSE
    /\ Go(c, "done")
    /\ UNCHANGED <<tool, sid, snap, server, attachment, browser, inbox, failed, lagged>>

\* Every tool but goto takes the session as it is.
Target(c) ==
    /\ pc[c] = "target"
    /\ IF recorded = None THEN Go(c, "error") /\ UNCHANGED sid
                          ELSE Go(c, "read") /\ sid' = [sid EXCEPT ![c] = recorded]
    /\ UNCHANGED <<tool, snap, server, attachment, refs, browser, inbox, failed, lagged, late>>

ReadTree(c) ==
    /\ pc[c] = "read"
    /\ \/ conn /\ Go(c, "store") /\ snap' = [snap EXCEPT ![c] = doc[sid[c]]]
       \/ Go(c, "error") /\ UNCHANGED snap
    /\ UNCHANGED <<tool, sid, server, attachment, refs, browser, inbox, failed, lagged, late>>

\* replace_ref_map, whatever the page has become since it was read.
Store(c) ==
    /\ pc[c] = "store"
    /\ refs' = {snap[c]} /\ late' = (snap[c] # doc[sid[c]])
    /\ Go(c, "done")
    /\ UNCHANGED <<tool, sid, snap, server, attachment, browser, inbox, failed, lagged>>

-----------------------------------------------------------------------------
(* The listener, the page and the connection. *)

\* Mutant: a navigation within the document leaves the references.
M_Hear ==
    /\ inbox > 0
    /\ inbox' = inbox - 1
    /\ \/ refs' = {} /\ late' = FALSE
       \/ UNCHANGED <<refs, late>>
    /\ UNCHANGED <<call, server, attachment, browser, failed, lagged>>

\* A navigation, of whatever kind, or the end of a script context.
Hear ==
    /\ inbox > 0
    /\ inbox' = inbox - 1
    /\ refs' = {} /\ late' = FALSE
    /\ UNCHANGED <<call, server, attachment, browser, failed, lagged>>

\* The receiver fell behind, and events were dropped for it.
Lag ==
    /\ inbox > 0
    /\ inbox' \in 0 .. inbox - 1
    /\ lagged' = TRUE
    /\ UNCHANGED <<call, server, attachment, refs, browser, failed, late>>

\* The page goes elsewhere, by a link, a script or a click.
Strays ==
    /\ conn /\ recorded # None
    /\ doc[recorded] \in 1 .. MaxDocs - 1
    /\ Shows(recorded)
    /\ UNCHANGED <<call, server, attachment, refs, conn, opened, watched, paused, failed,
                   lagged, late>>

\* The browser is gone; the session stays.
Break ==
    /\ session /\ conn /\ conn' = FALSE
    /\ UNCHANGED <<call, server, attachment, refs, opened, watched, paused, doc, inbox,
                   failed, lagged, late>>

Step(c) ==
    \/ TakeSlot(c) \/ Connect(c) \/ Attached(c)
    \/ TakeAttach(c) \/ Create(c) \/ Attach(c) \/ Domains(c) \/ Guard(c)
    \/ Navigate(c) \/ Loaded(c)
    \/ Target(c) \/ ReadTree(c) \/ Store(c)

Next ==
    \/ \E c \in Calls : Step(c) \/ \E name \in {"goto", "tree"} : Begin(c, name)
    \/ Hear \/ Lag \/ Strays \/ Break

Spec == Init /\ [][Next]_vars

\* Every command has a timeout, and so has the wait for the page; tokio polls
\* what is ready.  Nobody has to call, and the listener need not get to run.
FairSpec == Spec /\ \A c \in Calls : WF_vars(Step(c))

-----------------------------------------------------------------------------
(* Properties. *)

TypeOK ==
    /\ tool \in [Calls -> {"goto", "tree"}]
    /\ pc \in [Calls -> {"idle", "open", "connect", "sid", "lock", "create", "attach",
                         "domains", "guard", "navigate", "load", "target", "read", "store"}
                        \cup Ended]
    /\ sid \in [Calls -> Targets \cup {None}] /\ snap \in [Calls -> Docs]
    /\ session \in BOOLEAN /\ sessions \in Nat /\ opening \in Calls \cup {None}
    /\ attaching \in Calls \cup {None}
    /\ {hand, recorded, listener, guard} \subseteq Targets \cup {None}
    /\ refs \in {{}} \cup {{d} : d \in Docs}
    /\ conn \in BOOLEAN /\ opened \subseteq Targets
    /\ watched \subseteq Targets /\ paused \subseteq Targets
    /\ doc \in [Targets -> Docs] /\ inbox \in Nat
    /\ failed \subseteq Targets /\ lagged \in BOOLEAN /\ late \in BOOLEAN

\* However many calls begin at once, there is one default session and one target
\* behind it, which every call that goes on works on; whatever else was opened
\* belongs to an attachment that failed.
OneOfEach ==
    /\ sessions = IF session THEN 1 ELSE 0
    /\ \A c \in Calls : sid[c] # None => sid[c] = recorded
    /\ opened = failed \cup ({hand, recorded} \ {None})
    /\ Cardinality({hand, recorded} \ {None}) <= 1

\* The server has its types, and one of each.
ServerSound == TypeOK /\ OneOfEach

\* No document is loaded by a target that has no guard: the target has Fetch
\* enabled and the guard task listens to it before any call can navigate it.
GuardFirst ==
    /\ recorded # None => recorded \in paused /\ guard = recorded
    /\ \A t \in Targets : doc[t] > 0 => t = recorded

\* The listener is the recorded session's, unless an earlier attachment failed
\* after it was started: then it stays with the target of that one.
Deaf == listener # recorded
DeafOnlyAfterFailure == recorded # None /\ Deaf => listener \in failed

\* A reference to a document that has gone is about to be dropped; the exceptions
\* are a snapshot that was stored too late, an event that was lost, and a
\* listener that is another's.
RefsFollow ==
    /\ DeafOnlyAfterFailure
    /\ refs # {} /\ refs # {doc[recorded]} =>
          inbox > 0 \/ late \/ lagged \/ Deaf

\* Every call ends, though others hold the locks it waits for and the browser
\* says nothing.
CallsEnd == \A c \in Calls : pc[c] # "idle" ~> pc[c] \in Ended
=============================================================================
