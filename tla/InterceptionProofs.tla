------------------------- MODULE InterceptionProofs -------------------------
(***************************************************************************)
(* What interception guarantees for any page: no request goes out that was *)
(* not judged fit, no child runs without its guard, what was received and  *)
(* is still paused is on record, and the connection does not go before the *)
(* target.                                                                 *)
(*                                                                         *)
(* The invariant follows a child (Frames) and a request (Asked) from the   *)
(* browser through the ring (Unheard), the pump and the wire (Addressed)   *)
(* back to the browser, and the render to its end (Ends).                  *)
(***************************************************************************)
EXTENDS Interception, SequenceTheorems, TLAPS

\* A command goes to a thing of its kind.
Addressed ==
    \A c \in wire :
        /\ c[1] \in {"enable", "attach"} => c[2] \in Sessions
        /\ c[1] = "run" => c[2] \in Children
        /\ c[1] = "close" => c[2] \in Sessions
        /\ c[1] \in {"continue", "fail"} => c[2] \in Requests

\* An event happens once, and before the pump does anything about it.
Unheard ==
    /\ \A i, j \in DOMAIN ring : ring[i] = ring[j] => i = j
    /\ \A k \in Children, i \in DOMAIN ring :
          ring[i] = <<"attached", k>> => handler[k] = "none" /\ child[k].state # "none"
    /\ \A r \in Requests, i \in DOMAIN ring : ring[i] = <<"paused", r>> => req[r] # "none"

\* What is known of a child.
ChildKnown(k) ==
    /\ child[k].state = "none" =>
          /\ handler[k] = "none" /\ k \notin guarded
          /\ \A c \in wire : c[2] # k
    /\ child[k].state # "none" => navigated
    /\ child[k].state = "running" /\ child[k].kind # "worker" => k \in guarded
    /\ child[k].state = "loose" /\ ~Down => k \notin guarded
    /\ handler[k] = "none" => <<k, TRUE>> \notin back
    /\ handler[k] = "enable" /\ <<k, TRUE>> \in back => k \in guarded
    /\ handler[k] = "attach" => k \in guarded
    /\ <<"run", k>> \in wire => child[k].kind = "worker" \/ k \in guarded

Frames == \A k \in Children : ChildKnown(k)

\* What is known of a request.
RequestKnown(r) ==
    /\ req[r] = "sent" \/ <<"continue", r>> \in wire => r \in allowed
    /\ req[r] = "free" /\ ~Down =>
          from[r] \in Children \ guarded /\ child[from[r]].state \in {"loose", "gone"}
    /\ <<r, TRUE>> \in back => req[r] \notin {"none", "paused"}
    /\ r \in seen => req[r] # "none"
    /\ r \in seen /\ req[r] = "paused" => r \in outstanding

Asked ==
    /\ navigated \/ phase = "attach" => Page \in guarded
    /\ \A r \in Requests : RequestKnown(r)

\* The end of the render.
Ends ==
    /\ target = "closed" =>
          /\ \A r \in Requests : req[r] # "paused"
          /\ \A k \in Children : child[k].state # "held"
    /\ phase \notin {"end", "dropped"} => conn \in {"up", "broken"}
    /\ phase \in {"closing", "reap", "end"} /\ conn \in {"up", "shut"} =>
          target = "closed" \/ <<"close", Page>> \in wire

IInv == TypeOK /\ Addressed /\ Unheard /\ Frames /\ Asked /\ Ends

-----------------------------------------------------------------------------
(* The ring. *)

\* An event appended is last, and new if it was not there.
LEMMA AppendRing ==
    ASSUME NEW S, NEW q \in Seq(S), NEW t \in S
    PROVE  /\ Append(q, t) \in Seq(S) /\ Len(Append(q, t)) = Len(q) + 1
           /\ \A i \in DOMAIN Append(q, t) :
                  Append(q, t)[i] = t \/ \E j \in DOMAIN q : Append(q, t)[i] = q[j]
           /\ (\A i, j \in DOMAIN q : q[i] = q[j] => i = j) /\ (\A i \in DOMAIN q : q[i] # t) =>
                  \A i, j \in DOMAIN Append(q, t) : Append(q, t)[i] = Append(q, t)[j] => i = j
OBVIOUS

\* An event taken was first, and is not in what is left.
LEMMA TailRing ==
    ASSUME NEW S, NEW q \in Seq(S), q # <<>>
    PROVE  /\ Head(q) \in S /\ \E j \in DOMAIN q : Head(q) = q[j]
           /\ Tail(q) \in Seq(S) /\ Len(Tail(q)) = Len(q) - 1
           /\ \A i \in DOMAIN Tail(q) : \E j \in DOMAIN q : Tail(q)[i] = q[j]
           /\ (\A i, j \in DOMAIN q : q[i] = q[j] => i = j) =>
                  /\ \A i, j \in DOMAIN Tail(q) : Tail(q)[i] = Tail(q)[j] => i = j
                  /\ \A i \in DOMAIN Tail(q) : Tail(q)[i] # Head(q)
OBVIOUS

\* What an event leaves in the ring.
LEMMA EmitRing ==
    ASSUME TypeOK, NEW e \in Events, Emit(e)
    PROVE  /\ ring' \in Seq(Events) /\ Len(ring') <= RingSize
           /\ \A i \in DOMAIN ring' : ring'[i] = e \/ \E j \in DOMAIN ring : ring'[i] = ring[j]
           /\ (\A i, j \in DOMAIN ring : ring[i] = ring[j] => i = j)
                  /\ (\A i \in DOMAIN ring : ring[i] # e) =>
              \A i, j \in DOMAIN ring' : ring'[i] = ring'[j] => i = j
<1>0. ring \in Seq(Events) /\ Len(ring) <= RingSize /\ RingSize \in Nat \ {0}
  BY RenderAssumption DEF TypeOK
<1>1. CASE ring' = ring
  BY <1>0, <1>1
<1>2. CASE Len(ring) < RingSize /\ ring' = Append(ring, e)
  <2>1. Len(ring) + 1 <= RingSize
    BY <1>0, <1>2
  <2> QED
    BY <1>0, <1>2, <2>1, AppendRing
<1>3. CASE ~(Len(ring) < RingSize) /\ ring' = Append(Tail(ring), e)
  <2> DEFINE q == Tail(ring)
  <2>1. ring # <<>>
    BY <1>0, <1>3
  <2>2. /\ q \in Seq(Events) /\ Len(q) = Len(ring) - 1
        /\ \A i \in DOMAIN q : \E j \in DOMAIN ring : q[i] = ring[j]
        /\ (\A i, j \in DOMAIN ring : ring[i] = ring[j] => i = j) =>
              \A i, j \in DOMAIN q : q[i] = q[j] => i = j
    BY <1>0, <2>1, TailRing
  <2> HIDE DEF q
  <2>3. /\ Append(q, e) \in Seq(Events) /\ Len(Append(q, e)) = Len(q) + 1
        /\ \A i \in DOMAIN Append(q, e) :
              Append(q, e)[i] = e \/ \E j \in DOMAIN q : Append(q, e)[i] = q[j]
        /\ (\A i, j \in DOMAIN q : q[i] = q[j] => i = j) /\ (\A i \in DOMAIN q : q[i] # e) =>
              \A i, j \in DOMAIN Append(q, e) : Append(q, e)[i] = Append(q, e)[j] => i = j
    BY <2>2, AppendRing
  <2>4. ring' = Append(q, e) /\ Len(Append(q, e)) <= RingSize
    BY <1>0, <1>3, <2>2, <2>3 DEF q
  <2> QED
    BY <2>2, <2>3, <2>4
<1> QED
  BY <1>0, <1>1, <1>2, <1>3 DEF Emit

-----------------------------------------------------------------------------
(* What the browser's steps change. *)

\* A request asked for: paused, and said, or free.
LEMMA AskFacts ==
    ASSUME TypeOK, NEW r \in Requests, NEW s \in Sessions, Ask(r, s)
    PROVE  /\ target = "open" /\ req[r] = "none" /\ Runs(s)
           /\ from' = [from EXCEPT ![r] = PausesOn(s)] /\ PausesOn(s) \in Sessions
           /\ \/ /\ PausesOn(s) \in guarded /\ ~Down
                 /\ req' = [req EXCEPT ![r] = "paused"] /\ Emit(<<"paused", r>>)
              \/ /\ ~(PausesOn(s) \in guarded /\ ~Down)
                 /\ req' = [req EXCEPT ![r] = "free"] /\ ring' = ring
           /\ UNCHANGED <<phase, outstanding, ours, handler, seen, conn, wire, back, target,
                          navigated, guarded, watched, child, home, allowed>>
BY DEF Ask, PausesOn, Sessions, pump, socket

\* A child begun: held, and said, or loose.
LEMMA SpawnFacts ==
    ASSUME TypeOK, NEW k \in Children, NEW s \in Sessions, NEW kind \in Kinds,
           Spawn(k, s, kind)
    PROVE  /\ target = "open" /\ child[k].state = "none" /\ Runs(s)
           /\ home' = [home EXCEPT ![k] = s]
           /\ \/ child' = [child EXCEPT ![k] = [state |-> "held", kind |-> kind]]
                    /\ Emit(<<"attached", k>>)
              \/ child' = [child EXCEPT ![k] = [state |-> "loose", kind |-> kind]]
                    /\ ring' = ring
           /\ UNCHANGED <<phase, outstanding, ours, handler, seen, conn, wire, back, target,
                          navigated, guarded, watched, req, from, allowed>>
BY DEF Spawn, pump, socket

\* What is gone is a child or the page with all of its children; nothing else
\* changes, and nothing paused or held is left behind.
Gone(s) ==
    /\ child' \in [Children -> [state : States, kind : Kinds]]
    /\ \A k \in Children :
          /\ child'[k].kind = child[k].kind
          /\ child'[k].state = child[k].state
                \/ (child[k].state # "none" /\ child'[k].state = "gone")
          /\ s = Page => child'[k].state # "held"
    /\ req' \in [Requests -> {"none", "paused", "sent", "failed", "free", "gone"}]
    /\ \A r \in Requests :
          /\ req'[r] = req[r] \/ (req[r] = "paused" /\ req'[r] = "gone")
          /\ s = Page => req'[r] # "paused"
    /\ target' = IF s = Page THEN "closed" ELSE target

\* Die is such a loss.
LEMMA DieFacts == ASSUME TypeOK, NEW s \in Sessions, Die(s) PROVE Gone(s)
<1> DEFINE under == IF s = Page THEN Children ELSE {s}
<1>1. child' = [k \in Children |-> IF k \in under /\ child[k].state # "none"
                                   THEN [child[k] EXCEPT !.state = "gone"] ELSE child[k]]
  BY DEF Die
<1>2. req' = [r \in Requests |-> IF req[r] = "paused" /\ from[r] \in under \cup {s}
                                 THEN "gone" ELSE req[r]]
  BY DEF Die
<1>3. target' = IF s = Page THEN "closed" ELSE target
  BY DEF Die
<1>4. \A k \in Children :
          child[k] \in [state : States, kind : Kinds]
  BY DEF TypeOK
<1>5. \A k \in Children :
          /\ child'[k] \in [state : States, kind : Kinds]
          /\ child'[k].kind = child[k].kind
          /\ child'[k].state = child[k].state
                \/ (child[k].state # "none" /\ child'[k].state = "gone")
          /\ s = Page => child'[k].state # "held"
  BY <1>1, <1>4 DEF States
<1>6. \A r \in Requests :
          /\ req'[r] \in {"none", "paused", "sent", "failed", "free", "gone"}
          /\ req'[r] = req[r] \/ (req[r] = "paused" /\ req'[r] = "gone")
          /\ s = Page => req'[r] # "paused"
  BY <1>2 DEF TypeOK, Sessions
<1> HIDE DEF under
<1>7. /\ child' \in [Children -> [state : States, kind : Kinds]]
      /\ req' \in [Requests -> {"none", "paused", "sent", "failed", "free", "gone"}]
  BY <1>1, <1>2, <1>5, <1>6
<1> QED
  BY <1>3, <1>5, <1>6, <1>7 DEF Gone

\* What no command changes when it is served.
Same == UNCHANGED <<phase, outstanding, ours, handler, seen, ring, conn, navigated, home,
                    from, allowed>>

\* A command served: what it did, and what its caller is told.
LEMMA ServeFacts ==
    ASSUME TypeOK, NEW cmd, NEW x, Serve(cmd, x)
    PROVE  /\ ~Down /\ <<cmd, x>> \in wire /\ wire' = wire \ {<<cmd, x>>} /\ Same
           /\ \/ /\ CanTake(cmd, x) /\ Effect(cmd, x)
                 /\ back' = back \/ (Awaits(x, cmd) /\ back' = back \cup {<<x, TRUE>>})
              \/ /\ ~CanTake(cmd, x) \/ cmd \in {"enable", "attach"}
                 /\ UNCHANGED <<target, guarded, watched, child, req>>
                 /\ back' = back \/ (Awaits(x, cmd) /\ back' = back \cup {<<x, FALSE>>})
BY DEF Serve, Reply, Same, pump

-----------------------------------------------------------------------------
(* The initial state. *)

\* Nothing has happened yet.
LEMMA Initially == Init => IInv
<1> SUFFICES ASSUME Init PROVE IInv
  OBVIOUS
<1>1. TypeOK
  <2>1. ring \in Seq(Events) /\ Len(ring) <= RingSize
    BY RenderAssumption DEF Init
  <2>2. /\ handler \in [Requests \cup Children -> Steps]
        /\ child \in [Children -> [state : States, kind : Kinds]]
        /\ home \in [Children -> Sessions] /\ from \in [Requests -> Sessions]
    BY DEF Init, Sessions, States, Kinds, Steps
  <2> QED
    BY <2>1, <2>2 DEF Init, TypeOK, Phases
<1>2. Addressed /\ Unheard /\ Ends
  BY DEF Init, Addressed, Unheard, Ends
<1>3. Frames /\ Asked
  BY RenderAssumption DEF Init, Frames, ChildKnown, Asked, RequestKnown, Down
<1> QED
  BY <1>1, <1>2, <1>3 DEF IInv

-----------------------------------------------------------------------------
(* The pump's handlers. *)

\* A handler goes on to its next step and may send one command about its thing.
Handles(x, step, cmd) ==
    /\ Then(x, step) /\ wire' \in {wire, wire \cup {<<cmd, x>>}}
    /\ UNCHANGED <<phase, ours, seen, ring, conn, page>>

\* Only what x awaits, and the answers to it, change.
Handled(x, step, cmd) ==
    /\ handler' \in [Requests \cup Children -> Steps] /\ handler'[x] = step
    /\ \A y \in Requests \cup Children : y # x => handler'[y] = handler[y]
    /\ back' \subseteq back /\ <<x, TRUE>> \notin back'
    /\ \A c \in wire' : c \in wire \/ (c[1] = cmd /\ c[2] = x)
    /\ \A d, y : <<d, y>> \in wire' => <<d, y>> \in wire \/ (d = cmd /\ y = x)
    /\ wire \subseteq wire'
    /\ UNCHANGED <<phase, ours, seen, ring, conn, target, navigated, guarded, watched,
                   child, home, req, from>>

\* Handles, thing by thing.
LEMMA HandlesFacts ==
    ASSUME TypeOK, NEW x \in Requests \cup Children, NEW step \in Steps, NEW cmd,
           Handles(x, step, cmd)
    PROVE  Handled(x, step, cmd)
<1>1. /\ handler' = [handler EXCEPT ![x] = step] /\ handler \in [Requests \cup Children -> Steps]
      /\ back' = back \ {<<x, TRUE>>, <<x, FALSE>>}
      /\ UNCHANGED <<phase, ours, seen, ring, conn, page>>
  BY DEF Handles, Then, TypeOK
<1>2. wire' = wire \/ wire' = wire \cup {<<cmd, x>>}
  BY DEF Handles
<1>3. /\ \A c \in wire' : c \in wire \/ (c[1] = cmd /\ c[2] = x)
      /\ \A d, y : <<d, y>> \in wire' => <<d, y>> \in wire \/ (d = cmd /\ y = x)
      /\ wire \subseteq wire'
  BY <1>2
<1> QED
  BY <1>1, <1>3 DEF Handled, page

\* A handler of a child keeps the invariant if it asks for what it may.
LEMMA ChildHandled ==
    ASSUME IInv, NEW k \in Children, NEW step \in {"attach", "resume", "done"},
           NEW cmd \in {"attach", "run", "close"},
           Handles(k, step, cmd), handler[k] # "none",
           step = "attach" => k \in guarded,
           cmd = "run" => child[k].kind = "worker" \/ k \in guarded,
           UNCHANGED <<outstanding, allowed>>
    PROVE  IInv'
<1>0. TypeOK /\ k \in Requests \cup Children /\ step \in Steps /\ k \notin Requests /\ k # Page
  BY RenderAssumption DEF IInv, Steps
<1>h. Handled(k, step, cmd)
  BY <1>0, HandlesFacts
<1> USE <1>0, <1>h DEF Handled
<1>1. TypeOK'
  <2>1. wire' \subseteq Commands
    BY DEF TypeOK, Commands, Things, Sessions, Handles
  <2> QED
    BY <2>1 DEF TypeOK
<1>2. Addressed'
  BY DEF IInv, Addressed, Sessions
<1>3. Unheard'
  BY DEF IInv, Unheard
<1>4. Frames'
  <2> SUFFICES ASSUME NEW j \in Children PROVE ChildKnown(j)'
    BY DEF Frames
  <2>1. ChildKnown(j)
    BY DEF IInv, Frames
  <2>2. CASE j = k
    BY <2>1, <2>2 DEF ChildKnown, Down
  <2>3. CASE j # k
    BY <2>1, <2>3 DEF ChildKnown, Down
  <2> QED
    BY <2>2, <2>3
<1>5. Asked'
  BY DEF IInv, Asked, RequestKnown, Down
<1>6. Ends'
  BY DEF IInv, Ends
<1> QED
  BY <1>1, <1>2, <1>3, <1>4, <1>5, <1>6 DEF IInv

\* A handler of a request does, if it continues only what was judged fit and
\* forgets only what the browser has taken.
LEMMA RequestHandled ==
    ASSUME IInv, NEW r \in Requests, NEW step \in {"continue", "fail", "done"},
           NEW cmd \in {"continue", "fail"}, Handles(r, step, cmd),
           allowed' = allowed \/ allowed' = allowed \cup {r},
           cmd = "continue" => r \in allowed',
           outstanding' = outstanding \/ (Ok(r) /\ outstanding' = outstanding \ {r})
    PROVE  IInv'
<1>0. /\ TypeOK /\ r \in Requests \cup Children /\ step \in Steps
      /\ r \notin Sessions /\ r \notin Children
  BY RenderAssumption DEF IInv, Steps, Sessions
<1>h. Handled(r, step, cmd)
  BY <1>0, HandlesFacts
<1> USE <1>0, <1>h DEF Handled
<1>1. TypeOK'
  <2>1. wire' \subseteq Commands
    BY DEF TypeOK, Commands, Things, Handles
  <2> QED
    BY <2>1 DEF TypeOK
<1>2. Addressed'
  BY DEF IInv, Addressed
<1>3. Unheard'
  BY DEF IInv, Unheard
<1>4. Frames'
  <2> SUFFICES ASSUME NEW j \in Children PROVE ChildKnown(j)'
    BY DEF Frames
  <2>1. ChildKnown(j) /\ j # r
    BY DEF IInv, Frames
  <2> QED
    BY <2>1 DEF ChildKnown, Down
<1>5. Asked'
  <2> SUFFICES ASSUME NEW q \in Requests PROVE RequestKnown(q)'
    BY DEF IInv, Asked
  <2>1. RequestKnown(q) /\ RequestKnown(r)
    BY DEF IInv, Asked
  <2>2. CASE q = r
    BY <2>1, <2>2 DEF RequestKnown, Down, Ok
  <2>3. CASE q # r
    BY <2>1, <2>3 DEF RequestKnown, Down
  <2> QED
    BY <2>2, <2>3
<1>6. Ends'
  BY DEF IInv, Ends
<1> QED
  BY <1>1, <1>2, <1>3, <1>4, <1>5, <1>6 DEF IInv

\* Judge, Answered and FailLeftover are such handlers.
LEMMA RequestStep ==
    ASSUME IInv, NEW r \in Requests, Judge(r) \/ Answered(r) \/ FailLeftover(r)
    PROVE  IInv'
<1>1. CASE Judge(r)
  <2>1. CASE allowed' = allowed \cup {r} /\ Then(r, "continue") /\ Send({<<"continue", r>>})
    <3>1. Handles(r, "continue", "continue") /\ outstanding' = outstanding
      BY <1>1, <2>1 DEF Judge, Handles, Send
    <3> QED
      BY <2>1, <3>1, RequestHandled
  <2>2. CASE UNCHANGED allowed /\ Then(r, "fail") /\ Send({<<"fail", r>>})
    <3>1. Handles(r, "fail", "fail") /\ outstanding' = outstanding
      BY <1>1, <2>2 DEF Judge, Handles, Send
    <3> QED
      BY <2>2, <3>1, RequestHandled
  <2> QED
    BY <1>1, <2>1, <2>2 DEF Judge
<1>2. CASE Answered(r)
  <2>1. /\ Handles(r, "done", "fail") /\ allowed' = allowed
        /\ outstanding' = outstanding \/ (Ok(r) /\ outstanding' = outstanding \ {r})
    BY <1>2 DEF Answered, Settled, Handles
  <2> QED
    BY <2>1, RequestHandled
<1>3. CASE FailLeftover(r)
  <2>1. Handles(r, "fail", "fail") /\ allowed' = allowed /\ outstanding' = outstanding
    BY <1>3 DEF FailLeftover, Handles, Send
  <2> QED
    BY <2>1, RequestHandled
<1> QED
  BY <1>1, <1>2, <1>3

\* Guarded, LetGo, Unguarded and Resumed are: a frame is run only from "attach",
\* which it reaches with Fetch enabled, and a worker was refused it.
LEMMA ChildStep ==
    ASSUME IInv, NEW k \in Children, Guarded(k) \/ LetGo(k) \/ Unguarded(k) \/ Resumed(k)
    PROVE  IInv'
<1>0. ChildKnown(k)
  BY DEF IInv, Frames
<1>1. CASE Guarded(k)
  <2>1. Handles(k, "attach", "attach") /\ UNCHANGED <<outstanding, allowed>>
    BY <1>1 DEF Guarded, Handles, Send
  <2>2. handler[k] # "none" /\ k \in guarded
    BY <1>0, <1>1 DEF Guarded, At, Ok, ChildKnown
  <2> QED
    BY <2>1, <2>2, ChildHandled
<1>2. CASE LetGo(k)
  <2>1. Handles(k, "done", "run") /\ UNCHANGED <<outstanding, allowed>>
    BY <1>2 DEF LetGo, Handles, Send
  <2>2. handler[k] # "none" /\ k \in guarded
    BY <1>0, <1>2 DEF LetGo, At, ChildKnown
  <2> QED
    BY <2>1, <2>2, ChildHandled
<1>3. CASE Unguarded(k)
  <2>1. handler[k] # "none" /\ UNCHANGED <<outstanding, allowed>>
    BY <1>3 DEF Unguarded, At
  <2>2. CASE MayResume(k)
    <3>1. Handles(k, "resume", "run") /\ child[k].kind = "worker"
      BY <1>3, <2>2 DEF Unguarded, Handles, Send, MayResume
    <3> QED
      BY <2>1, <3>1, ChildHandled
  <2>3. CASE ~MayResume(k)
    <3>1. Handles(k, "done", "close")
      BY <1>3, <2>3 DEF Unguarded, Handles, Send
    <3> QED
      BY <2>1, <3>1, ChildHandled
  <2> QED
    BY <2>2, <2>3
<1>4. CASE Resumed(k)
  <2>1. /\ Handles(k, "done", "close") /\ handler[k] # "none"
        /\ UNCHANGED <<outstanding, allowed>>
    BY <1>4 DEF Resumed, At, Handles, Send
  <2> QED
    BY <2>1, ChildHandled
<1> QED
  BY <1>1, <1>2, <1>3, <1>4

-----------------------------------------------------------------------------
(* The render. *)

\* The render keeps its pump or drops it, may write the close of its target,
\* and may let go of the connection.
Renders ==
    /\ UNCHANGED <<outstanding, ours, seen, page, allowed>>
    /\ UNCHANGED <<handler, ring, back>> \/ DropPump
    /\ wire' \in {wire, wire \cup {<<"close", Page>>}}
    /\ conn' = conn \/ (conn = "up" /\ conn' = "shut")

Rendered ==
    /\ UNCHANGED <<outstanding, ours, seen, target, navigated, guarded, watched, child, home,
                   req, from, allowed>>
    /\ handler' \in [Requests \cup Children -> Steps]
    /\ \A x \in Requests \cup Children : handler'[x] \in {handler[x], "none"}
    /\ back' = {} \/ (back' = back /\ handler' = handler)
    /\ ring' = <<>> \/ (ring' = ring /\ handler' = handler)
    /\ \A c \in wire' : c \in wire \/ (c[1] = "close" /\ c[2] = Page)
    /\ \A d, y : <<d, y>> \in wire' => <<d, y>> \in wire \/ (d = "close" /\ y = Page)
    /\ wire \subseteq wire'
    /\ Down' = Down

\* Renders, thing by thing.
LEMMA RendersFacts == ASSUME TypeOK, Renders PROVE Rendered
<1>1. /\ \A c \in wire' : c \in wire \/ (c[1] = "close" /\ c[2] = Page)
      /\ \A d, y : <<d, y>> \in wire' => <<d, y>> \in wire \/ (d = "close" /\ y = Page)
      /\ wire \subseteq wire'
  BY DEF Renders
<1>2. Down' = Down
  BY DEF Renders, Down
<1>3. /\ handler' \in [Requests \cup Children -> Steps]
      /\ \A x \in Requests \cup Children : handler'[x] \in {handler[x], "none"}
      /\ back' = {} \/ (back' = back /\ handler' = handler)
      /\ ring' = <<>> \/ (ring' = ring /\ handler' = handler)
  BY DEF Renders, DropPump, TypeOK, Steps
<1> QED
  BY <1>1, <1>2, <1>3 DEF Renders, Rendered, page

\* Such a step keeps the invariant, if it keeps what is known of the end.
LEMMA RenderKeeps ==
    ASSUME IInv, Renders, phase' \in Phases \ {"attach"}, Ends'
    PROVE  IInv'
<1>0. TypeOK /\ Page \notin Children /\ Page \notin Requests /\ RingSize \in Nat
  BY RenderAssumption DEF IInv
<1>h. Rendered
  BY <1>0, RendersFacts
<1> USE <1>0, <1>h DEF Rendered
<1>1. TypeOK'
  <2>1. wire' \subseteq Commands
    BY DEF TypeOK, Commands, Things, Sessions, Renders
  <2>2. ring' \in Seq(Events) /\ Len(ring') <= RingSize
    <3>1. <<>> \in Seq(Events) /\ Len(<<>>) <= RingSize
      BY RenderAssumption
    <3>2. ring \in Seq(Events) /\ Len(ring) <= RingSize
      BY DEF TypeOK
    <3> QED
      BY <3>1, <3>2
  <2>3. conn' \in {"up", "shut", "ended", "broken"}
    BY DEF TypeOK, Renders
  <2> QED
    BY <2>1, <2>2, <2>3 DEF TypeOK
<1>2. Addressed'
  BY DEF IInv, Addressed, Sessions
<1>3. Unheard'
  BY DEF IInv, Unheard
<1>4. Frames'
  <2> SUFFICES ASSUME NEW j \in Children PROVE ChildKnown(j)'
    BY DEF Frames
  <2>1. ChildKnown(j)
    BY DEF IInv, Frames
  <2> QED
    BY <2>1 DEF ChildKnown
<1>5. Asked'
  <2>1. navigated \/ phase = "attach" => Page \in guarded
    BY DEF IInv, Asked
  <2>2. ASSUME NEW q \in Requests PROVE RequestKnown(q)'
    <3>1. RequestKnown(q)
      BY DEF IInv, Asked
    <3> QED
      BY <3>1 DEF RequestKnown
  <2> QED
    BY <2>1, <2>2 DEF Asked
<1> QED
  BY <1>1, <1>2, <1>3, <1>4, <1>5 DEF IInv

\* WorkEnds and TeardownEnds, the ways to close the target, and the ways the
\* connection is let go: after the close was written, but for a render that was
\* dropped before it could be.
LEMMA RenderStep ==
    ASSUME IInv,
           \/ WorkEnds \/ TeardownEnds \/ CloseTarget \/ Unstick
           \/ CloseConnection \/ Cancel \/ Reap \/ CancelLate
    PROVE  IInv'
<1>0. Ends
  BY DEF IInv
<1>1. CASE WorkEnds \/ TeardownEnds \/ Cancel
  <2>1. Renders /\ phase' \in Phases \ {"attach"}
    BY <1>1 DEF WorkEnds, TeardownEnds, Cancel, Renders, Phases, pump, socket
  <2>2. Ends'
    BY <1>0, <1>1 DEF WorkEnds, TeardownEnds, Cancel, Ends, pump, socket, page
  <2> QED
    BY <2>1, <2>2, RenderKeeps
<1>2. CASE CloseTarget \/ Unstick \/ Reap
  <2>1. Renders /\ phase' \in Phases \ {"attach"}
    BY <1>2 DEF CloseTarget, Unstick, Reap, Send, Renders, Phases, pump
  <2>2. Ends'
    BY <1>0, <1>2 DEF CloseTarget, Unstick, Reap, Send, Ends, page
  <2> QED
    BY <2>1, <2>2, RenderKeeps
<1>3. CASE CloseConnection \/ CancelLate
  <2>1. Renders /\ phase' \in Phases \ {"attach"}
    BY <1>3 DEF CloseConnection, CancelLate, HangUp, Renders, Phases, pump
  <2>2. Ends'
    BY <1>0, <1>3 DEF CloseConnection, CancelLate, HangUp, Ends, page
  <2> QED
    BY <2>1, <2>2, RenderKeeps
<1> QED
  BY <1>1, <1>2, <1>3

\* The page is told to load only once its own Fetch is enabled.
LEMMA BeginStep == ASSUME IInv, EnableFetch \/ AutoAttach PROVE IInv'
<1>0. TypeOK /\ Page \notin Children /\ Page \notin Requests
  BY RenderAssumption DEF IInv
<1> USE <1>0
<1>1. /\ guarded' \in {guarded, guarded \cup {Page}} /\ watched' \in {watched, watched \cup {Page}}
      /\ phase' \in {"attach", "close", "work"} /\ phase \in {"enable", "attach"}
      /\ navigated' \in {navigated, TRUE}
      /\ UNCHANGED <<outstanding, ours, handler, seen, ring, conn, wire, back, target, child,
                     home, req, from, allowed>>
  BY DEF EnableFetch, AutoAttach, pump, socket
<1>2. TypeOK'
  BY <1>1 DEF TypeOK, Sessions, Phases
<1>3. Addressed' /\ Unheard'
  BY <1>1 DEF IInv, Addressed, Unheard
<1>4. Frames'
  <2> SUFFICES ASSUME NEW j \in Children PROVE ChildKnown(j)'
    BY DEF Frames
  <2>1. ChildKnown(j)
    BY DEF IInv, Frames
  <2>2. j \in guarded' <=> j \in guarded
    BY <1>1
  <2>3. navigated => navigated'
    BY <1>1
  <2> QED
    BY <1>1, <2>1, <2>2, <2>3 DEF ChildKnown, Down
<1>5. Asked'
  <2>1. navigated' \/ phase' = "attach" => Page \in guarded'
    BY DEF IInv, Asked, EnableFetch, AutoAttach
  <2>2. ASSUME NEW q \in Requests PROVE RequestKnown(q)'
    <3>1. RequestKnown(q)
      BY DEF IInv, Asked
    <3>2. Children \ guarded' = Children \ guarded
      BY <1>1
    <3> QED
      BY <1>1, <3>1, <3>2 DEF RequestKnown, Down
  <2> QED
    BY <2>1, <2>2 DEF Asked
<1>6. Ends'
  BY <1>1 DEF IInv, Ends
<1> QED
  BY <1>2, <1>3, <1>4, <1>5, <1>6 DEF IInv

-----------------------------------------------------------------------------
(* The pump's events. *)

\* An event that is ours is recorded before its handler begins; it was the only
\* one of its kind in the ring.
LEMMA ReceiveStep == ASSUME IInv, Receive PROVE IInv'
<1> DEFINE x == Head(ring)[2]
<1>0. TypeOK /\ Page \notin Children /\ Requests \cap Children = {}
  BY RenderAssumption DEF IInv
<1>1. /\ Head(ring) \in Events /\ (\E j \in DOMAIN ring : Head(ring) = ring[j])
      /\ ring' \in Seq(Events) /\ Len(ring') = Len(ring) - 1
      /\ \A i \in DOMAIN ring' : \E j \in DOMAIN ring : ring'[i] = ring[j]
      /\ \A i, j \in DOMAIN ring' : ring'[i] = ring'[j] => i = j
      /\ \A i \in DOMAIN ring' : ring'[i] # Head(ring)
  <2>1. ring \in Seq(Events) /\ ring # <<>> /\ ring' = Tail(ring)
    BY <1>0 DEF Receive, TypeOK
  <2>2. \A i, j \in DOMAIN ring : ring[i] = ring[j] => i = j
    BY DEF IInv, Unheard
  <2> QED
    BY <2>1, <2>2, TailRing
<1>2. Len(ring') <= RingSize
  <2>1. RingSize \in Nat /\ Len(ring) \in Nat /\ Len(ring) <= RingSize
    BY <1>0, RenderAssumption DEF TypeOK
  <2> QED
    BY <1>1, <2>1
<1>3. UNCHANGED <<phase, conn, back, target, navigated, guarded, watched, child, home, req,
                  from, allowed>>
  BY DEF Receive, page
<1> USE <1>0
<1>4. CASE /\ Head(ring)[1] = "paused" /\ outstanding' = outstanding \cup {x}
           /\ handler' = [handler EXCEPT ![x] = "check"] /\ seen' = seen \cup {x}
           /\ UNCHANGED <<ours, wire>>
  <2>1. x \in Requests /\ Head(ring) = <<"paused", x>> /\ req[x] # "none"
    BY <1>1, <1>4 DEF Events, IInv, Unheard
  <2> HIDE DEF x
  <2>2. TypeOK'
    BY <1>1, <1>2, <1>3, <1>4, <2>1 DEF TypeOK, Steps
  <2>3. Addressed' /\ Ends'
    BY <1>3, <1>4 DEF IInv, Addressed, Ends
  <2>4. Unheard'
    BY <1>1, <1>3, <1>4, <2>1 DEF IInv, TypeOK, Unheard
  <2>5. Frames'
    BY <1>3, <1>4, <2>1 DEF IInv, TypeOK, Frames, ChildKnown, Down
  <2>6. Asked'
    BY <1>3, <1>4, <2>1 DEF IInv, Asked, RequestKnown, Down
  <2> QED
    BY <2>2, <2>3, <2>4, <2>5, <2>6 DEF IInv
<1>5. CASE /\ Head(ring)[1] = "attached" /\ ours' = ours \cup {x}
           /\ handler' = [handler EXCEPT ![x] = "enable"] /\ Send({<<"enable", x>>})
           /\ UNCHANGED <<outstanding, seen>>
  <2>1. /\ x \in Children /\ Head(ring) = <<"attached", x>>
        /\ child[x].state # "none" /\ handler[x] = "none"
    BY <1>1, <1>5 DEF Events, IInv, Unheard
  <2> HIDE DEF x
  <2>2. /\ \A c \in wire' : c \in wire \/ (c[1] = "enable" /\ c[2] = x)
        /\ \A d, y : <<d, y>> \in wire' => <<d, y>> \in wire \/ (d = "enable" /\ y = x)
        /\ wire \subseteq wire'
    BY <1>5 DEF Send
  <2>3. /\ handler' \in [Requests \cup Children -> Steps] /\ handler'[x] = "enable"
        /\ \A y \in Requests \cup Children : y # x => handler'[y] = handler[y]
    BY <1>5, <2>1 DEF TypeOK, Steps
  <2>4. TypeOK'
    <3>1. wire' \subseteq Commands
      BY <1>5, <2>1 DEF TypeOK, Send, Commands, Things, Sessions
    <3> QED
      BY <1>1, <1>2, <1>3, <1>5, <2>1, <2>3, <3>1 DEF TypeOK
  <2>5. Addressed'
    BY <2>1, <2>2 DEF IInv, Addressed, Sessions
  <2>6. Unheard'
    <3>1. ASSUME NEW i \in DOMAIN ring'
          PROVE  /\ \A k \in Children : ring'[i] = <<"attached", k>> =>
                       k # x /\ handler[k] = "none" /\ child[k].state # "none"
                 /\ \A r \in Requests : ring'[i] = <<"paused", r>> => req[r] # "none"
      <4>1. PICK j \in DOMAIN ring : ring'[i] = ring[j]
        BY <1>1
      <4>2. ring'[i] # <<"attached", x>>
        BY <1>1, <2>1
      <4> QED
        BY <4>1, <4>2 DEF IInv, Unheard
    <3> QED
      BY <1>1, <1>3, <2>3, <3>1 DEF Unheard
  <2>7. Frames'
    <3> SUFFICES ASSUME NEW j \in Children PROVE ChildKnown(j)'
      BY DEF Frames
    <3>1. ChildKnown(j)
      BY DEF IInv, Frames
    <3> QED
      BY <1>3, <2>1, <2>2, <2>3, <3>1 DEF ChildKnown, Down
  <2>8. Asked'
    <3> SUFFICES ASSUME NEW q \in Requests PROVE RequestKnown(q)'
      BY <1>3 DEF IInv, Asked
    <3>1. RequestKnown(q)
      BY DEF IInv, Asked
    <3> QED
      BY <1>3, <1>5, <2>2, <3>1 DEF RequestKnown, Down
  <2>9. Ends'
    BY <1>3, <2>2 DEF IInv, Ends
  <2> QED
    BY <2>4, <2>5, <2>6, <2>7, <2>8, <2>9 DEF IInv
<1>6. CASE UNCHANGED <<pump, wire>>
  <2>1. UNCHANGED <<outstanding, ours, handler, seen, wire>>
    BY <1>6 DEF pump
  <2>2. TypeOK'
    BY <1>1, <1>2, <1>3, <2>1 DEF TypeOK
  <2>3. Addressed' /\ Unheard' /\ Ends'
    BY <1>1, <1>3, <2>1 DEF IInv, Addressed, Unheard, Ends
  <2>4. Frames' /\ Asked'
    BY <1>3, <2>1 DEF IInv, Frames, ChildKnown, Asked, RequestKnown, Down
  <2> QED
    BY <2>2, <2>3, <2>4 DEF IInv
<1> QED
  BY <1>4, <1>5, <1>6 DEF Receive

-----------------------------------------------------------------------------
(* The browser. *)

\* The end of the connection lets everything go that was held or paused.
LEMMA ReleaseStep == ASSUME IInv, Break \/ Detach PROVE IInv'
<1>0. TypeOK
  BY DEF IInv
<1>1. /\ Down' /\ conn' \in {"ended", "broken"} /\ wire' = {}
      /\ UNCHANGED <<phase, outstanding, ours, handler, seen, ring, back, target, navigated,
                     guarded, watched, home, from, allowed>>
  BY DEF Break, Detach, Release, Down, pump
<1>2. /\ req' \in [Requests -> {"none", "paused", "sent", "failed", "free", "gone"}]
      /\ \A r \in Requests : req'[r] = req[r] \/ (req[r] = "paused" /\ req'[r] = "free")
      /\ \A r \in Requests : req'[r] # "paused"
  BY <1>0 DEF Break, Detach, Release, TypeOK
<1>3. /\ child' \in [Children -> [state : States, kind : Kinds]]
      /\ \A k \in Children :
            /\ child'[k].kind = child[k].kind
            /\ child'[k].state = child[k].state
                  \/ (child[k].state = "held" /\ child'[k].state = "loose")
            /\ child'[k].state # "held"
  <2>1. child' = [k \in Children |-> IF child[k].state = "held"
                                     THEN [child[k] EXCEPT !.state = "loose"] ELSE child[k]]
    BY DEF Break, Detach, Release
  <2>2. \A k \in Children : child[k] \in [state : States, kind : Kinds]
    BY <1>0 DEF TypeOK
  <2> QED
    BY <2>1, <2>2 DEF States
<1>4. TypeOK'
  BY <1>0, <1>1, <1>2, <1>3 DEF TypeOK
<1>5. Addressed'
  BY <1>1 DEF Addressed
<1>6. Unheard'
  BY <1>1, <1>2, <1>3 DEF IInv, Unheard
<1>7. Frames'
  <2> SUFFICES ASSUME NEW j \in Children PROVE ChildKnown(j)'
    BY DEF Frames
  <2>1. ChildKnown(j)
    BY DEF IInv, Frames
  <2> QED
    BY <1>1, <1>3, <2>1 DEF ChildKnown
<1>8. Asked'
  BY <1>1, <1>2 DEF IInv, Asked, RequestKnown
<1>9. Ends'
  <2>1. phase' \notin {"end", "dropped"} => conn' \in {"up", "broken"}
    BY <1>1 DEF IInv, Ends, Break, Detach, Release
  <2> QED
    BY <1>1, <1>2, <1>3, <2>1 DEF Ends
<1> QED
  BY <1>4, <1>5, <1>6, <1>7, <1>8, <1>9 DEF IInv

\* A request pauses on a session that has its guard, or is free because the
\* session has none; the page that loads has one.
LEMMA AskStep == ASSUME IInv, NEW r \in Requests, NEW s \in Sessions, Ask(r, s) PROVE IInv'
<1>0. TypeOK /\ Page \notin Children /\ Requests \cap Children = {}
  BY RenderAssumption DEF IInv
<1> DEFINE on == PausesOn(s)
<1>1. /\ target = "open" /\ req[r] = "none" /\ Runs(s)
      /\ from' = [from EXCEPT ![r] = on] /\ on \in Sessions
      /\ UNCHANGED <<phase, outstanding, ours, handler, seen, conn, wire, back, target,
                     navigated, guarded, watched, child, home, allowed>>
  BY <1>0, AskFacts
<1>2. /\ req' \in [Requests -> {"none", "paused", "sent", "failed", "free", "gone"}]
      /\ \A q \in Requests : q # r => req'[q] = req[q]
      /\ req'[r] = "paused" \/ (req'[r] = "free" /\ ~(on \in guarded /\ ~Down))
      /\ from' \in [Requests -> Sessions] /\ from'[r] = on
      /\ \A q \in Requests : q # r => from'[q] = from[q]
  <2>1. \/ req' = [req EXCEPT ![r] = "paused"]
        \/ req' = [req EXCEPT ![r] = "free"] /\ ~(on \in guarded /\ ~Down)
    BY <1>0, AskFacts
  <2>2. /\ req \in [Requests -> {"none", "paused", "sent", "failed", "free", "gone"}]
        /\ from \in [Requests -> Sessions]
    BY <1>0 DEF TypeOK
  <2> HIDE DEF on
  <2> QED
    BY <1>1, <2>1, <2>2
<1>3. /\ ring' \in Seq(Events) /\ Len(ring') <= RingSize
      /\ \A i \in DOMAIN ring' :
            ring'[i] = <<"paused", r>> \/ \E j \in DOMAIN ring : ring'[i] = ring[j]
      /\ \A i, j \in DOMAIN ring' : ring'[i] = ring'[j] => i = j
  <2>1. <<"paused", r>> \in Events
    BY DEF Events
  <2>2. \A i \in DOMAIN ring : ring[i] # <<"paused", r>>
    BY <1>1 DEF IInv, Unheard
  <2>3. CASE Emit(<<"paused", r>>)
    BY <1>0, <2>1, <2>2, <2>3, EmitRing DEF IInv, Unheard
  <2>4. CASE ring' = ring
    BY <1>0, <2>4 DEF IInv, TypeOK, Unheard
  <2> QED
    BY <1>0, <2>3, <2>4, AskFacts
<1>4. on \in Children /\ on \notin guarded /\ ~Down => child[on].state \in {"loose", "gone"}
  <2>1. CASE s = Page
    BY <1>0, <2>1 DEF PausesOn
  <2>2. CASE s \in Children
    <3>1. ChildKnown(s)
      BY <2>2 DEF IInv, Frames
    <3>2. on = Page \/ (on = s /\ child[s].kind # "worker")
      BY <2>2 DEF PausesOn
    <3>3. child[s].state \in {"running", "loose"} /\ child[s].kind \in Kinds
      BY <1>0, <1>1, <2>2 DEF Runs, TypeOK
    <3> QED
      BY <1>0, <3>1, <3>2, <3>3 DEF ChildKnown
  <2> QED
    BY <2>1, <2>2 DEF Sessions
<1>5. on = Page => Page \in guarded
  <2>1. navigated
    <3>1. CASE s = Page
      BY <1>1, <3>1 DEF Runs
    <3>2. CASE s \in Children
      BY <1>0, <1>1, <3>2 DEF Runs, IInv, Frames, ChildKnown
    <3> QED
      BY <3>1, <3>2 DEF Sessions
  <2> QED
    BY <2>1 DEF IInv, Asked
<1> HIDE DEF on
<1>6. TypeOK'
  BY <1>0, <1>1, <1>2, <1>3 DEF TypeOK
<1>7. Addressed'
  BY <1>1 DEF IInv, Addressed
<1>8. Unheard'
  <2>1. ASSUME NEW i \in DOMAIN ring'
        PROVE  /\ \A k \in Children : ring'[i] = <<"attached", k>> =>
                     handler[k] = "none" /\ child[k].state # "none"
               /\ \A q \in Requests : ring'[i] = <<"paused", q>> => req'[q] # "none"
    <3>1. CASE ring'[i] = <<"paused", r>>
      BY <1>2, <3>1
    <3>2. CASE \E j \in DOMAIN ring : ring'[i] = ring[j]
      BY <1>2, <3>2 DEF IInv, Unheard
    <3> QED
      BY <1>3, <3>1, <3>2
  <2> QED
    BY <1>1, <1>3, <2>1 DEF Unheard
<1>9. Frames'
  BY <1>1 DEF IInv, Frames, ChildKnown, Down
<1>10. Asked'
  <2> SUFFICES ASSUME NEW q \in Requests PROVE RequestKnown(q)'
    BY <1>1 DEF IInv, Asked
  <2>1. RequestKnown(q) /\ RequestKnown(r)
    BY DEF IInv, Asked
  <2>2. CASE q = r
    <3>1. /\ req'[r] \in {"paused", "free"} /\ <<"continue", r>> \in wire => r \in allowed
          /\ <<r, TRUE>> \notin back /\ r \notin seen
      BY <1>1, <1>2, <2>1 DEF RequestKnown
    <3>2. req'[r] = "free" /\ ~Down =>
             on \in Children \ guarded /\ child[on].state \in {"loose", "gone"}
      BY <1>1, <1>2, <1>4, <1>5 DEF Sessions
    <3> QED
      BY <1>1, <1>2, <2>1, <2>2, <3>1, <3>2 DEF RequestKnown, Down
  <2>3. CASE q # r
    BY <1>1, <1>2, <2>1, <2>3 DEF RequestKnown, Down
  <2> QED
    BY <2>2, <2>3
<1>11. Ends'
  BY <1>1 DEF IInv, Ends
<1> QED
  BY <1>6, <1>7, <1>8, <1>9, <1>10, <1>11 DEF IInv

\* A child is held, or loose: nothing watches for it, or it does not attach.
LEMMA SpawnStep ==
    ASSUME IInv, NEW k \in Children, NEW s \in Sessions, NEW kind \in Kinds,
           Spawn(k, s, kind)
    PROVE  IInv'
<1>0. TypeOK /\ Page \notin Children /\ Requests \cap Children = {}
  BY RenderAssumption DEF IInv
<1>1. /\ target = "open" /\ child[k].state = "none" /\ Runs(s)
      /\ UNCHANGED <<phase, outstanding, ours, handler, seen, conn, wire, back, target,
                     navigated, guarded, watched, req, from, allowed>>
  BY <1>0, SpawnFacts
<1>2. /\ child' \in [Children -> [state : States, kind : Kinds]]
      /\ \A j \in Children : j # k => child'[j] = child[j]
      /\ child'[k].state \in {"held", "loose"}
      /\ home' \in [Children -> Sessions]
  <2>1. PICK state \in {"held", "loose"} :
            child' = [child EXCEPT ![k] = [state |-> state, kind |-> kind]]
    BY DEF Spawn
  <2>2. home' = [home EXCEPT ![k] = s]
    BY DEF Spawn
  <2>3. /\ child \in [Children -> [state : States, kind : Kinds]]
        /\ home \in [Children -> Sessions]
        /\ [state |-> state, kind |-> kind] \in [state : States, kind : Kinds]
    BY <1>0 DEF TypeOK, States
  <2> QED
    BY <2>1, <2>2, <2>3
<1>3. ChildKnown(k) /\ handler[k] = "none" /\ k \notin guarded /\ \A c \in wire : c[2] # k
  BY <1>1 DEF IInv, Frames, ChildKnown
<1>4. /\ ring' \in Seq(Events) /\ Len(ring') <= RingSize
      /\ \A i \in DOMAIN ring' :
            ring'[i] = <<"attached", k>> \/ \E j \in DOMAIN ring : ring'[i] = ring[j]
      /\ \A i, j \in DOMAIN ring' : ring'[i] = ring'[j] => i = j
  <2>1. <<"attached", k>> \in Events
    BY DEF Events
  <2>2. \A i \in DOMAIN ring : ring[i] # <<"attached", k>>
    BY <1>1 DEF IInv, Unheard
  <2>3. CASE Emit(<<"attached", k>>)
    BY <1>0, <2>1, <2>2, <2>3, EmitRing DEF IInv, Unheard
  <2>4. CASE ring' = ring
    BY <1>0, <2>4 DEF IInv, TypeOK, Unheard
  <2> QED
    BY <1>0, <2>3, <2>4, SpawnFacts
<1>5. navigated
  <2>1. CASE s = Page
    BY <1>1, <2>1 DEF Runs
  <2>2. CASE s \in Children
    BY <1>0, <1>1, <2>2 DEF Runs, IInv, Frames, ChildKnown
  <2> QED
    BY <2>1, <2>2 DEF Sessions
<1>6. TypeOK'
  BY <1>0, <1>1, <1>2, <1>4 DEF TypeOK
<1>7. Addressed'
  BY <1>1 DEF IInv, Addressed
<1>8. Unheard'
  <2>1. ASSUME NEW i \in DOMAIN ring'
        PROVE  /\ \A j \in Children : ring'[i] = <<"attached", j>> =>
                     handler[j] = "none" /\ child'[j].state # "none"
               /\ \A q \in Requests : ring'[i] = <<"paused", q>> => req[q] # "none"
    <3>1. CASE ring'[i] = <<"attached", k>>
      BY <1>2, <1>3, <3>1
    <3>2. CASE \E j \in DOMAIN ring : ring'[i] = ring[j]
      BY <1>2, <3>2 DEF IInv, Unheard
    <3> QED
      BY <1>4, <3>1, <3>2
  <2> QED
    BY <1>1, <1>4, <2>1 DEF Unheard
<1>9. Frames'
  <2> SUFFICES ASSUME NEW j \in Children PROVE ChildKnown(j)'
    BY DEF Frames
  <2>1. ChildKnown(j)
    BY DEF IInv, Frames
  <2>2. CASE j = k
    <3>1. <<"run", k>> \notin wire
      BY <1>3
    <3> QED
      BY <1>1, <1>2, <1>3, <1>5, <2>2, <3>1 DEF ChildKnown
  <2>3. CASE j # k
    BY <1>1, <1>2, <2>1, <2>3 DEF ChildKnown, Down
  <2> QED
    BY <2>2, <2>3
<1>10. Asked'
  <2> SUFFICES ASSUME NEW q \in Requests PROVE RequestKnown(q)'
    BY <1>1 DEF IInv, Asked
  <2>1. RequestKnown(q)
    BY DEF IInv, Asked
  <2>2. from[q] = k => ~(child[k].state \in {"loose", "gone"})
    BY <1>1
  <2> QED
    BY <1>1, <1>2, <2>1, <2>2 DEF RequestKnown, Down
<1>11. Ends'
  BY <1>1 DEF IInv, Ends
<1> QED
  BY <1>6, <1>7, <1>8, <1>9, <1>10, <1>11 DEF IInv

\* What is gone takes its requests with it, and nothing else.
LEMMA GoneKeeps ==
    ASSUME IInv, NEW s \in Sessions, Gone(s), wire' \subseteq wire, back' \subseteq back,
           s # Page => wire' = wire \/ wire' = wire \ {<<"close", s>>},
           UNCHANGED <<phase, outstanding, ours, handler, seen, ring, conn, navigated,
                       guarded, watched, home, from, allowed>>
    PROVE  IInv'
<1> USE DEF Gone
<1>1. TypeOK'
  BY DEF IInv, TypeOK
<1>2. Addressed'
  BY DEF IInv, Addressed
<1>3. Unheard'
  BY DEF IInv, Unheard
<1>4. Frames'
  <2> SUFFICES ASSUME NEW j \in Children PROVE ChildKnown(j)'
    BY DEF Frames
  <2>1. ChildKnown(j)
    BY DEF IInv, Frames
  <2> QED
    BY <2>1 DEF ChildKnown, Down
<1>5. Asked'
  <2> SUFFICES ASSUME NEW q \in Requests PROVE RequestKnown(q)'
    BY DEF IInv, Asked
  <2>1. RequestKnown(q)
    BY DEF IInv, Asked
  <2> QED
    BY <2>1 DEF RequestKnown, Down
<1>6. Ends'
  <2>1. CASE s = Page
    BY <2>1 DEF IInv, Ends
  <2>2. CASE s # Page
    BY <2>2 DEF IInv, Ends
  <2> QED
    BY <2>1, <2>2
<1> QED
  BY <1>1, <1>2, <1>3, <1>4, <1>5, <1>6 DEF IInv

\* The page drops a frame.
LEMMA VanishStep == ASSUME IInv, NEW k \in Children, Vanish(k) PROVE IInv'
<1>1. Gone(k) /\ k \in Sessions /\ k # Page
  BY RenderAssumption, DieFacts DEF Vanish, IInv, Sessions
<1>2. /\ UNCHANGED <<phase, outstanding, ours, handler, seen, ring, conn, navigated, guarded,
                     watched, home, from, allowed>>
      /\ wire' = wire /\ back' = back
  BY DEF Vanish, pump, socket
<1> QED
  BY <1>1, <1>2, GoneKeeps

\* What every command served has in common.
Served(cmd, x) ==
    /\ ~Down /\ <<cmd, x>> \in wire /\ Same
    /\ wire' = wire \ {<<cmd, x>>} /\ wire' \subseteq Commands
    /\ back' \subseteq (Requests \cup Children) \X BOOLEAN
    /\ \A y : <<y, TRUE>> \in back' =>
          <<y, TRUE>> \in back \/ (y = x /\ CanTake(cmd, x) /\ Awaits(x, cmd))

\* Serve is one of these.
LEMMA ServedFacts ==
    ASSUME TypeOK, NEW cmd, NEW x, Serve(cmd, x)
    PROVE  Served(cmd, x)
<1>1. /\ ~Down /\ <<cmd, x>> \in wire /\ Same /\ wire' = wire \ {<<cmd, x>>}
      /\ \/ back' = back
         \/ Awaits(x, cmd) /\ CanTake(cmd, x) /\ back' = back \cup {<<x, TRUE>>}
         \/ Awaits(x, cmd) /\ back' = back \cup {<<x, FALSE>>}
  BY ServeFacts
<1>2. x \in Requests \cup Children \/ x = Page
  BY <1>1 DEF TypeOK, Commands, Things, Sessions
<1>3. Awaits(x, cmd) => x \in Requests \cup Children
  BY <1>2 DEF Awaits
<1>4. wire' \subseteq Commands
  BY <1>1 DEF TypeOK
<1>5. back' \subseteq (Requests \cup Children) \X BOOLEAN
  <2>1. back \subseteq (Requests \cup Children) \X BOOLEAN
    BY DEF TypeOK
  <2>2. Awaits(x, cmd) => \A done \in BOOLEAN : <<x, done>> \in (Requests \cup Children) \X BOOLEAN
    BY <1>3
  <2> QED
    BY <1>1, <2>1, <2>2
<1> QED
  BY <1>1, <1>4, <1>5 DEF Served

\* A command that is refused changes nothing of the page; the close of the page
\* is refused only when it is closed.
LEMMA RefusedStep ==
    ASSUME IInv, NEW cmd, NEW x, Served(cmd, x),
           ~CanTake(cmd, x) \/ cmd \in {"enable", "attach"},
           UNCHANGED <<target, guarded, watched, child, req>>,
           \A y : <<y, TRUE>> \in back' => <<y, TRUE>> \in back
    PROVE  IInv'
<1> USE DEF Served, Same
<1>1. TypeOK'
  BY DEF IInv, TypeOK
<1>2. Addressed'
  BY DEF IInv, Addressed
<1>3. Unheard'
  BY DEF IInv, Unheard
<1>4. Frames'
  <2> SUFFICES ASSUME NEW j \in Children PROVE ChildKnown(j)'
    BY DEF Frames
  <2>1. ChildKnown(j)
    BY DEF IInv, Frames
  <2> QED
    BY <2>1 DEF ChildKnown, Down
<1>5. Asked'
  <2> SUFFICES ASSUME NEW q \in Requests PROVE RequestKnown(q)'
    BY DEF IInv, Asked
  <2>1. RequestKnown(q)
    BY DEF IInv, Asked
  <2> QED
    BY <2>1 DEF RequestKnown, Down
<1>6. Ends'
  <2>1. cmd = "close" /\ x = Page => target = "closed"
    BY RenderAssumption DEF IInv, TypeOK, CanTake, Alive
  <2> QED
    BY <2>1 DEF IInv, Ends
<1> QED
  BY <1>1, <1>2, <1>3, <1>4, <1>5, <1>6 DEF IInv

\* Enabling the guard, or auto-attach, of a session that is there.
LEMMA EnableStep ==
    ASSUME IInv, NEW cmd \in {"enable", "attach"}, NEW x, Served(cmd, x), CanTake(cmd, x),
           guarded' \in {guarded, guarded \cup {x}}, watched' \in {watched, watched \cup {x}},
           cmd = "enable" => x \in guarded', cmd = "attach" => guarded' = guarded,
           UNCHANGED <<target, child, req>>
    PROVE  IInv'
<1> USE DEF Served, Same
<1>0. x \in Sessions /\ x \notin Requests
  BY RenderAssumption DEF IInv, Addressed, Sessions
<1>1. x \in Children => child[x].state \in {"held", "running"}
  BY <1>0 DEF CanTake, Alive
<1>2. TypeOK'
  BY <1>0 DEF IInv, TypeOK
<1>3. Addressed'
  BY DEF IInv, Addressed
<1>4. Unheard'
  BY DEF IInv, Unheard
<1>5. Frames'
  <2> SUFFICES ASSUME NEW j \in Children PROVE ChildKnown(j)'
    BY DEF Frames
  <2>1. ChildKnown(j)
    BY DEF IInv, Frames
  <2>2. CASE j = x
    <3>1. <<j, TRUE>> \in back' => <<j, TRUE>> \in back \/ handler[j] = cmd
      BY <2>2 DEF Awaits
    <3> QED
      BY <1>1, <2>1, <2>2, <3>1 DEF ChildKnown, Down
  <2>3. CASE j # x
    BY <2>1, <2>3 DEF ChildKnown, Down
  <2> QED
    BY <2>2, <2>3
<1>6. Asked'
  <2> SUFFICES ASSUME NEW q \in Requests PROVE RequestKnown(q)'
    BY DEF IInv, Asked
  <2>1. RequestKnown(q) /\ q # x
    BY <1>0 DEF IInv, Asked
  <2>2. req[q] = "free" /\ ~Down => from[q] # x
    BY <1>1, <2>1 DEF RequestKnown
  <2> QED
    BY <2>1, <2>2 DEF RequestKnown, Down
<1>7. Ends'
  BY DEF IInv, Ends
<1> QED
  BY <1>2, <1>3, <1>4, <1>5, <1>6, <1>7 DEF IInv

\* Letting a child run.
LEMMA RunStep ==
    ASSUME IInv, NEW x, Served("run", x), CanTake("run", x),
           child' = [child EXCEPT ![x].state = "running"],
           UNCHANGED <<target, guarded, watched, req>>
    PROVE  IInv'
<1> USE DEF Served, Same
<1>0. x \in Children /\ x \notin Requests
  BY RenderAssumption DEF IInv, Addressed
<1>1. child[x].state \in {"held", "running"} /\ target = "open"
  BY <1>0, RenderAssumption DEF CanTake, Alive
<1>2. /\ child' \in [Children -> [state : States, kind : Kinds]]
      /\ child'[x].state = "running" /\ child'[x].kind = child[x].kind
      /\ \A j \in Children : j # x => child'[j] = child[j]
  <2>1. /\ child \in [Children -> [state : States, kind : Kinds]]
        /\ child[x] \in [state : States, kind : Kinds]
    BY <1>0 DEF IInv, TypeOK
  <2> QED
    BY <1>0, <2>1 DEF States
<1>3. TypeOK'
  BY <1>2 DEF IInv, TypeOK
<1>4. Addressed'
  BY DEF IInv, Addressed
<1>5. Unheard'
  BY <1>2 DEF IInv, Unheard
<1>6. Frames'
  <2> SUFFICES ASSUME NEW j \in Children PROVE ChildKnown(j)'
    BY DEF Frames
  <2>1. ChildKnown(j)
    BY DEF IInv, Frames
  <2>2. CASE j = x
    <3>1. <<j, TRUE>> \in back' => <<j, TRUE>> \in back \/ handler[j] \in {"run", "resume"}
      BY <2>2 DEF Awaits
    <3> QED
      BY <1>1, <1>2, <2>1, <2>2, <3>1 DEF ChildKnown
  <2>3. CASE j # x
    BY <1>2, <2>1, <2>3 DEF ChildKnown, Down
  <2> QED
    BY <2>2, <2>3
<1>7. Asked'
  <2> SUFFICES ASSUME NEW q \in Requests PROVE RequestKnown(q)'
    BY DEF IInv, Asked
  <2>1. RequestKnown(q) /\ q # x
    BY <1>0 DEF IInv, Asked
  <2>2. req[q] = "free" /\ ~Down => from[q] # x
    BY <1>1, <2>1 DEF RequestKnown
  <2> QED
    BY <1>2, <2>1, <2>2 DEF RequestKnown, Down
<1>8. Ends'
  BY <1>1 DEF IInv, Ends
<1> QED
  BY <1>3, <1>4, <1>5, <1>6, <1>7, <1>8 DEF IInv

\* The answer to a request: it is sent only if it was judged fit.
LEMMA AnswerStep ==
    ASSUME IInv, NEW cmd, NEW x, NEW answer \in {"sent", "failed"}, Served(cmd, x),
           cmd = IF answer = "sent" THEN "continue" ELSE "fail",
           req' = [req EXCEPT ![x] = answer],
           UNCHANGED <<target, guarded, watched, child>>
    PROVE  IInv'
<1> USE DEF Served, Same
<1>0. x \in Requests /\ x \notin Children
  BY RenderAssumption DEF IInv, Addressed
<1>1. /\ req' \in [Requests -> {"none", "paused", "sent", "failed", "free", "gone"}]
      /\ req'[x] = answer /\ \A q \in Requests : q # x => req'[q] = req[q]
  BY <1>0 DEF IInv, TypeOK
<1>2. TypeOK'
  BY <1>1 DEF IInv, TypeOK
<1>3. Addressed'
  BY DEF IInv, Addressed
<1>4. Unheard'
  BY <1>1 DEF IInv, Unheard
<1>5. Frames'
  <2> SUFFICES ASSUME NEW j \in Children PROVE ChildKnown(j)'
    BY DEF Frames
  <2>1. ChildKnown(j) /\ j # x
    BY <1>0 DEF IInv, Frames
  <2> QED
    BY <2>1 DEF ChildKnown, Down
<1>6. Asked'
  <2> SUFFICES ASSUME NEW q \in Requests PROVE RequestKnown(q)'
    BY DEF IInv, Asked
  <2>1. RequestKnown(q)
    BY DEF IInv, Asked
  <2>2. CASE q = x
    <3>1. answer = "sent" => x \in allowed
      BY <2>1, <2>2 DEF RequestKnown
    <3> QED
      BY <1>1, <2>1, <2>2, <3>1 DEF RequestKnown
  <2>3. CASE q # x
    BY <1>1, <2>1, <2>3 DEF RequestKnown, Down
  <2> QED
    BY <2>2, <2>3
<1>7. Ends'
  BY <1>1 DEF IInv, Ends
<1> QED
  BY <1>2, <1>3, <1>4, <1>5, <1>6, <1>7 DEF IInv

\* Each command, carried out or refused.
LEMMA ServeStep == ASSUME IInv, NEW cmd, NEW x, Serve(cmd, x) PROVE IInv'
<1>0. TypeOK
  BY DEF IInv
<1>1. Served(cmd, x)
  BY <1>0, ServedFacts
<1>2. <<cmd, x>> \in wire /\ cmd \in {"enable", "attach", "run", "close", "continue", "fail"}
  BY <1>0, <1>1 DEF Served, TypeOK, Commands
<1>3. CASE /\ ~CanTake(cmd, x) \/ cmd \in {"enable", "attach"}
           /\ UNCHANGED <<target, guarded, watched, child, req>>
           /\ back' = back \/ back' = back \cup {<<x, FALSE>>}
  <2>1. ASSUME NEW y, <<y, TRUE>> \in back' PROVE <<y, TRUE>> \in back
    <3>1. <<y, TRUE>> # <<x, FALSE>>
      OBVIOUS
    <3> QED
      BY <1>3, <2>1, <3>1
  <2> QED
    BY <1>1, <1>3, <2>1, RefusedStep
<1>4. CASE CanTake(cmd, x) /\ Effect(cmd, x)
  <2>1. CASE cmd \in {"enable", "attach"}
    <3>1. /\ guarded' \in {guarded, guarded \cup {x}} /\ watched' \in {watched, watched \cup {x}}
          /\ cmd = "enable" => x \in guarded'
          /\ cmd = "attach" => guarded' = guarded
          /\ UNCHANGED <<target, child, req>>
      BY <1>4, <2>1 DEF Effect
    <3> QED
      BY <1>1, <1>4, <2>1, <3>1, EnableStep
  <2>2. CASE cmd = "run"
    <3>1. /\ child' = [child EXCEPT ![x].state = "running"]
          /\ UNCHANGED <<target, guarded, watched, req>>
      BY <1>4, <2>2 DEF Effect
    <3> QED
      BY <1>1, <1>4, <2>2, <3>1, RunStep
  <2>3. CASE cmd = "continue"
    <3>1. req' = [req EXCEPT ![x] = "sent"] /\ UNCHANGED <<target, guarded, watched, child>>
      BY <1>4, <2>3 DEF Effect
    <3> QED
      BY <1>1, <2>3, <3>1, AnswerStep
  <2>4. CASE cmd = "fail"
    <3>1. req' = [req EXCEPT ![x] = "failed"] /\ UNCHANGED <<target, guarded, watched, child>>
      BY <1>4, <2>4 DEF Effect
    <3> QED
      BY <1>1, <2>4, <3>1, AnswerStep
  <2>5. CASE cmd = "close"
    <3>1. x \in Sessions
      BY <1>2, <2>5 DEF IInv, Addressed
    <3>2. Gone(x) /\ UNCHANGED <<guarded, watched>>
      BY <1>0, <1>4, <2>5, <3>1, DieFacts DEF Effect
    <3>3. back' \subseteq back
      <4>1. x \in Requests \cup Children => handler[x] # "close"
        BY <1>0 DEF TypeOK, Steps
      <4>2. x \in Requests \cup Children \/ x = Page
        BY <3>1 DEF Sessions
      <4>3. ~Awaits(x, cmd)
        BY <2>5, <4>1, <4>2 DEF Awaits
      <4> QED
        BY <1>0, <4>3, ServeFacts
    <3>4. /\ wire' = wire \ {<<"close", x>>}
          /\ UNCHANGED <<phase, outstanding, ours, handler, seen, ring, conn, navigated, home,
                         from, allowed>>
      BY <1>1, <2>5 DEF Served, Same
    <3> QED
      BY <3>1, <3>2, <3>3, <3>4, GoneKeeps
  <2> QED
    BY <1>2, <2>1, <2>2, <2>3, <2>4, <2>5
<1> QED
  BY <1>0, <1>3, <1>4, ServeFacts

-----------------------------------------------------------------------------
(* The invariant. *)

\* Every step keeps the invariant.
LEMMA Inductive == IInv /\ [Next]_vars => IInv'
<1> SUFFICES ASSUME IInv, [Next]_vars PROVE IInv'
  OBVIOUS
<1>1. CASE Render
  BY <1>1, RenderStep, BeginStep, RequestStep DEF Render
<1>2. CASE Receive \/ Handle
  BY <1>2, ReceiveStep, RequestStep, ChildStep DEF Handle
<1>3. CASE Cancel \/ Reap \/ CancelLate
  BY <1>3, RenderStep
<1>4. CASE Browser
  BY <1>4, AskStep, SpawnStep, VanishStep, ServeStep DEF Browser
<1>5. CASE Break \/ Detach
  BY <1>5, ReleaseStep
<1>6. CASE UNCHANGED vars
  BY <1>6 DEF vars, pump, socket, page, IInv, TypeOK, Addressed, Unheard, Frames, ChildKnown,
     Asked, RequestKnown, Ends, Down
<1> QED
  BY <1>1, <1>2, <1>3, <1>4, <1>5, <1>6 DEF Next

\* What is known of the page, the pump and the render holds throughout.
THEOREM Invariance == Spec => []IInv
BY Initially, Inductive, PTL DEF Spec

-----------------------------------------------------------------------------
(* What follows. *)

\* The state is well typed, and what the pump received and the browser still
\* holds is on record when teardown begins (process_pause_event, teardown).
THEOREM RecordsAreSound == Spec => []RenderSound
<1>1. IInv => RenderSound
  <2> SUFFICES ASSUME IInv, NEW r \in seen, req[r] = "paused" PROVE r \in outstanding
    BY DEF IInv, RecordsCover, RenderSound
  <2>1. r \in Requests
    BY DEF IInv, TypeOK
  <2> QED
    BY <2>1 DEF IInv, Asked, RequestKnown
<1> QED
  BY <1>1, Invariance, PTL

\* No request leaves the browser unless the pump judged it fit: a free one is of
\* a connection that is down or of a child that never got a guard.
THEOREM NothingGoesUnjudged == Spec => []NothingUnjudged
<1>1. IInv => NothingUnjudged
  <2> SUFFICES ASSUME IInv, NEW r \in Requests, req[r] = "free", ~Down
               PROVE  from[r] # Page /\ from[r] \notin guarded
    BY DEF IInv, Asked, RequestKnown, NothingUnjudged
  <2>1. from[r] \in Children \ guarded
    BY DEF IInv, Asked, RequestKnown
  <2> QED
    BY <2>1, RenderAssumption
<1> QED
  BY <1>1, Invariance, PTL

\* A child that attached, but for a dedicated worker, is let go only with Fetch
\* enabled on its session (guard_child_session).
THEOREM FramesAreGuarded == Spec => []FramesGuarded
<1>1. IInv => FramesGuarded
  BY DEF IInv, Frames, ChildKnown, FramesGuarded
<1> QED
  BY <1>1, Invariance, PTL

\* When the browser sees the connection end, the target has been closed, so that
\* nothing is paused or held on it; but for a render dropped before its close
\* could be written.
THEOREM TargetIsClosedFirst == Spec => ClosedBeforeDetach
<1>1. IInv /\ [Next]_vars => (conn' = "ended" /\ conn # "ended" /\ phase # "dropped" =>
                                 req' = req /\ child' = child)
  <2> SUFFICES ASSUME IInv, [Next]_vars, conn' = "ended", conn # "ended", phase # "dropped"
               PROVE  req' = req /\ child' = child
    OBVIOUS
  <2>1. Detach
    <3>1. CASE Render
      BY <3>1 DEF Render, EnableFetch, AutoAttach, WorkEnds, FailLeftover, TeardownEnds,
         CloseTarget, Unstick, CloseConnection, HangUp, socket
    <3>2. CASE Receive \/ Handle \/ Cancel \/ Reap \/ CancelLate
      BY <3>2 DEF Receive, Handle, Judge, Answered, Guarded, LetGo, Unguarded, Resumed,
         Cancel, Reap, CancelLate, HangUp
    <3>3. CASE Browser
      BY <3>3 DEF Browser, Ask, Spawn, Vanish, Serve, socket
    <3>4. CASE Break \/ UNCHANGED vars
      BY <3>4 DEF Break, Release, vars, socket
    <3> QED
      BY <3>1, <3>2, <3>3, <3>4 DEF Next
  <2>2. conn = "shut" /\ wire = {} /\ phase \in {"closing", "reap", "end"}
    BY <2>1 DEF Detach, IInv, Ends
  <2>3. target = "closed"
    BY <2>2 DEF IInv, Ends
  <2>4. /\ \A r \in Requests : req[r] # "paused"
        /\ \A k \in Children : child[k].state # "held"
    BY <2>3 DEF IInv, Ends
  <2>5. req' = [r \in Requests |-> req[r]] /\ child' = [k \in Children |-> child[k]]
    BY <2>1, <2>4 DEF Detach, Release
  <2> QED
    BY <2>5 DEF IInv, TypeOK
<1> QED
  BY <1>1, Invariance, PTL DEF Spec, ClosedBeforeDetach
=============================================================================
