------------------------- MODULE BrowseSessionProofs -------------------------
(***************************************************************************)
(* Theorems about BrowseSession: one session and one target, guarded       *)
(* before its first page, and what an outdated reference is excused by.    *)
(***************************************************************************)
EXTENDS BrowseSession, FiniteSetTheorems, TLAPS

Holding == {"attach", "domains", "guard"}
Attaching == {"create"} \cup Holding
Working == {"navigate", "load", "read", "store"}

\* The write lock and attach_lock are held exactly by who is at work under
\* them, and what they protect has not been made yet.
Locks ==
    /\ \A c \in Calls : pc[c] = "connect" <=> opening = c
    /\ opening # None => ~session
    /\ sessions = IF session THEN 1 ELSE 0
    /\ \A c \in Calls : pc[c] \in Attaching <=> attaching = c
    /\ attaching # None => recorded = None
    /\ \A c \in Calls : pc[c] \in Holding <=> attaching = c /\ hand # None
    /\ hand # None => attaching # None

\* Who works, works on the recorded target; every other is a failed one's.
OneTarget ==
    /\ \A c \in Calls : pc[c] \in Working => sid[c] # None
    /\ \A c \in Calls : sid[c] # None => sid[c] = recorded
    /\ opened = failed \cup ({hand, recorded} \ {None})

\* The guard comes with the record, and both before the first page.
Guarded ==
    /\ guard = recorded
    /\ recorded # None => recorded \in paused
    /\ \A t \in Targets : doc[t] > 0 => t = recorded

\* Whom the listener listens to, and which target has Page enabled.
Listening ==
    /\ listener # None => listener \in failed \cup {hand, recorded}
    /\ \A c \in Calls : pc[c] \in {"domains", "guard"} => listener # None
    /\ \A c \in Calls : pc[c] = "guard" => hand \in watched
    /\ recorded # None => listener # None /\ recorded \in watched

\* What the references name.
Referring ==
    /\ recorded = None => refs = {}
    /\ refs # {} /\ refs # {doc[recorded]} =>
          inbox > 0 \/ late \/ lagged \/ Deaf

IInv == TypeOK /\ Locks /\ OneTarget /\ Guarded /\ Listening /\ Referring

-----------------------------------------------------------------------------
(* Every step keeps the invariant. *)

\* A call begins: it looks for the session.
LEMMA BeginKeeps ==
    ASSUME IInv, NEW c \in Calls, NEW name \in {"goto", "tree"}, Begin(c, name)
    PROVE  IInv'
<1>1. TypeOK'
  BY DEF IInv, TypeOK, Go, Ended, Begin, server, attachment, browser
<1>2. Locks'
  BY DEF IInv, Locks, Attaching, Holding, Go, Begin, server, attachment
<1>3. OneTarget'
  BY DEF IInv, OneTarget, Working, Go, Begin, attachment, browser
<1>4. Guarded'
  BY DEF IInv, Guarded, Begin, attachment, browser
<1>5. Listening'
  BY DEF IInv, Listening, Go, Begin, attachment, browser
<1>6. Referring'
  BY DEF IInv, Referring, Deaf, Begin, attachment, browser
<1> QED BY <1>1, <1>2, <1>3, <1>4, <1>5, <1>6 DEF IInv

\* Under the write lock the slot is looked at again.
LEMMA TakeSlotKeeps ==
    ASSUME IInv, NEW c \in Calls, TakeSlot(c)
    PROVE  IInv'
<1>1. TypeOK'
  BY DEF IInv, TypeOK, Go, TakeSlot, attachment, browser
<1>2. Locks'
  BY BrowseAssumption DEF IInv, TypeOK, Locks, Attaching, Holding, Go, TakeSlot,
     attachment
<1>3. OneTarget'
  BY DEF IInv, TypeOK, OneTarget, Working, Go, TakeSlot, attachment, browser
<1>4. Guarded'
  BY DEF IInv, Guarded, TakeSlot, attachment, browser
<1>5. Listening'
  BY DEF IInv, TypeOK, Listening, Go, TakeSlot, attachment, browser
<1>6. Referring'
  BY DEF IInv, Referring, Deaf, TakeSlot, attachment, browser
<1> QED BY <1>1, <1>2, <1>3, <1>4, <1>5, <1>6 DEF IInv

\* The session is registered, or the connection failed.
LEMMA ConnectKeeps ==
    ASSUME IInv, NEW c \in Calls, Connect(c)
    PROVE  IInv'
<1>1. TypeOK'
  <2>1. sessions' \in Nat
    BY DEF IInv, TypeOK, Connect
  <2> QED
    BY <2>1 DEF IInv, TypeOK, Connect, Go, Ended, attachment, browser
<1>2. Locks'
  BY BrowseAssumption DEF IInv, TypeOK, Locks, Attaching, Holding, Go, Connect,
     attachment
<1>3. OneTarget'
  BY DEF IInv, TypeOK, OneTarget, Working, Go, Connect, attachment, browser
<1>4. Guarded'
  BY DEF IInv, Guarded, Connect, attachment, browser
<1>5. Listening'
  BY DEF IInv, TypeOK, Listening, Go, Connect, attachment, browser
<1>6. Referring'
  BY DEF IInv, Referring, Deaf, Connect, attachment, browser
<1> QED BY <1>1, <1>2, <1>3, <1>4, <1>5, <1>6 DEF IInv

\* A call finds the target recorded, or waits for attach_lock.
LEMMA AttachedKeeps ==
    ASSUME IInv, NEW c \in Calls, Attached(c)
    PROVE  IInv'
<1>1. TypeOK'
  BY DEF IInv, TypeOK, Go, Attached, Work, server, attachment, browser
<1>2. Locks'
  BY DEF IInv, TypeOK, Locks, Attaching, Holding, Go, Attached, Work, server,
     attachment
<1>3. OneTarget'
  BY DEF IInv, TypeOK, OneTarget, Working, Go, Attached, Work, attachment, browser
<1>4. Guarded'
  BY DEF IInv, Guarded, Attached, attachment, browser
<1>5. Listening'
  BY DEF IInv, TypeOK, Listening, Go, Attached, Work, attachment, browser
<1>6. Referring'
  BY DEF IInv, Referring, Deaf, Attached, attachment, browser
<1> QED BY <1>1, <1>2, <1>3, <1>4, <1>5, <1>6 DEF IInv

\* Under attach_lock the record is looked at again.
LEMMA TakeAttachKeeps ==
    ASSUME IInv, NEW c \in Calls, TakeAttach(c)
    PROVE  IInv'
<1>1. TypeOK'
  BY DEF IInv, TypeOK, Go, TakeAttach, Work, server, browser
<1>2. Locks'
  BY BrowseAssumption DEF IInv, TypeOK, Locks, Attaching, Holding, Go, TakeAttach,
     Work, server
<1>3. OneTarget'
  BY DEF IInv, TypeOK, OneTarget, Working, Go, TakeAttach, Work, browser
<1>4. Guarded'
  BY DEF IInv, Guarded, TakeAttach, browser
<1>5. Listening'
  BY DEF IInv, TypeOK, Listening, Go, TakeAttach, Work, browser
<1>6. Referring'
  BY DEF IInv, Referring, Deaf, TakeAttach, browser
<1> QED BY <1>1, <1>2, <1>3, <1>4, <1>5, <1>6 DEF IInv

\* A target is created, or is not, or its creation is not heard of.
LEMMA CreateKeeps ==
    ASSUME IInv, NEW c \in Calls, Create(c)
    PROVE  IInv'
<1>1. TypeOK'
  BY DEF IInv, TypeOK, Go, Ended, Create, GiveUp, server
<1>2. Locks'
  BY BrowseAssumption DEF IInv, TypeOK, Locks, Attaching, Holding, Go, Create,
     GiveUp, server
<1>3. OneTarget'
  BY BrowseAssumption DEF IInv, TypeOK, Locks, OneTarget, Attaching, Holding,
     Working, Go, Create, GiveUp
<1>4. Guarded'
  BY DEF IInv, Guarded, Create, GiveUp
<1>5. Listening'
  BY DEF IInv, TypeOK, Locks, Listening, Attaching, Holding, Go, Create, GiveUp
<1>6. Referring'
  BY DEF IInv, Referring, Deaf, Create, GiveUp
<1> QED BY <1>1, <1>2, <1>3, <1>4, <1>5, <1>6 DEF IInv

\* The target is attached and the listener started.
LEMMA AttachKeeps ==
    ASSUME IInv, NEW c \in Calls, Attach(c)
    PROVE  IInv'
<1>1. TypeOK'
  BY DEF IInv, TypeOK, Go, Ended, Attach, GiveUp, server, browser
<1>2. Locks'
  BY BrowseAssumption DEF IInv, TypeOK, Locks, Attaching, Holding, Go, Attach,
     GiveUp, server
<1>3. OneTarget'
  BY DEF IInv, TypeOK, OneTarget, Working, Go, Attach, GiveUp, browser
<1>4. Guarded'
  BY DEF IInv, Guarded, Attach, GiveUp, browser
<1>5. Listening'
  BY DEF IInv, TypeOK, Locks, Listening, Holding, Go, Attach, GiveUp
<1>6. Referring'
  BY DEF IInv, Locks, Referring, Holding, Attach
<1> QED BY <1>1, <1>2, <1>3, <1>4, <1>5, <1>6 DEF IInv

\* The domains are enabled.
LEMMA DomainsKeeps ==
    ASSUME IInv, NEW c \in Calls, Domains(c)
    PROVE  IInv'
<1>1. TypeOK'
  <2>1. hand \in Targets
    BY DEF IInv, TypeOK, Locks, Holding, Domains
  <2>2. watched' \subseteq Targets
    BY <2>1 DEF IInv, TypeOK, Domains, Perhaps
  <2>3. {hand', recorded', listener', guard'} \subseteq Targets \cup {None}
    BY <2>1 DEF IInv, TypeOK, Domains, GiveUp, attachment
  <2>4. failed' \subseteq Targets
    BY <2>1 DEF IInv, TypeOK, Domains, GiveUp
  <2> QED
    BY <2>1, <2>2, <2>3, <2>4 DEF IInv, TypeOK, Domains, GiveUp, Go, Ended, server,
       attachment
<1>2. Locks'
  BY BrowseAssumption DEF IInv, TypeOK, Locks, Attaching, Holding, Go, Domains,
     GiveUp, server, attachment
<1>3. OneTarget'
  BY DEF IInv, TypeOK, OneTarget, Working, Go, Domains, GiveUp, attachment
<1>4. Guarded'
  BY DEF IInv, Guarded, Domains, GiveUp, attachment
<1>5. Listening'
  BY DEF IInv, TypeOK, Locks, Listening, Holding, Go, Domains, GiveUp, attachment
<1>6. Referring'
  BY DEF IInv, Locks, Referring, Holding, Domains
<1> QED BY <1>1, <1>2, <1>3, <1>4, <1>5, <1>6 DEF IInv

\* The guard starts, and the session is recorded.
LEMMA GuardKeeps ==
    ASSUME IInv, NEW c \in Calls, Guard(c)
    PROVE  IInv'
<1>1. TypeOK'
  <2>1. hand \in Targets
    BY DEF IInv, TypeOK, Locks, Holding, Guard
  <2>2. paused' \subseteq Targets
    BY <2>1 DEF IInv, TypeOK, Guard, Perhaps
  <2>3. {hand', recorded', listener', guard'} \subseteq Targets \cup {None}
    BY <2>1 DEF IInv, TypeOK, Guard, GiveUp
  <2>4. failed' \subseteq Targets
    BY <2>1 DEF IInv, TypeOK, Guard, GiveUp
  <2> QED
    BY <2>1, <2>2, <2>3, <2>4 DEF IInv, TypeOK, Guard, GiveUp, Go, Ended, server
<1>2. Locks'
  BY BrowseAssumption DEF IInv, TypeOK, Locks, Attaching, Holding, Go, Guard,
     GiveUp, server
<1>3. OneTarget'
  BY DEF IInv, TypeOK, Locks, OneTarget, Holding, Working, Go, Guard, GiveUp
<1>4. Guarded'
  BY BrowseAssumption DEF IInv, Locks, Guarded, Holding, Guard, GiveUp
<1>5. Listening'
  BY DEF IInv, TypeOK, Locks, Listening, Holding, Go, Guard, GiveUp
<1>6. Referring'
  BY DEF IInv, Locks, Referring, Holding, Guard
<1> QED BY <1>1, <1>2, <1>3, <1>4, <1>5, <1>6 DEF IInv

\* A call navigates the recorded target.
LEMMA NavigateKeeps ==
    ASSUME IInv, NEW c \in Calls, Navigate(c)
    PROVE  IInv'
<1>1. TypeOK'
  BY BrowseAssumption DEF IInv, TypeOK, Go, Ended, Docs, Navigate, Shows, server,
     attachment
<1>2. Locks'
  BY DEF IInv, TypeOK, Locks, Attaching, Holding, Go, Navigate, server, attachment
<1>3. OneTarget'
  BY DEF IInv, TypeOK, OneTarget, Working, Go, Navigate, attachment
<1>4. Guarded'
  BY DEF IInv, TypeOK, OneTarget, Guarded, Working, Navigate, Shows, attachment
<1>5. Listening'
  BY DEF IInv, TypeOK, Listening, Go, Navigate, attachment
<1>6. Referring'
  BY DEF IInv, TypeOK, Listening, Referring, Deaf, Navigate, Shows, attachment
<1> QED BY <1>1, <1>2, <1>3, <1>4, <1>5, <1>6 DEF IInv

\* goto drops the references.
LEMMA LoadedKeeps ==
    ASSUME IInv, NEW c \in Calls, Loaded(c)
    PROVE  IInv'
<1>1. TypeOK'
  BY DEF IInv, TypeOK, Go, Ended, Loaded, server, attachment, browser
<1>2. Locks'
  BY DEF IInv, Locks, Attaching, Holding, Go, Loaded, server, attachment
<1>3. OneTarget'
  BY DEF IInv, OneTarget, Working, Go, Loaded, attachment, browser
<1>4. Guarded'
  BY DEF IInv, Guarded, Loaded, attachment, browser
<1>5. Listening'
  BY DEF IInv, Listening, Go, Loaded, attachment, browser
<1>6. Referring'
  BY DEF IInv, Referring, Loaded
<1> QED BY <1>1, <1>2, <1>3, <1>4, <1>5, <1>6 DEF IInv

\* tree takes the recorded session.
LEMMA TargetKeeps ==
    ASSUME IInv, NEW c \in Calls, Target(c)
    PROVE  IInv'
<1>1. TypeOK'
  BY DEF IInv, TypeOK, Go, Ended, Target, server, attachment, browser
<1>2. Locks'
  BY DEF IInv, TypeOK, Locks, Attaching, Holding, Go, Target, server, attachment
<1>3. OneTarget'
  BY DEF IInv, TypeOK, OneTarget, Working, Go, Target, attachment, browser
<1>4. Guarded'
  BY DEF IInv, Guarded, Target, attachment, browser
<1>5. Listening'
  BY DEF IInv, TypeOK, Listening, Go, Target, attachment, browser
<1>6. Referring'
  BY DEF IInv, Referring, Deaf, Target, attachment, browser
<1> QED BY <1>1, <1>2, <1>3, <1>4, <1>5, <1>6 DEF IInv

\* tree reads the page.
LEMMA ReadTreeKeeps ==
    ASSUME IInv, NEW c \in Calls, ReadTree(c)
    PROVE  IInv'
<1>1. TypeOK'
  <2>1. sid[c] \in Targets
    BY DEF IInv, TypeOK, OneTarget, Working, ReadTree
  <2> QED
    BY <2>1 DEF IInv, TypeOK, ReadTree, Go, Ended, server, attachment, browser
<1>2. Locks'
  BY DEF IInv, TypeOK, Locks, Attaching, Holding, Go, ReadTree, server, attachment
<1>3. OneTarget'
  BY DEF IInv, TypeOK, OneTarget, Working, Go, ReadTree, attachment, browser
<1>4. Guarded'
  BY DEF IInv, Guarded, ReadTree, attachment, browser
<1>5. Listening'
  BY DEF IInv, TypeOK, Listening, Go, ReadTree, attachment, browser
<1>6. Referring'
  BY DEF IInv, Referring, Deaf, ReadTree, attachment, browser
<1> QED BY <1>1, <1>2, <1>3, <1>4, <1>5, <1>6 DEF IInv

\* tree replaces the references.
LEMMA StoreKeeps ==
    ASSUME IInv, NEW c \in Calls, Store(c)
    PROVE  IInv'
<1>1. TypeOK'
  BY DEF IInv, TypeOK, Go, Ended, Store, server, attachment, browser
<1>2. Locks'
  BY DEF IInv, Locks, Attaching, Holding, Go, Store, server, attachment
<1>3. OneTarget'
  BY DEF IInv, OneTarget, Working, Go, Store, attachment, browser
<1>4. Guarded'
  BY DEF IInv, Guarded, Store, attachment, browser
<1>5. Listening'
  BY DEF IInv, Listening, Go, Store, attachment, browser
<1>6. Referring'
  BY DEF IInv, OneTarget, Referring, Working, Store, attachment, browser
<1> QED BY <1>1, <1>2, <1>3, <1>4, <1>5, <1>6 DEF IInv

\* The listener hears of a navigation.
LEMMA HearKeeps ==
    ASSUME IInv, Hear
    PROVE  IInv'
<1>1. TypeOK'
  <2>1. inbox' \in Nat
    BY DEF IInv, TypeOK, Hear
  <2> QED
    BY <2>1 DEF IInv, TypeOK, Hear, call, server, attachment, browser
<1>2. Locks'
  BY DEF IInv, Locks, Hear, call, server, attachment
<1>3. OneTarget'
  BY DEF IInv, OneTarget, Hear, call, attachment, browser
<1>4. Guarded'
  BY DEF IInv, Guarded, Hear, attachment, browser
<1>5. Listening'
  BY DEF IInv, Listening, Hear, call, attachment, browser
<1>6. Referring'
  BY DEF IInv, Referring, Hear
<1> QED BY <1>1, <1>2, <1>3, <1>4, <1>5, <1>6 DEF IInv

\* The listener misses some.
LEMMA LagKeeps ==
    ASSUME IInv, Lag
    PROVE  IInv'
<1>1. TypeOK'
  BY DEF IInv, TypeOK, Lag, call, server, attachment, browser
<1>2. Locks'
  BY DEF IInv, Locks, Lag, call, server, attachment
<1>3. OneTarget'
  BY DEF IInv, OneTarget, Lag, call, attachment, browser
<1>4. Guarded'
  BY DEF IInv, Guarded, Lag, attachment, browser
<1>5. Listening'
  BY DEF IInv, Listening, Lag, call, attachment, browser
<1>6. Referring'
  BY DEF IInv, Referring, Lag, attachment
<1> QED BY <1>1, <1>2, <1>3, <1>4, <1>5, <1>6 DEF IInv

\* The page goes elsewhere.
LEMMA StraysKeeps ==
    ASSUME IInv, Strays
    PROVE  IInv'
<1>1. TypeOK'
  BY BrowseAssumption DEF IInv, TypeOK, Docs, Strays, Shows, call, server,
     attachment
<1>2. Locks'
  BY DEF IInv, Locks, Strays, call, server, attachment
<1>3. OneTarget'
  BY DEF IInv, OneTarget, Strays, call, attachment
<1>4. Guarded'
  BY DEF IInv, Guarded, Strays, Shows, attachment
<1>5. Listening'
  BY DEF IInv, Listening, Strays, call, attachment
<1>6. Referring'
  BY DEF IInv, TypeOK, Listening, Referring, Deaf, Strays, Shows, attachment
<1> QED BY <1>1, <1>2, <1>3, <1>4, <1>5, <1>6 DEF IInv

\* The browser is gone.
LEMMA BreakKeeps ==
    ASSUME IInv, Break
    PROVE  IInv'
<1>1. TypeOK'
  BY DEF IInv, TypeOK, Break, call, server, attachment
<1>2. Locks'
  BY DEF IInv, Locks, Break, call, server, attachment
<1>3. OneTarget'
  BY DEF IInv, OneTarget, Break, call, attachment
<1>4. Guarded'
  BY DEF IInv, Guarded, Break, attachment
<1>5. Listening'
  BY DEF IInv, Listening, Break, call, attachment
<1>6. Referring'
  BY DEF IInv, Referring, Deaf, Break, attachment
<1> QED BY <1>1, <1>2, <1>3, <1>4, <1>5, <1>6 DEF IInv

-----------------------------------------------------------------------------
(* The invariant. *)

LEMMA Initially == Init => IInv
<1> SUFFICES ASSUME Init PROVE IInv
  OBVIOUS
<1>1. TypeOK
  <2>1. 0 \in Docs /\ 0 \in Nat
    BY BrowseAssumption DEF Docs
  <2>2. /\ tool \in [Calls -> {"goto", "tree"}] /\ refs \in {{}} \cup {{d} : d \in Docs}
        /\ snap \in [Calls -> Docs] /\ doc \in [Targets -> Docs]
    BY <2>1 DEF Init
  <2> QED
    BY <2>1, <2>2 DEF Init, TypeOK
<1>2. Locks /\ OneTarget
  BY BrowseAssumption DEF Init, Locks, OneTarget, Attaching, Holding, Working
<1>3. Guarded /\ Listening /\ Referring
  BY BrowseAssumption DEF Init, Guarded, Listening, Referring
<1> QED BY <1>1, <1>2, <1>3 DEF IInv

LEMMA Inductive == IInv /\ [Next]_vars => IInv'
<1> SUFFICES ASSUME IInv, [Next]_vars PROVE IInv'
  OBVIOUS
<1>1. ASSUME NEW c \in Calls, Step(c) PROVE IInv'
  BY <1>1, TakeSlotKeeps, ConnectKeeps, AttachedKeeps, TakeAttachKeeps, CreateKeeps,
     AttachKeeps, DomainsKeeps, GuardKeeps, NavigateKeeps, LoadedKeeps, TargetKeeps,
     ReadTreeKeeps, StoreKeeps DEF Step
<1>2. CASE \E c \in Calls, name \in {"goto", "tree"} : Begin(c, name)
  BY <1>2, BeginKeeps
<1>3. CASE Hear \/ Lag \/ Strays \/ Break
  BY <1>3, HearKeeps, LagKeeps, StraysKeeps, BreakKeeps
<1>4. CASE UNCHANGED vars
  BY <1>4 DEF IInv, TypeOK, Locks, OneTarget, Guarded, Listening, Referring, Deaf,
     vars, call, server, attachment, browser
<1> QED BY <1>1, <1>2, <1>3, <1>4 DEF Next

\* Locks, targets, guards and references are as the invariant says in every
\* reachable state (ensure_default_session, ensure_attached, goto, tree).
THEOREM Invariance == Spec => []IInv
BY Initially, Inductive, PTL DEF Spec

-----------------------------------------------------------------------------
(* What follows. *)

\* However many calls begin at once there is one default session and one target
\* behind it (ensure_default_session, ensure_attached).
THEOREM ServerIsSound == Spec => []ServerSound
<1>1. IInv => ServerSound
  <2> SUFFICES ASSUME IInv PROVE OneOfEach
    BY DEF IInv, ServerSound
  <2>1. {hand, recorded} \ {None} = {} \/ \E t : {hand, recorded} \ {None} = {t}
    BY DEF IInv, Locks
  <2>2. Cardinality({hand, recorded} \ {None}) \in {0, 1}
    BY <2>1, FS_EmptySet, FS_Singleton, Zenon
  <2> QED
    BY <2>2 DEF IInv, Locks, OneTarget, OneOfEach
<1> QED BY <1>1, Invariance, PTL

\* No document is loaded by a target without its guard (ensure_attached, goto).
THEOREM GuardComesFirst == Spec => []GuardFirst
<1>1. IInv => GuardFirst
  BY DEF IInv, Guarded, GuardFirst
<1> QED BY <1>1, Invariance, PTL

\* A reference whose document has gone is about to be dropped, but for the
\* exceptions named (run_event_listener, replace_ref_map).
THEOREM ReferencesFollow == Spec => []RefsFollow
<1>1. IInv => RefsFollow
  BY BrowseAssumption DEF IInv, TypeOK, Locks, Listening, Referring, RefsFollow,
     DeafOnlyAfterFailure, Deaf
<1> QED BY <1>1, Invariance, PTL
=============================================================================
