----------------------------- MODULE SlotLease -----------------------------
(***************************************************************************)
(* What the browser-context pool promises (browser_pool.rs): at most Size  *)
(* clients are admitted at a time, an admitted client may hold one slot,   *)
(* no slot is held by two clients, and a closed pool admits nobody.        *)
(***************************************************************************)
EXTENDS Naturals, FiniteSets

CONSTANTS Clients, Slots, NoSlot, Size

VARIABLES
  open,      \* the semaphore is not closed
  admitted,  \* clients that hold a permit
  lease      \* lease[c]: the slot client c has checked out

leaseVars == <<open, admitted, lease>>

Init ==
  /\ open = TRUE
  /\ admitted = {}
  /\ lease = [c \in Clients |-> NoSlot]

Admit(c) ==
  /\ open
  /\ c \notin admitted
  /\ Cardinality(admitted) < Size
  /\ admitted' = admitted \cup {c}
  /\ UNCHANGED <<open, lease>>

Grant(c, s) ==
  /\ c \in admitted
  /\ lease[c] = NoSlot
  /\ \A d \in Clients : lease[d] # s
  /\ lease' = [lease EXCEPT ![c] = s]
  /\ UNCHANGED <<open, admitted>>

\* The slot went back to the free list; the permit is still held.
GiveBack(c) ==
  /\ lease[c] # NoSlot
  /\ lease' = [lease EXCEPT ![c] = NoSlot]
  /\ UNCHANGED <<open, admitted>>

Leave(c) ==
  /\ c \in admitted
  /\ admitted' = admitted \ {c}
  /\ lease' = [lease EXCEPT ![c] = NoSlot]
  /\ UNCHANGED open

Close ==
  /\ open
  /\ open' = FALSE
  /\ UNCHANGED <<admitted, lease>>

Next ==
  \/ \E c \in Clients :
       Admit(c) \/ GiveBack(c) \/ Leave(c) \/ \E s \in Slots : Grant(c, s)
  \/ Close

Spec == Init /\ [][Next]_leaseVars
=============================================================================
