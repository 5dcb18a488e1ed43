--------------------------- MODULE MCBrowserPool ---------------------------
(* TLC instances of BrowserPool: symmetry, for the safety run, and a view.
   The view leaves out what no step and no property reads: the fields of a
   slot nobody refers to (CreateSlot overwrites them; of a connection owned by
   a detached task, closes still counts), target outside the checkout and the
   retry index outside acquire().  No step changes only what it leaves out,
   so it does not hide the stuttering that liveness depends on. *)
EXTENDS BrowserPool, TLC

Symmetry == Permutations(Clients) \cup Permutations(Slots)

View ==
  LET fields(s) ==
        IF Held(s) THEN <<st[s], term[s], target[s] /\ st[s] # "Idle", dirty[s], closes[s]>>
        ELSE IF s \in reap THEN <<closes[s]>> ELSE <<>>
      retries(c) == IF pc[c] \in AcquirePcs THEN attempt[c] ELSE 0
  IN <<pc, [c \in Clients |-> retries(c)], slot, idle, [s \in Slots |-> fields(s)],
       reap, inflight, spc, todo, cur, own>>
=============================================================================
