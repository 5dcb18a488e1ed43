---------------------------- MODULE JobLifecycle ----------------------------
(***************************************************************************)
(* What an asynchronous extract job promises whoever polls it: every URL   *)
(* gets one final answer and keeps it; the job ends, with a verdict that   *)
(* agrees with the answers, only when every URL has its answer; an ended   *)
(* job never changes again; and the job may be forgotten, after which its  *)
(* id never comes back.                                                    *)
(***************************************************************************)
CONSTANT Urls

VARIABLES state, answer
vars == <<state, answer>>

Verdict(a) ==
    CASE \E i \in Urls : a[i] = "cancelled" -> "cancelled"
      [] /\ \A i \in Urls : a[i] # "cancelled"
         /\ \E i \in Urls : a[i] = "completed" -> "completed"
      [] OTHER -> "failed"

Final(a) == \A i \in Urls : a[i] # "processing"
Active == state \in {"processing", "cancelling"}

Init ==
    /\ state = "processing"
    /\ answer \in [Urls -> {"processing", "failed"}]

\* Answers are given, never replaced; the job goes on, or ends with them.
Answer ==
    /\ Active
    /\ answer' \in [Urls -> {"processing", "completed", "failed", "cancelled"}]
    /\ \A i \in Urls : answer[i] # "processing" => answer'[i] = answer[i]
    /\ \/ state' = state
       \/ Final(answer') /\ state' = Verdict(answer')

\* While a URL is under way a cancelled job only promises to end.
Cancel ==
    /\ state = "processing"
    /\ state' = "cancelling"
    /\ UNCHANGED answer

Forget ==
    /\ state # "gone"
    /\ state' = "gone"
    /\ UNCHANGED answer

Next == Answer \/ Cancel \/ Forget

Spec == Init /\ [][Next]_vars
=============================================================================
