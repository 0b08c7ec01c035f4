----------------------------- MODULE RemoteCall -----------------------------
(* What a call of the core promises its caller, on any transport.  A call    *)
(* returns once.  It returns the answer of the core only when the core has   *)
(* run it; it may return the default value of its type whether it ran or     *)
(* not; and when it ends in an error the core has not run it and never will, *)
(* so that the caller may repeat it.                                         *)
EXTENDS FiniteSets

CONSTANT Calls

VARIABLES
    result, \* of each call: "none", "answer", "default" or "error"
    ran     \* the calls that the core has run

Init == result = [k \in Calls |-> "none"] /\ ran = {}

(* The core runs the call, in time or after the caller gave up waiting. *)
Run(k) ==
    /\ k \notin ran /\ result[k] \in {"none", "default"}
    /\ ran' = ran \cup {k}
    /\ UNCHANGED result

Return(k, r) ==
    /\ result[k] = "none"
    /\ result' = [result EXCEPT ![k] = r]
    /\ UNCHANGED ran

Next ==
    \E k \in Calls :
        \/ Run(k)
        \/ k \in ran /\ Return(k, "answer")
        \/ Return(k, "default")
        \/ k \notin ran /\ Return(k, "error")

Spec == Init /\ [][Next]_<<result, ran>>

=============================================================================
