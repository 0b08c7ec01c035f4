---------------------------- MODULE CallbackLease ----------------------------
(* What the bridge promises the JVM about the references it is handed        *)
(* (android_bride.go: protect, resolve_process, release_object).  Each one   *)
(* is used by any number of threads while it is live and given back at most  *)
(* once, at a moment when no thread is inside the JVM with it.               *)
EXTENDS Naturals

CONSTANTS Threads, Callbacks

VARIABLES state, users

leaseVars == <<state, users>>

Init ==
    /\ state = [c \in Callbacks |-> "unused"]
    /\ users = [c \in Callbacks |-> {}]

(* startTUN receives the reference. *)
Grant(c) ==
    /\ state[c] = "unused"
    /\ state' = [state EXCEPT ![c] = "live"]
    /\ UNCHANGED users

(* protect or resolve_process enters the JVM. *)
Use(t, c) ==
    /\ state[c] = "live"
    /\ users' = [users EXCEPT ![c] = @ \cup {t}]
    /\ UNCHANGED state

Leave(t, c) ==
    /\ t \in users[c]
    /\ users' = [users EXCEPT ![c] = @ \ {t}]
    /\ UNCHANGED state

(* release_object. *)
Release(c) ==
    /\ state[c] = "live" /\ users[c] = {}
    /\ state' = [state EXCEPT ![c] = "released"]
    /\ UNCHANGED users

Next ==
    \E c \in Callbacks :
        \/ Grant(c) \/ Release(c)
        \/ \E t \in Threads : Use(t, c) \/ Leave(t, c)

Spec == Init /\ [][Next]_leaseVars
=============================================================================
