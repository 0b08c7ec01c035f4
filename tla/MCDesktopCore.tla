--------------------------- MODULE MCDesktopCore ---------------------------
EXTENDS DesktopCore, TLC
CONSTANTS s1, s2, k1
TwoRestarts == {s1, s2}
OneCall == {k1}
Platforms == {TRUE, FALSE}

(* On Windows the calls are left out: they meet the same sockets there.  The *)
(* end of the application meets two cores at most.                           *)
Scenario ==
    /\ helper => \A k \in Calls : call[k] = "idle"
    /\ born = MaxCores => exit = "no"

=============================================================================
