--------------------------- MODULE MCTunLifecycle ---------------------------
(* Instances of TunLifecycle for TLC. *)
EXTENDS TunLifecycle, TLC

CONSTANTS app, net1, net2, cb1, cb2

MCThreads == {app, net1, net2}
MCCallbacks == {cb1, cb2}
MCStarter == {app}
MCStoppers == {app, net1}
MCDialers == {net1, net2}

=============================================================================
