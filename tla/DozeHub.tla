------------------------------ MODULE DozeHub ------------------------------
(* The control plane composed with who suspends it on Android: the           *)
(* SuspendModule of the service (modules/SuspendModule.kt), which suspends   *)
(* the core three seconds after the device goes idle with the screen off and *)
(* resumes it when the screen comes on.  All of the module runs on the main  *)
(* thread, which is inside the core as long as a call of dozeSuspend lasts.  *)
(*                                                                           *)
(* The smart-stop of the VPN calls the same entry of the core at times of    *)
(* its own: where `driven` is FALSE, the calls come at any time, as CoreHub  *)
(* has them.  Four variables of history say what an overlap, a failure or a  *)
(* refusal has left behind.                                                  *)
EXTENDS CoreHub, Sequences

CONSTANTS Main, MaxChanges \* the main thread; a bound on `changes`

ASSUME DozeAssumption == Main \in Suspenders /\ MaxChanges \in Nat

VARIABLES
    driven,               \* does the module call, or anyone at any time?
    screenOn, deviceIdle, \* what the power manager answers
    changes,              \* changes of the two and of `installed` so far
    broadcasts,           \* broadcasts to the receiver, which come in order
    installed, isSuspended, posted, \* the module, and its runnable
    failed,   \* a setup has failed since the last that succeeded
    overlap,  \* a setup and a suspension or resume have met
    woken,    \* the core is awake, or was never asleep, behind the module
    dialled   \* a connection was made since the core was last suspended

module == <<installed, isSuspended, posted>>
device == <<screenOn, deviceIdle, changes, broadcasts>>
history == <<failed, overlap, woken, dialled>>
dozeVars == <<vars, driven, device, module, history>>

DozeTypeOK ==
    /\ TypeOK
    /\ driven \in BOOLEAN /\ screenOn \in BOOLEAN /\ deviceIdle \in BOOLEAN
    /\ changes \in 0 .. MaxChanges /\ broadcasts \in Seq({"on", "other"})
    /\ installed \in BOOLEAN /\ isSuspended \in BOOLEAN /\ posted \in BOOLEAN
    /\ failed \in BOOLEAN /\ overlap \in BOOLEAN
    /\ woken \in BOOLEAN /\ dialled \in BOOLEAN

DozeInit ==
    /\ Init
    /\ driven \in BOOLEAN
    /\ screenOn = TRUE /\ deviceIdle = FALSE /\ changes = 0 /\ broadcasts = <<>>
    /\ installed = FALSE /\ isSuspended = FALSE /\ posted = FALSE
    /\ failed = FALSE /\ overlap = FALSE /\ woken = FALSE /\ dialled = FALSE

shouldSuspend == ~screenOn /\ deviceIdle

-----------------------------------------------------------------------------
(* The device *)

(* The screen goes on or off, or the idle mode changes.  (USER_PRESENT only   *)
(* repeats what SCREEN_ON has done.)                                         *)
Count == changes < MaxChanges /\ changes' = changes + 1

Change ==
    /\ driven /\ Count
    /\ \/ screenOn' = ~screenOn /\ UNCHANGED deviceIdle
       \/ deviceIdle' = ~deviceIdle /\ UNCHANGED screenOn
    /\ LET b == IF screenOn' /\ ~screenOn THEN "on" ELSE "other" IN
       broadcasts' = IF installed THEN Append(broadcasts, b) ELSE broadcasts
    /\ UNCHANGED <<vars, module>>

-----------------------------------------------------------------------------
(* The module *)

Idle == driven /\ pc[Main] = "idle"

(* Core.dozeSuspend: refused before the core is initialised. *)
DozeSuspend == IF isInit THEN Suspend(Main) ELSE UNCHANGED vars
DozeResume == IF isInit THEN Resume(Main) ELSE UNCHANGED vars

(* Mutants: uninstall leaves the core as it is; an update of the idle mode   *)
(* never resumes.                                                            *)
UninstallAlone ==
    /\ Idle /\ installed /\ installed' = FALSE /\ Count
    /\ posted' = FALSE /\ broadcasts' = <<>>
    /\ isSuspended' = FALSE /\ UNCHANGED vars
    /\ UNCHANGED <<screenOn, deviceIdle>>
OnlySuspends == posted' = shouldSuspend /\ UNCHANGED <<isSuspended, vars>>

resume ==
    /\ posted' = FALSE /\ isSuspended' = FALSE
    /\ IF isSuspended THEN DozeResume ELSE UNCHANGED vars

updateSuspendState ==
    IF shouldSuspend
    THEN posted' = TRUE /\ UNCHANGED <<isSuspended, vars>>
    ELSE resume

onReceive ==
    /\ Idle /\ installed /\ broadcasts # <<>>
    /\ broadcasts' = Tail(broadcasts)
    /\ IF Head(broadcasts) = "on" THEN resume ELSE updateSuspendState
    /\ UNCHANGED <<screenOn, deviceIdle, changes, installed>>

suspendRunnable ==
    /\ Idle /\ posted /\ posted' = FALSE
    /\ IF shouldSuspend /\ ~isSuspended
       THEN DozeSuspend /\ isSuspended' = TRUE
       ELSE UNCHANGED <<isSuspended, vars>>
    /\ UNCHANGED <<device, installed>>

(* Of a new module each time (VpnPlugin.kt). *)
install ==
    /\ Idle /\ ~installed /\ installed' = TRUE /\ Count
    /\ posted' = shouldSuspend /\ isSuspended' = FALSE
    /\ UNCHANGED <<vars, screenOn, deviceIdle, broadcasts>>

uninstall ==
    /\ Idle /\ installed /\ installed' = FALSE /\ Count
    /\ broadcasts' = <<>>
    /\ resume
    /\ UNCHANGED <<screenOn, deviceIdle>>

-----------------------------------------------------------------------------
(* What the rest of the core does, whoever suspends it. *)
CoreStep ==
    \/ \E t \in Callers : Requests(t)
    \/ \E t \in Threads : Acquires(t) \/ Steps(t)
    \/ PullLoop \/ FirstDial

SetupFails == \E t \in Callers : pc[t] = "parse" /\ pc'[t] = "idle"
SetupWakes == \E t \in Callers : pc[t] = "applyRunning" /\ pc'[t] # pc[t]

Watch ==
    /\ failed' = (SetupFails \/ (failed /\ applied' = applied))
    /\ overlap' = (overlap \/ (SettingUp' /\ Suspending'))
    /\ woken' = (isSuspended' /\
                 \/ woken \/ SetupWakes
                 \/ ~isSuspended /\ ~isInit)
    /\ dialled' = (asked' /\ (dialled \/ (asked /\ FirstDial)))
    /\ UNCHANGED driven

Module == onReceive \/ suspendRunnable

DozeNext ==
    /\ \/ Change \/ install \/ uninstall \/ Module
       \/ driven /\ CoreStep /\ UNCHANGED <<device, module>>
       \/ ~driven /\ Next /\ UNCHANGED <<device, module>>
    /\ Watch

DozeSpec == DozeInit /\ [][DozeNext]_dozeVars

(* The main thread serves its queue, and the broadcasts arrive; a handler    *)
(* goes on and gets runLock in the end.                                      *)
DozeFairSpec ==
    /\ DozeSpec
    /\ WF_dozeVars(Module /\ Watch)
    /\ \A t \in Threads :
        /\ WF_dozeVars(Steps(t) /\ UNCHANGED <<device, module>> /\ Watch)
        /\ SF_dozeVars(Acquires(t) /\ UNCHANGED <<device, module>> /\ Watch)

-----------------------------------------------------------------------------
(* Properties *)

(* What the module believes is what the core does.  A core that it takes to  *)
(* be awake is not left suspended; one that it takes to be suspended is,     *)
(* unless a setup has finished since (executor.ApplyConfig ends in           *)
(* OnRunning) or the call was refused because the core was not initialised.  *)
ModuleAgrees ==
    driven /\ ~Suspending /\ ~SettingUp /\ isInit /\ applied # 0 =>
        IF isSuspended THEN status = "suspend" \/ woken ELSE status # "suspend"

(* Once the device rests, the module has the core suspended exactly when the *)
(* screen is off and the device idle, whatever the order of broadcasts, of   *)
(* the delayed runnable, of setups and of the life of the module.            *)
FollowsScreen ==
    <>[](driven => isSuspended = (installed /\ shouldSuspend))

(* A resume gives back what suspensions took, also where setups fail: only a *)
(* failed setup, which has dropped what was saved before it looked at its    *)
(* file, can leave the live provider unprobed or a WireGuard device down.    *)
LostOnlyByFailure ==
    ~asked /\ ~SettingUp /\ ~Suspending /\ applied # 0 =>
        failed \/ (checks[applied] # "nil" /\ wg[applied] # "down")

(* The clock of an awake core is set by the NTP service of the configuration *)
(* in force, unless a setup met a suspension or resume on its way, or failed.*)
NTPCurrent ==
    ~asked /\ ~SettingUp /\ ~Suspending /\ applied # 0 /\ currentConfig # None =>
        overlap \/ failed \/ ntp = NTPOf(currentConfig)

(* A suspended core keeps no WireGuard device up but one that a connection   *)
(* started after the suspension.                                             *)
WireGuardQuiet ==
    asked /\ ~SettingUp /\ ~Suspending /\ status = "suspend" /\ applied # 0 =>
        wg[applied] # "up" \/ dialled

(* A suspension is complete and so is its end: probes, WireGuard devices and *)
(* the clock service rest while the core is suspended, and are those of the  *)
(* live configuration afterwards.                                            *)
SuspensionHolds == SuspendQuiet /\ WireGuardQuiet /\ NTPCurrent

(* The module's part: its state is well formed, and is the core's.           *)
DozeInv == DozeTypeOK /\ ModuleAgrees

=============================================================================
