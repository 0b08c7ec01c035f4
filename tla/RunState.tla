------------------------------ MODULE RunState ------------------------------
(* The run state of the Android host: GlobalState.kt, VpnPlugin.kt, the two  *)
(* services and PauseResumeReceiver.kt.                                      *)
(*                                                                           *)
(* Method calls, intents, alarms and service connections run on the main     *)
(* thread, one after the other.  What they launch runs beside it: the start  *)
(* and resume flows (coroutines of VpnPlugin.scope) and the timer of a       *)
(* pause.  They meet in the run state, which they check and set under        *)
(* GlobalState.runLock, but hold it across none of their slow steps.         *)
(*                                                                           *)
(* Notifications, the network callbacks and the life of the Flutter engines  *)
(* are left out: VpnPlugin.scope is alive throughout.                        *)
EXTENDS Naturals, FiniteSets

CONSTANTS
    Flows,     \* start and resume flows that may be in flight
    Modes,     \* values of VpnOptions.enable: "vpn", "proxy"
    UI,        \* does the activity's engine answer the tile, or the service's?
    Entries,   \* the parts of the outside world that act
    MaxClears, \* stops whose isStopping is not cleared yet
    None

AllEntries == {"start", "stop", "tile", "restart", "sync", "pause", "resume",
               "auto", "revoke", "crash"}

ASSUME RunAssumption ==
    /\ Modes \subseteq {"vpn", "proxy"} /\ None \notin {"vpn", "proxy"}
    /\ UI \in BOOLEAN /\ Entries \subseteq AllEntries
    /\ MaxClears \in Nat \ {0}

VARIABLES
    runState, pendingJob,     \* currentRunState; is pendingTimeoutJob active?
    smart,                    \* isSmartStopped
    stopping, clears,         \* isStopping, and the coroutines to clear it
    options,                  \* VpnPlugin.options: None or their mode
    service,                  \* is bettBoxService set?
    isBinding, bindJob,       \* and bindTimeoutJob active?
    connecting,               \* will the system call onServiceConnected?
    prepared, dialog,         \* VPN consent held; being asked for
    until, saved,             \* is pauseUntilWallClock set? and in the prefs?
    due,                      \* has that moment come?
    armed, alarm,             \* will pauseJob and the AlarmManager fire?
    tun,                      \* is there a session between start and stopTun?
    suspended,                \* the last Core.suspended
    module, watchdog,         \* SuspendModule installed, LeakWatchdog started
    stops,                    \* stop calls on their way to VpnPlugin
    auto,                     \* the smart-stop check of the Dart side
    restart,                  \* is restartJob waiting?
    main, force, pausing,     \* the main thread and its arguments
    timer,                    \* pauseJob, once it has fired
    at, kind, mode,           \* of each flow: where it is, what it starts
    overlap                   \* have two flows ever been starting at once?

state   == <<runState, pendingJob>>
flags   == <<smart, stopping, clears>>
binding == <<service, isBinding, bindJob, connecting>>
consent == <<prepared, dialog>>
pause   == <<until, saved, due, armed, alarm>>
core    == <<tun, suspended, module, watchdog>>
world   == <<stops, auto, restart>>
thread  == <<main, force, pausing>>
flow    == <<at, kind, mode, overlap>>
vars == <<state, flags, options, binding, consent, pause, core, world, thread,
          timer, flow>>

Starting == {"wake", "first", "second", "failed", "check", "startTun", "commit"}
FlowPlaces == {"free", "prepare", "ask", "claim", "resumeClaim", "watch"}
                  \cup Starting
MainPlaces == {"idle", "stopLock", "uninstall", "stopTun", "release",
               "smartLock", "smartUninstall", "smartStopTun", "smartSuspend"}

RunType ==
    /\ runState \in {"STOP", "PENDING", "START"} /\ pendingJob \in BOOLEAN
    /\ smart \in BOOLEAN /\ stopping \in BOOLEAN
    /\ options \in Modes \cup {None}

BindType ==
    /\ service \in BOOLEAN /\ isBinding \in BOOLEAN
    /\ bindJob \in BOOLEAN /\ connecting \in BOOLEAN
    /\ prepared \in BOOLEAN /\ dialog \in BOOLEAN

PauseType ==
    /\ until \in BOOLEAN /\ saved \in BOOLEAN /\ due \in BOOLEAN
    /\ armed \in BOOLEAN /\ alarm \in BOOLEAN

CoreType ==
    /\ tun \in BOOLEAN /\ suspended \in BOOLEAN
    /\ module \in BOOLEAN /\ watchdog \in BOOLEAN

TaskType ==
    /\ stops \subseteq {"forced", "soft"}
    /\ auto \in {"idle", "status", "stop", "stopping", "resume", "resuming"}
    /\ restart \in BOOLEAN
    /\ main \in MainPlaces /\ force \in BOOLEAN /\ pausing \in BOOLEAN
    /\ timer \in {"idle", "resume", "dispatch"}

FlowType ==
    /\ at \in [Flows -> FlowPlaces]
    /\ kind \in [Flows -> {"start", "resume"}]
    /\ mode \in [Flows -> Modes \cup {None}]
    /\ overlap \in BOOLEAN

TypeOK ==
    /\ clears \in 0 .. MaxClears
    /\ RunType /\ BindType /\ PauseType /\ CoreType /\ TaskType /\ FlowType

Init ==
    /\ runState = "STOP" /\ pendingJob = FALSE
    /\ smart = FALSE /\ stopping = FALSE /\ clears = 0
    /\ options = None
    /\ service = FALSE /\ isBinding = FALSE
    /\ bindJob = FALSE /\ connecting = FALSE
    /\ prepared \in BOOLEAN /\ dialog = FALSE
    /\ until = FALSE /\ saved = FALSE /\ due = FALSE
    /\ armed = FALSE /\ alarm = FALSE
    /\ tun = FALSE /\ suspended = FALSE /\ module = FALSE /\ watchdog = FALSE
    /\ stops = {} /\ auto = "idle" /\ restart = FALSE
    /\ main = "idle" /\ force = FALSE /\ pausing = FALSE
    /\ timer = "idle"
    /\ at = [f \in Flows |-> "free"]
    /\ kind = [f \in Flows |-> "start"] /\ mode = [f \in Flows |-> None]
    /\ overlap = FALSE

-----------------------------------------------------------------------------
(* Steps that several handlers share. *)

Goto(f, place) == at' = [at EXCEPT ![f] = place] /\ UNCHANGED <<kind, mode>>

EndFlow(f) ==
    /\ at' = [at EXCEPT ![f] = "free"]
    /\ kind' = [kind EXCEPT ![f] = "start"]
    /\ mode' = [mode EXCEPT ![f] = None]

(* Leaving any state but for PENDING ends the timeout of PENDING. *)
UpdateRunState(s) ==
    /\ runState' = s
    /\ pendingJob' = (pendingJob /\ s \in {"PENDING", runState})

(* A flow is launched when a slot is free; Flows bounds them. *)
Launch(place, k, m) ==
    \E f \in Flows :
        /\ at[f] = "free"
        /\ at' = [at EXCEPT ![f] = place]
        /\ kind' = [kind EXCEPT ![f] = k]
        /\ mode' = [mode EXCEPT ![f] = m]
        /\ UNCHANGED overlap

(* One bind at a time, guarded by isBinding; the system may refuse it. *)
BindService ==
    IF isBinding
    THEN UNCHANGED <<isBinding, bindJob, connecting>>
    ELSE \/ isBinding' = TRUE /\ bindJob' = TRUE /\ connecting' = TRUE
         \/ isBinding' = FALSE /\ bindJob' = FALSE /\ UNCHANGED connecting

(* handleStartService, with svc the service it finds. *)
StartService(svc) ==
    \/ stopping /\ UNCHANGED <<isBinding, bindJob, connecting, flow>>
    \/ ~stopping /\ ~svc /\ BindService /\ UNCHANGED flow
    \/ /\ ~stopping /\ svc /\ Launch("prepare", "start", None)
       /\ UNCHANGED <<isBinding, bindJob, connecting>>

ForgetPause ==
    /\ until' = FALSE /\ saved' = FALSE /\ due' = FALSE
    /\ armed' = FALSE /\ alarm' = FALSE

CancelPauseSilently == IF until \/ armed THEN ForgetPause ELSE UNCHANGED pause

EnterPending == runState' = "PENDING" /\ pendingJob' = TRUE

(* GlobalState.handleStart: the Dart side is asked to start. *)
HandleStart ==
    IF runState = "STOP" THEN EnterPending ELSE UNCHANGED state

(* GlobalState.handleStop: the Dart side is asked to stop.  In the activity  *)
(* it answers with stopVpn (forced), in the service with vpn.stop.           *)
HandleStop ==
    IF runState = "START"
    THEN EnterPending /\ stops' = stops \cup {IF UI THEN "forced" ELSE "soft"}
    ELSE UNCHANGED <<state, stops>>

(* The end of resumeNow, and all of resumeFromNotification. *)
Resume ==
    IF smart /\ options # None
    THEN Launch("resumeClaim", "resume", options) /\ UNCHANGED state
    ELSE HandleStart /\ UNCHANGED flow

-----------------------------------------------------------------------------
(* VpnPlugin.handleStart, called by the Dart side once it has configured the *)
(* core, and the answer to the consent dialog it may open.  Without consent  *)
(* and without an activity to ask for it the start goes on as with it.       *)

Start(m) ==
    /\ "start" \in Entries /\ main = "idle"
    /\ CancelPauseSilently
    /\ options' = m
    /\ service' = (service /\ m = options)
    /\ \/ StartService(service') /\ UNCHANGED consent
       \/ /\ m = "vpn" /\ ~prepared
          /\ dialog' = TRUE /\ UNCHANGED prepared
          /\ UNCHANGED <<isBinding, bindJob, connecting, flow>>
    /\ UNCHANGED <<state, flags, core, stops, auto, restart, thread, timer>>

Consent ==
    /\ dialog /\ main = "idle"
    /\ dialog' = FALSE
    /\ \/ prepared' = TRUE /\ StartService(service)
       \/ UNCHANGED <<prepared, isBinding, bindJob, connecting, flow>>
    /\ UNCHANGED <<state, flags, options, service, pause, core, world, thread,
                   timer>>

(* Mutant: the flag of the bind outlives the connection. *)
ServiceConnectedStillBinding ==
    /\ connecting /\ main = "idle"
    /\ connecting' = FALSE /\ bindJob' = FALSE
    /\ UNCHANGED isBinding /\ service' = TRUE
    /\ \/ stopping /\ UNCHANGED flow
       \/ ~stopping /\ Launch("prepare", "start", None)
    /\ UNCHANGED <<state, flags, options, consent, pause, core, world, thread,
                   timer>>

ServiceConnected ==
    /\ connecting /\ main = "idle"
    /\ connecting' = FALSE /\ bindJob' = FALSE
    /\ isBinding' = FALSE /\ service' = TRUE
    /\ \/ stopping /\ UNCHANGED flow
       \/ ~stopping /\ Launch("prepare", "start", None)
    /\ UNCHANGED <<state, flags, options, consent, pause, core, world, thread,
                   timer>>

(* The connection may still come, after its timeout or never. *)
BindTimeout ==
    /\ bindJob
    /\ bindJob' = FALSE /\ isBinding' = FALSE
    /\ IF isBinding /\ runState = "PENDING"
       THEN UpdateRunState("STOP")
       ELSE UNCHANGED state
    /\ UNCHANGED <<flags, options, service, connecting, consent, pause,
                   core, world, thread, timer, flow>>

-----------------------------------------------------------------------------
(* A flow of handleStartService, and performStartCore. *)

Prepare(f) ==
    /\ at[f] = "prepare"
    /\ IF options = "vpn" /\ ~prepared
       THEN UpdateRunState("STOP") /\ Goto(f, "ask")
       ELSE UNCHANGED state /\ Goto(f, "claim")
    /\ UNCHANGED <<flags, options, binding, consent, pause, core, world,
                   thread, timer, overlap>>

(* On the main thread.  Without an activity handleStartService is called at  *)
(* once, and launches the flow anew.                                         *)
Ask(f) ==
    /\ at[f] = "ask" /\ main = "idle"
    /\ \/ /\ ~prepared /\ dialog' = TRUE /\ EndFlow(f)
          /\ UNCHANGED <<isBinding, bindJob, connecting>>
       \/ /\ stopping /\ EndFlow(f)
          /\ UNCHANGED <<dialog, isBinding, bindJob, connecting>>
       \/ ~stopping /\ ~service /\ BindService /\ EndFlow(f) /\ UNCHANGED dialog
       \/ /\ ~stopping /\ service /\ Goto(f, "prepare")
          /\ UNCHANGED <<dialog, isBinding, bindJob, connecting>>
    /\ UNCHANGED <<state, flags, options, service, prepared, pause, core, world,
                   thread, timer, overlap>>

OthersStart(f) == \E g \in Flows \ {f} : at[g] \in Starting

(* The options are there: a flow is launched only after a start has set      *)
(* them, and nothing takes them back.                                        *)
ClaimStart(f) ==
    /\ at[f] = "claim"
    /\ \/ runState = "START" /\ EndFlow(f) /\ UNCHANGED <<state, overlap>>
       \/ /\ runState # "START"
          /\ UpdateRunState("START")
          /\ at' = [at EXCEPT ![f] = "first"]
          /\ mode' = [mode EXCEPT ![f] = options]
          /\ overlap' = (overlap \/ OthersStart(f))
          /\ UNCHANGED kind
    /\ UNCHANGED <<flags, options, binding, consent, pause, core, world, thread,
                   timer>>

(* The flow of handleSmartResume. *)
ClaimResume(f) ==
    /\ at[f] = "resumeClaim"
    /\ \/ runState = "START" /\ EndFlow(f)
          /\ UNCHANGED <<state, smart, options, binding, overlap>>
       \/ /\ runState # "START"
          /\ smart' = FALSE /\ options' = mode[f] /\ UNCHANGED service
          /\ \/ ~service /\ BindService /\ EndFlow(f)
                /\ UNCHANGED <<state, overlap>>
             \/ /\ service /\ UpdateRunState("START") /\ Goto(f, "wake")
                /\ overlap' = (overlap \/ OthersStart(f))
                /\ UNCHANGED <<isBinding, bindJob, connecting>>
    /\ UNCHANGED <<stopping, clears, consent, pause, core, world, thread, timer>>

Wake(f) ==
    /\ at[f] = "wake"
    /\ suspended' = FALSE
    /\ Goto(f, "first")
    /\ UNCHANGED <<state, flags, options, binding, consent, pause, tun, module,
                   watchdog, world, thread, timer, overlap>>

(* BaseServiceInterface.start: a VPN can be refused, a proxy cannot. *)
MayStart(f) == service /\ (mode[f] = "proxy" \/ prepared)
MayFail(f) == mode[f] = "vpn" \/ ~service

Establish(f) ==
    /\ \/ at[f] = "first" /\ MayStart(f) /\ Goto(f, "check")
       \/ /\ at[f] = "first" /\ MayFail(f)
          /\ Goto(f, IF kind[f] = "start" THEN "second" ELSE "failed")
       \/ at[f] = "second" /\ MayStart(f) /\ Goto(f, "check")
       \/ at[f] = "second" /\ MayFail(f) /\ Goto(f, "failed")
    /\ UNCHANGED <<state, flags, options, binding, consent, pause, core, world,
                   thread, timer, overlap>>

(* notifyVpnStartFailed makes the activity stop everything. *)
StartFails(f) ==
    /\ at[f] = "failed"
    /\ UpdateRunState("STOP")
    /\ stops' = IF kind[f] = "start" /\ UI THEN stops \cup {"forced"} ELSE stops
    /\ EndFlow(f)
    /\ UNCHANGED <<flags, options, binding, consent, pause, core, auto, restart, thread, timer, overlap>>

Check(f) ==
    /\ at[f] = "check"
    /\ IF runState = "START" THEN Goto(f, "startTun") ELSE EndFlow(f)
    /\ UNCHANGED <<state, flags, options, binding, consent, pause, core, world,
                   thread, timer, overlap>>

StartTun(f) ==
    /\ at[f] = "startTun"
    /\ tun' = TRUE
    /\ Goto(f, "commit")
    /\ UNCHANGED <<state, flags, options, binding, consent, pause, suspended,
                   module, watchdog, world, thread, timer, overlap>>

(* Mutant: the run state is not looked at again after startTun. *)
CommitUnchecked(f) ==
    /\ at[f] = "commit"
    /\ module' = TRUE /\ UNCHANGED tun
    /\ Goto(f, "watch")
    /\ UNCHANGED <<state, flags, options, binding, consent, pause, suspended,
                   watchdog, world, thread, timer, overlap>>

(* The setting dozeSuspend is on. *)
Commit(f) ==
    /\ at[f] = "commit"
    /\ IF runState = "START"
       THEN module' = TRUE /\ UNCHANGED tun
       ELSE tun' = FALSE /\ UNCHANGED module
    /\ Goto(f, "watch")
    /\ UNCHANGED <<state, flags, options, binding, consent, pause, suspended,
                   watchdog, world, thread, timer, overlap>>

(* What follows the lock: "return@withLock" has left only the lock. *)
Watch(f) ==
    /\ at[f] = "watch"
    /\ watchdog' = (watchdog \/ mode[f] = "vpn")
    /\ EndFlow(f)
    /\ UNCHANGED <<state, flags, options, binding, consent, pause, tun,
                   suspended, module, world, thread, timer, overlap>>

-----------------------------------------------------------------------------
(* VpnPlugin.handleStop, on the main thread. *)

CallStop(forced) ==
    /\ main = "idle" /\ clears < MaxClears
    /\ CancelPauseSilently
    /\ main' = "stopLock" /\ force' = forced /\ UNCHANGED pausing
    /\ UNCHANGED <<state, flags, options, binding, consent, core, auto, restart,
                   timer, flow>>

(* The stop button of the activity, or a stop that no engine answers. *)
Stop ==
    /\ "stop" \in Entries
    /\ CallStop(TRUE) /\ UNCHANGED stops

(* A stop that was asked for over a channel, or by onRevoke. *)
StopArrives ==
    \E s \in stops :
        CallStop(s = "forced") /\ stops' = stops \ {s}

Revoke ==
    /\ "revoke" \in Entries /\ prepared /\ service
    /\ prepared' = FALSE /\ stops' = stops \cup {"soft"}
    /\ UNCHANGED <<state, flags, options, binding, dialog, pause, core, auto,
                   restart, thread, timer, flow>>

(* The activity, told of a STOP that it has not asked for, stops too. *)
StopLock ==
    /\ main = "stopLock"
    /\ force' = FALSE
    /\ \/ ~force /\ runState = "STOP"
          /\ main' = "idle" /\ UNCHANGED <<state, stopping, stops>>
       \/ /\ force \/ runState # "STOP"
          /\ stopping' = TRUE /\ UpdateRunState("STOP")
          /\ \/ UNCHANGED stops
             \/ UI /\ ~force /\ stops' = stops \cup {"forced"}
          /\ main' = "uninstall"
    /\ UNCHANGED <<smart, clears, options, binding, consent, pause, core, auto,
                   restart, pausing, timer, flow>>

Uninstall ==
    /\ main \in {"uninstall", "smartUninstall"}
    /\ module' = FALSE /\ watchdog' = FALSE
    /\ main' = IF main = "uninstall" THEN "stopTun" ELSE "smartStopTun"
    /\ UNCHANGED <<state, flags, options, binding, consent, pause, tun,
                   suspended, world, force, pausing, timer, flow>>

StopTun ==
    /\ main \in {"stopTun", "smartStopTun"}
    /\ tun' = FALSE
    /\ main' = IF main = "stopTun" THEN "release" ELSE "smartSuspend"
    /\ UNCHANGED <<state, flags, options, binding, consent, pause, suspended,
                   module, watchdog, world, force, pausing, timer, flow>>

(* Mutant: the lock of the stop is cleared once more, by its second delay. *)
ReleaseTwice ==
    /\ main = "release"
    /\ service' = FALSE
    /\ clears' = clears + 2
    /\ main' = "idle"
    /\ UNCHANGED <<state, smart, stopping, options, isBinding, bindJob,
                   connecting, consent, pause, core, world, force, pausing,
                   timer, flow>>

(* A bind that has not connected yet is left alone. *)
Release ==
    /\ main = "release"
    /\ service' = FALSE
    /\ clears' = clears + 1
    /\ main' = "idle"
    /\ UNCHANGED <<state, smart, stopping, options, isBinding, bindJob,
                   connecting, consent, pause, core, world, force, pausing,
                   timer, flow>>

ClearStopping ==
    /\ clears > 0
    /\ clears' = clears - 1 /\ stopping' = FALSE
    /\ UNCHANGED <<state, smart, options, binding, consent, pause, core, world,
                   thread, timer, flow>>

-----------------------------------------------------------------------------
(* VpnPlugin.handleSmartStop and handlePause. *)

(* Mutant: a smart-stop that finds the VPN stopped leaves the timer unset. *)
SmartStopEndsUnarmed ==
    /\ main' = "idle" /\ pausing' = FALSE
    /\ armed' = (armed \/ (pausing /\ smart))
    /\ UNCHANGED <<until, saved, due, alarm, force>>

SmartStopEnds ==
    /\ main' = "idle" /\ pausing' = FALSE
    /\ armed' = (armed \/ pausing)
    /\ UNCHANGED <<until, saved, due, alarm, force>>

(* Mutant: no alarm is set. *)
PauseWithoutAlarm ==
    /\ "pause" \in Entries /\ main = "idle"
    /\ runState = "START" /\ options # None
    /\ until' = TRUE /\ saved' = TRUE /\ due' = FALSE
    /\ armed' = FALSE /\ UNCHANGED alarm
    /\ main' = "smartLock" /\ pausing' = TRUE /\ UNCHANGED force
    /\ UNCHANGED <<state, flags, options, binding, consent, core, world, timer,
                   flow>>

Pause ==
    /\ "pause" \in Entries /\ main = "idle"
    /\ runState = "START" /\ options # None
    /\ until' = TRUE /\ saved' = TRUE /\ due' = FALSE
    /\ armed' = FALSE /\ alarm' = TRUE
    /\ main' = "smartLock" /\ pausing' = TRUE /\ UNCHANGED force
    /\ UNCHANGED <<state, flags, options, binding, consent, core, world, timer,
                   flow>>

SmartLock ==
    /\ main = "smartLock"
    /\ \/ runState = "STOP" /\ SmartStopEnds /\ UNCHANGED <<state, smart>>
       \/ /\ runState # "STOP"
          /\ UpdateRunState("STOP") /\ smart' = TRUE
          /\ main' = "smartUninstall" /\ UNCHANGED <<force, pausing, pause>>
    /\ UNCHANGED <<stopping, clears, options, binding, consent, core, world,
                   timer, flow>>

SmartSuspend ==
    /\ main = "smartSuspend"
    /\ suspended' = TRUE
    /\ SmartStopEnds
    /\ UNCHANGED <<state, flags, options, binding, consent, tun, module,
                   watchdog, world, timer, flow>>

-----------------------------------------------------------------------------
(* The end of a pause: its timer, its alarm, its button. *)

Due ==
    /\ until \/ saved \/ armed
    /\ ~due /\ due' = TRUE
    /\ UNCHANGED <<state, flags, options, binding, consent, until, saved, armed,
                   alarm, core, world, thread, timer, flow>>

LiftedAlready == ~smart \/ runState # "STOP"

(* resumeIfPausedDue on pauseJob, up to its call of resumeNow. *)
TimerFires ==
    /\ armed /\ due /\ timer = "idle"
    /\ \/ ~until /\ armed' = FALSE
          /\ due' = (due /\ saved) /\ UNCHANGED <<until, saved, alarm, timer>>
       \/ until /\ LiftedAlready /\ ForgetPause /\ UNCHANGED timer
       \/ /\ until /\ ~LiftedAlready
          /\ timer' = "resume" /\ armed' = FALSE
          /\ UNCHANGED <<until, saved, due, alarm>>
    /\ UNCHANGED <<state, flags, options, binding, consent, core, world, thread,
                   flow>>

(* resumeNow; a second press within a second is dropped. *)
TimerClears ==
    /\ timer = "resume"
    /\ \/ until /\ ForgetPause /\ timer' = "dispatch"
       \/ ~until /\ UNCHANGED pause /\ timer' \in {"dispatch", "idle"}
    /\ UNCHANGED <<state, flags, options, binding, consent, core, world, thread,
                   flow>>

TimerResumes ==
    /\ timer = "dispatch" /\ timer' = "idle"
    /\ Resume
    /\ UNCHANGED <<flags, options, binding, consent, pause, core, world, thread>>

(* Mutant: the pause is taken off, and the VPN left to the timer. *)
EndPauseOnly ==
    /\ IF until THEN ForgetPause ELSE UNCHANGED pause
    /\ UNCHANGED <<state, flow>>

(* resumeNow on the main thread. *)
EndPause == (IF until THEN ForgetPause ELSE UNCHANGED pause) /\ Resume

ResumeNow ==
    /\ "resume" \in Entries /\ main = "idle"
    /\ EndPause
    /\ UNCHANGED <<flags, options, binding, consent, core, stops, auto, restart,
                   thread, timer>>

(* The button of the notification leaves the pause on. *)
ResumeFromNotification ==
    /\ "resume" \in Entries /\ main = "idle" /\ smart
    /\ Resume
    /\ UNCHANGED <<flags, options, binding, consent, pause, core, stops, auto,
                   restart, thread, timer>>

(* PauseResumeReceiver.onReceive at the due time. *)
AlarmFires ==
    /\ alarm /\ due /\ main = "idle"
    /\ \/ /\ ~until
          /\ alarm' = FALSE /\ saved' = FALSE
          /\ due' = (due /\ armed) /\ UNCHANGED <<until, armed, state, flow>>
       \/ until /\ LiftedAlready /\ ForgetPause /\ UNCHANGED <<state, flow>>
       \/ until /\ ~LiftedAlready /\ EndPause
    /\ UNCHANGED <<flags, options, binding, consent, core, world, thread, timer>>

(* restorePauseFromPrefs, by an engine that attaches or an early alarm. *)
RestorePause ==
    /\ "crash" \in Entries /\ main = "idle" /\ ~until /\ saved
    /\ until' = ~due /\ saved' = ~due
    /\ due' = (due /\ armed) /\ UNCHANGED <<armed, alarm>>
    /\ UNCHANGED <<state, flags, options, binding, consent, core, world, thread,
                   timer, flow>>

-----------------------------------------------------------------------------
(* The tile, the buttons of the notification and the restart. *)

RequestStart ==
    /\ "tile" \in Entries /\ main = "idle"
    /\ HandleStart
    /\ UNCHANGED <<flags, options, binding, consent, pause, core, stops, auto,
                   restart, thread, timer, flow>>

RequestStop ==
    /\ "tile" \in Entries /\ main = "idle"
    /\ HandleStop
    /\ UNCHANGED <<flags, options, binding, consent, pause, core, auto, restart,
                   thread, timer, flow>>

PendingTimeout ==
    /\ pendingJob /\ main = "idle"
    /\ pendingJob' = FALSE
    /\ runState' = IF runState = "PENDING" THEN "STOP" ELSE runState
    /\ UNCHANGED <<flags, options, binding, consent, pause, core, world, thread,
                   timer, flow>>

RequestRestart ==
    /\ "restart" \in Entries /\ main = "idle"
    /\ HandleStop
    /\ restart' = TRUE
    /\ UNCHANGED <<flags, options, binding, consent, pause, core, auto, thread,
                   timer, flow>>

(* restartJob waits for STOP, for 15 seconds or until another button. *)
RestartStarts ==
    /\ restart /\ main = "idle"
    /\ HandleStart
    /\ restart' = FALSE
    /\ UNCHANGED <<flags, options, binding, consent, pause, core, stops, auto, thread, timer, flow>>

(* A tile that becomes visible. *)
SyncStatus ==
    /\ "sync" \in Entries /\ main = "idle" /\ runState # "PENDING"
    /\ UpdateRunState(IF runState = "START" /\ service THEN "START" ELSE "STOP")
    /\ UNCHANGED <<flags, options, binding, consent, pause, core, world, thread,
                   timer, flow>>

-----------------------------------------------------------------------------
(* checkSmartAutoStop of the Dart side: it reads the flag, awaits the        *)
(* addresses, asks for the status, sets the flag and then asks for the stop  *)
(* or the resume, each in a call of its own.                                 *)

AutoCheck ==
    /\ "auto" \in Entries /\ auto = "idle"
    /\ auto' = IF smart THEN "resume" ELSE "status"
    /\ UNCHANGED <<state, flags, options, binding, consent, pause, core, stops,
                   restart, thread, timer, flow>>

AutoStatus ==
    /\ auto = "status"
    /\ auto' = IF runState = "START" THEN "stop" ELSE "idle"
    /\ UNCHANGED <<state, flags, options, binding, consent, pause, core, stops,
                   restart, thread, timer, flow>>

SetSmartStopped ==
    /\ auto \in {"stop", "resume"} /\ main = "idle"
    /\ smart' = (auto = "stop")
    /\ auto' = IF auto = "stop" THEN "stopping" ELSE "resuming"
    /\ UNCHANGED <<state, stopping, clears, options, binding, consent, pause,
                   core, stops, restart, thread, timer, flow>>

AutoStop ==
    /\ auto = "stopping" /\ main = "idle"
    /\ auto' = "idle"
    /\ main' = "smartLock" /\ UNCHANGED <<force, pausing>>
    /\ UNCHANGED <<state, flags, options, binding, consent, pause, core, stops,
                   restart, timer, flow>>

AutoResume ==
    /\ auto = "resuming" /\ main = "idle"
    /\ auto' = "idle"
    /\ \E m \in Modes : Launch("resumeClaim", "resume", m)
    /\ UNCHANGED <<state, flags, options, binding, consent, pause, core, stops,
                   restart, thread, timer>>

-----------------------------------------------------------------------------
(* The process dies.  The alarm and the preferences survive; among them the  *)
(* time of the last stop, which keeps isCurrentlyStopping for five seconds.  *)
Crash ==
    /\ "crash" \in Entries
    /\ runState' = "STOP" /\ pendingJob' = FALSE
    /\ smart' = FALSE /\ clears' = IF stopping THEN 1 ELSE 0
    /\ options' = None
    /\ service' = FALSE /\ isBinding' = FALSE
    /\ bindJob' = FALSE /\ connecting' = FALSE /\ dialog' = FALSE
    /\ until' = FALSE /\ armed' = FALSE
    /\ tun' = FALSE /\ suspended' = FALSE /\ module' = FALSE /\ watchdog' = FALSE
    /\ stops' = {} /\ auto' = "idle" /\ restart' = FALSE
    /\ main' = "idle" /\ force' = FALSE /\ pausing' = FALSE /\ timer' = "idle"
    /\ at' = [f \in Flows |-> "free"]
    /\ kind' = [f \in Flows |-> "start"] /\ mode' = [f \in Flows |-> None]
    /\ overlap' = FALSE
    /\ UNCHANGED <<stopping, prepared, saved, due, alarm>>

FlowStep(f) ==
    \/ Prepare(f) \/ Ask(f) \/ ClaimStart(f) \/ ClaimResume(f) \/ Wake(f)
    \/ Establish(f) \/ StartFails(f)
    \/ Check(f) \/ StartTun(f) \/ Commit(f) \/ Watch(f)

MainStep ==
    StopLock \/ Uninstall \/ StopTun \/ Release \/ SmartLock \/ SmartSuspend

Next ==
    \/ \E m \in Modes : Start(m)
    \/ Consent \/ ServiceConnected \/ BindTimeout
    \/ \E f \in Flows : FlowStep(f)
    \/ MainStep
    \/ Stop \/ StopArrives \/ Revoke \/ ClearStopping
    \/ Pause \/ Due \/ TimerFires \/ TimerClears \/ TimerResumes
    \/ ResumeNow \/ ResumeFromNotification \/ AlarmFires \/ RestorePause
    \/ RequestStart \/ RequestStop \/ PendingTimeout
    \/ RequestRestart \/ RestartStarts \/ SyncStatus
    \/ AutoCheck \/ AutoStatus \/ SetSmartStopped \/ AutoStop \/ AutoResume
    \/ Crash

Spec == Init /\ [][Next]_vars

(* A coroutine that can run does.  What waits for the main thread, as a flow *)
(* does in Ask, is in its queue, so it gets its turn however often others    *)
(* are served: strong fairness.  Nobody has to press a button, a bind need   *)
(* not connect and a consent dialog need not be answered.                    *)
Fairness ==
    /\ \A f \in Flows : SF_vars(FlowStep(f))
    /\ WF_vars(MainStep) /\ WF_vars(TimerFires) /\ WF_vars(TimerClears)
    /\ WF_vars(ClearStopping) /\ WF_vars(BindTimeout) /\ WF_vars(Due)
    /\ SF_vars(TimerResumes) /\ SF_vars(AlarmFires)
    /\ SF_vars(PendingTimeout) /\ SF_vars(StopArrives)

FairSpec == Spec /\ Fairness

-----------------------------------------------------------------------------
(* Properties. *)

(* Nothing is under way: no handler, no flow, no call that is still to come. *)
Quiet ==
    /\ main = "idle" /\ timer = "idle" /\ stops = {} /\ auto = "idle"
    /\ ~restart /\ \A f \in Flows : at[f] = "free"

(* A session of the core outlives the state START only while somebody is on  *)
(* the way to end it: a stop on the main thread, a forced one still to come, *)
(* or the flow that opened the session, which looks again once it holds the  *)
(* lock.  This is why performStartCore checks the run state twice.  It needs *)
(* that no two flows have started at once: the first would take the START    *)
(* of the second for its own.                                                *)
StopIsComing ==
    \/ main \in {"uninstall", "stopTun", "smartUninstall", "smartStopTun"}
    \/ main = "stopLock" /\ force
    \/ "forced" \in stops

NoOrphanTunnel ==
    ~overlap /\ tun /\ runState = "STOP" =>
        StopIsComing \/ \E f \in Flows : at[f] = "commit"

(* A bind that keeps others out has its timeout running.  The connection of  *)
(* an earlier bind may arrive after that timeout, in the middle of the next  *)
(* bind, and must not leave a flag that nobody resets: with it the VPN can   *)
(* never be started again.                                                   *)
BindGuarded == isBinding => bindJob

(* While a pause is on, the alarm and the preferences have it, for the case  *)
(* that the process dies: cancelling, ending, restoring and replacing a      *)
(* pause treat the three alike.                                              *)
PauseBackedUp == until => saved /\ alarm

(* In the process that paused, the timer has it too: it is set, or about to  *)
(* be, or at work.  Asked of a process that does not die.                    *)
TimerKept == until => armed \/ pausing \/ timer # "idle"

(* PENDING is left, whatever becomes of what it waits for: the toggle of the *)
(* tile does nothing while it lasts.                                         *)
PendingEnds == runState = "PENDING" ~> runState # "PENDING"

(* A pause that is due ends, whatever else is pressed meanwhile. *)
PauseEnds == until /\ due ~> ~(until /\ due)

(* A pause whose time comes while the VPN is down for it, with its service   *)
(* alive, brings the VPN up again, unless a stop comes between: it does not  *)
(* just end, whatever starts, restarts and resumes meet it.                  *)
PauseResumes ==
    until /\ due /\ smart /\ service /\ runState = "STOP"
        ~> runState # "STOP" \/ stopping \/ main = "stopLock"

(* Whatever the user waits for comes to an end: PENDING, and a pause, which  *)
(* ends in a tunnel.                                                         *)
WaitsEnd == PendingEnds /\ PauseEnds /\ PauseResumes

(* VpnPlugin.kt: the leak watchdog lives "while the VPN is up". *)
WatchdogOnlyWithTun == Quiet /\ watchdog => tun

(* VpnPlugin.kt: a pause stops the tunnel and then, when its minutes are     *)
(* over, the VPN comes up.                                                   *)
PausedStaysDown ==
    until /\ ~due /\ ~pausing /\ Quiet => runState # "START"

(* PauseResumeReceiver.kt: the alarm is there for a process that was killed. *)
(* A pause that is left in the preferences alone, when it is due, goes from  *)
(* them only with the VPN being brought up.                                  *)
PauseSurvivesDeath ==
    [][saved /\ ~until /\ due /\ ~saved'
        => \/ runState' = "PENDING"
           \/ \E f \in Flows : at[f] = "free" /\ at'[f] = "resumeClaim"]_vars

=============================================================================
