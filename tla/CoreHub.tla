------------------------------ MODULE CoreHub ------------------------------
(* The control plane of the Go bridge (core/common.go, core/hub.go and       *)
(* core/suspend.go): initialisation, listeners, configuration, suspension    *)
(* and external providers.                                                   *)
(*                                                                           *)
(* Each request is a goroutine of its own (go handleAction), so any number   *)
(* run at once; handleSuspend comes from the JVM instead.  Most handlers     *)
(* hold runLock; handleShutdown, handleSuspend, handleUpdateExternalProvider *)
(* and the clearing that opens handleSetupConfig do not.                     *)
(*                                                                           *)
(* Every configuration that parses is a new generation of proxies and of     *)
(* providers.  A generation stands for one provider with a health check, one *)
(* WireGuard outbound and the NTP section of its configuration.              *)
EXTENDS Naturals, FiniteSets

CONSTANTS
    Callers,      \* goroutines that serve requests
    Suspenders,   \* JVM threads that call suspend
    Entries,      \* the handlers that requests reach, by their first step
    Ports,        \* values of mixed-port
    MaxSetups,    \* configurations that may be parsed in a run
    SetupMayFail, \* can config.yaml be missing or wrong?
    None

Threads == Callers \cup Suspenders
Gens == 1 .. MaxSetups
Configs == [gen : Gens, port : Ports, ntp : BOOLEAN]

AllEntries == {"startLock", "stopLock", "updateLock", "clearChecks", "setupLock",
               "changeLock", "externalLock", "sideLock", "fetch", "shutdown"}

ASSUME HubAssumption ==
    /\ Entries \subseteq AllEntries
    /\ Callers \cap Suspenders = {}
    /\ None \notin Threads /\ None \notin Ports /\ None \notin Configs
    /\ MaxSetups \in Nat /\ SetupMayFail \in BOOLEAN

VARIABLES
    isInit, isRunning, runLock,
    currentConfig, \* None, or its generation, mixed-port and NTP switch
    made,          \* generations parsed so far
    applied,       \* the generation behind tunnel.Proxies() and Providers()
    status,        \* tunnel.status
    listeners,     \* None, or the port the http, socks and mixed listeners use
    checks,        \* HealthCheck.proxies of each generation
    savedChecks,   \* suspendedEntries
    wg,            \* the WireGuard device of each generation
    savedWG,       \* suspendedWGDevices
    ntp,           \* the generation whose NTP service runs, or 0
    external,      \* the generation externalProviders was read from, or 0
    asked,         \* the last value handleSuspend accepted
    pc, arg, seen  \* of each thread: where it is, its argument, what it read

suspension == <<checks, savedChecks, wg, savedWG>>
shared == <<isInit, isRunning, runLock, currentConfig, made, applied, status,
            listeners, suspension, ntp, external, asked>>
vars == <<shared, pc, arg, seen>>

Setups == {"clearChecks", "clearWG", "setupLock", "parse", "applySuspend",
           "applyProxies", "applyNTP", "applyInner", "applyRunning",
           "selectGroups"}
Locations == Setups \cup
    {"idle", "listen", "open", "startLock", "starting", "stopLock", "stopping",
     "shutdown", "updateLock", "updating", "changeLock", "lookup", "select",
     "externalLock", "externalRead", "fetch", "sideLock", "sideLoad",
     "pauseChecks", "pauseWG", "stopNTP",
     "resumeChecks", "resumeWG", "resumeLock", "resumeRead", "resumeNTP"}

Lists == {"nil", "parsed", "fetched"}

SharedType ==
    /\ isInit \in BOOLEAN /\ isRunning \in BOOLEAN
    /\ runLock \in Threads \cup {None}
    /\ currentConfig \in Configs \cup {None}
    /\ made \in 0 .. MaxSetups /\ applied \in 0 .. made
    /\ status \in {"suspend", "inner", "running"}
    /\ listeners \in Ports \cup {None}
    /\ checks \in [Gens -> Lists] /\ savedChecks \in [Gens -> Lists]
    /\ wg \in [Gens -> {"new", "up", "down"}] /\ savedWG \subseteq Gens
    /\ ntp \in 0 .. made /\ external \in 0 .. made
    /\ asked \in BOOLEAN

LocalType ==
    /\ pc \in [Threads -> Locations]
    /\ arg \in [Threads -> Ports \cup {None}]
    /\ seen \in [Threads -> 0 .. made]

TypeOK == SharedType /\ LocalType

Init ==
    /\ isInit = FALSE /\ isRunning = FALSE /\ runLock = None
    /\ currentConfig = None /\ made = 0 /\ applied = 0 /\ status = "suspend"
    /\ listeners = None /\ ntp = 0 /\ external = 0 /\ asked = FALSE
    /\ checks = [g \in Gens |-> "nil"] /\ savedChecks = [g \in Gens |-> "nil"]
    /\ wg = [g \in Gens |-> "new"] /\ savedWG = {}
    /\ pc = [t \in Threads |-> "idle"]
    /\ arg = [t \in Threads |-> None] /\ seen = [t \in Threads |-> 0]

-----------------------------------------------------------------------------
At(t, l)   == pc[t] = l
Goto(t, l) == pc' = [pc EXCEPT ![t] = l] /\ UNCHANGED <<arg, seen>>
Call(t, l) == At(t, "idle") /\ Goto(t, l)
CallWith(t, l, a) ==
    /\ At(t, "idle")
    /\ pc' = [pc EXCEPT ![t] = l]
    /\ arg' = [arg EXCEPT ![t] = a]
    /\ UNCHANGED seen
Remember(t, l, g) ==
    /\ pc' = [pc EXCEPT ![t] = l]
    /\ seen' = [seen EXCEPT ![t] = g]
    /\ UNCHANGED arg
Return(t) ==
    /\ pc' = [pc EXCEPT ![t] = "idle"]
    /\ arg' = [arg EXCEPT ![t] = None]
    /\ seen' = [seen EXCEPT ![t] = 0]

Lock(t) == runLock = None /\ runLock' = t

Unlock(t) == runLock' = None

(* The lock step of a handler, and the rest of it in one critical section. *)
Acquire(t, from, to) ==
    /\ At(t, from) /\ Lock(t) /\ Goto(t, to)
    /\ UNCHANGED <<isInit, isRunning, currentConfig, made, applied, status,
                   listeners, suspension, ntp, external, asked>>

control  == <<isInit, isRunning, currentConfig, made, applied>>
services == <<status, listeners, suspension, ntp, external, asked>>

-----------------------------------------------------------------------------
(* handleInitClash and handleShutdown, neither of which takes runLock.       *)

InitClash(t) ==
    /\ At(t, "idle")
    /\ isInit' = TRUE
    /\ UNCHANGED <<isRunning, currentConfig, made, applied, services, runLock,
                   pc, arg, seen>>

Shutdown(t) ==
    /\ "shutdown" \in Entries /\ Call(t, "shutdown")
    /\ listeners' = None
    /\ UNCHANGED <<control, status, suspension, ntp, external, asked, runLock>>

Uninit(t) ==
    /\ At(t, "shutdown")
    /\ isInit' = FALSE
    /\ Return(t)
    /\ UNCHANGED <<isRunning, currentConfig, made, applied, services, runLock>>

-----------------------------------------------------------------------------
(* updateListeners: the common end of three handlers, under runLock. *)

(* Mutant: the listeners are opened whether or not they were started. *)
MayListenStopped == currentConfig # None

MayListen == isRunning /\ currentConfig # None

Listen(t) ==
    /\ At(t, "listen")
    /\ \/ MayListen /\ Goto(t, "open") /\ UNCHANGED runLock
       \/ ~MayListen /\ Return(t) /\ Unlock(t)
    /\ UNCHANGED <<control, services>>

(* A listener on the port in force is kept; opening a new one may fail. *)
Open(t) ==
    /\ At(t, "open")
    /\ \/ listeners' = currentConfig.port
       \/ listeners # currentConfig.port /\ listeners' = None
    /\ Return(t) /\ Unlock(t)
    /\ UNCHANGED <<control, status, suspension, ntp, external, asked>>

StartListener(t) ==
    /\ At(t, "starting")
    /\ isRunning' = TRUE
    /\ Goto(t, "listen")
    /\ UNCHANGED <<isInit, currentConfig, made, applied, services, runLock>>

StopListener(t) ==
    /\ At(t, "stopping")
    /\ isRunning' = FALSE /\ listeners' = None
    /\ Return(t) /\ Unlock(t)
    /\ UNCHANGED <<isInit, currentConfig, made, applied, status, suspension,
                   ntp, external, asked>>

(* Mutant: the port is changed and the listeners are left as they are. *)
UpdateConfigOnly(t) ==
    /\ At(t, "updating") /\ currentConfig # None
    /\ currentConfig' = [currentConfig EXCEPT !.port = arg[t]]
    /\ Return(t) /\ Unlock(t)
    /\ UNCHANGED <<isInit, isRunning, made, applied, services>>

UpdateConfig(t) ==
    /\ At(t, "updating") /\ currentConfig # None
    /\ currentConfig' = [currentConfig EXCEPT !.port = arg[t]]
    /\ Goto(t, "listen")
    /\ UNCHANGED <<isInit, isRunning, made, applied, services, runLock>>

UpdateWithoutConfig(t) ==
    /\ At(t, "updating") /\ currentConfig = None
    /\ Return(t) /\ Unlock(t)
    /\ UNCHANGED <<control, services>>

-----------------------------------------------------------------------------
(* handleSetupConfig.  Parameters that do not decode skip the clearing.      *)

ClearChecks(t) ==
    /\ At(t, "clearChecks")
    /\ savedChecks' = [g \in Gens |-> "nil"]
    /\ Goto(t, "clearWG")
    /\ UNCHANGED <<control, status, listeners, checks, wg, savedWG, ntp,
                   external, asked, runLock>>

ClearWG(t) ==
    /\ At(t, "clearWG")
    /\ savedWG' = {}
    /\ Goto(t, "setupLock")
    /\ UNCHANGED <<control, status, listeners, checks, savedChecks, wg, ntp,
                   external, asked, runLock>>

(* The file cannot be read, or is not YAML. *)
ReadFails(t) ==
    /\ At(t, "parse") /\ SetupMayFail
    /\ Return(t) /\ Unlock(t)
    /\ UNCHANGED <<control, services>>

(* Mutant: the error path returns without unlocking. *)
ParseFailsLocked(t) ==
    /\ At(t, "parse") /\ SetupMayFail
    /\ currentConfig' = None
    /\ Return(t) /\ UNCHANGED runLock
    /\ UNCHANGED <<isInit, isRunning, made, applied, services>>

(* ParseRawConfig fails: its nil result is already in currentConfig. *)
ParseFails(t) ==
    /\ At(t, "parse") /\ SetupMayFail
    /\ currentConfig' = None
    /\ Return(t) /\ Unlock(t)
    /\ UNCHANGED <<isInit, isRunning, made, applied, services>>

(* Mutant: the new configuration is counted only from the next one on. *)
ParseUncounted(t) ==
    /\ At(t, "parse") /\ made < MaxSetups
    /\ \E p \in Ports, n \in BOOLEAN :
           currentConfig' = [gen |-> made + 1, port |-> p, ntp |-> n]
    /\ checks' = [checks EXCEPT ![made + 1] = "parsed"]
    /\ Goto(t, "applySuspend")
    /\ UNCHANGED <<isInit, isRunning, made, applied, status, listeners,
                   savedChecks, wg, savedWG, ntp, external, asked, runLock>>

(* Mutant: runLock is given back once the file has been parsed. *)
ParseSucceedsUnlocked(t) ==
    /\ At(t, "parse") /\ made < MaxSetups
    /\ made' = made + 1
    /\ \E p \in Ports, n \in BOOLEAN :
           currentConfig' = [gen |-> made + 1, port |-> p, ntp |-> n]
    /\ checks' = [checks EXCEPT ![made + 1] = "parsed"]
    /\ Goto(t, "applySuspend") /\ Unlock(t)
    /\ UNCHANGED <<isInit, isRunning, applied, status, listeners,
                   savedChecks, wg, savedWG, ntp, external, asked>>

(* A provider's health check is made with the proxies of the configuration.  *)
(* The number of setups is bounded by MaxSetups.                             *)
ParseSucceeds(t) ==
    /\ At(t, "parse") /\ made < MaxSetups
    /\ made' = made + 1
    /\ \E p \in Ports, n \in BOOLEAN :
           currentConfig' = [gen |-> made + 1, port |-> p, ntp |-> n]
    /\ checks' = [checks EXCEPT ![made + 1] = "parsed"]
    /\ Goto(t, "applySuspend")
    /\ UNCHANGED <<isInit, isRunning, applied, status, listeners,
                   savedChecks, wg, savedWG, ntp, external, asked, runLock>>

(* executor.ApplyConfig, in its order. *)
ApplySuspend(t) ==
    /\ At(t, "applySuspend")
    /\ status' = "suspend"
    /\ Goto(t, "applyProxies")
    /\ UNCHANGED <<control, listeners, suspension, ntp, external, asked,
                   runLock>>

ApplyProxies(t) ==
    /\ At(t, "applyProxies")
    /\ applied' = currentConfig.gen
    /\ Goto(t, "applyNTP")
    /\ UNCHANGED <<isInit, isRunning, currentConfig, made, services, runLock>>

NTPOf(c) == IF c.ntp THEN c.gen ELSE 0

ApplyNTP(t) ==
    /\ At(t, "applyNTP")
    /\ ntp' = NTPOf(currentConfig)
    /\ Goto(t, "applyInner")
    /\ UNCHANGED <<control, status, listeners, suspension, external, asked,
                   runLock>>

(* Loading a provider may fetch a newer list. *)
ApplyInner(t) ==
    /\ At(t, "applyInner")
    /\ status' = "inner"
    /\ \E list \in {checks[applied], "fetched"} :
           checks' = [checks EXCEPT ![applied] = list]
    /\ Goto(t, "applyRunning")
    /\ UNCHANGED <<control, listeners, savedChecks, wg, savedWG, ntp, external,
                   asked, runLock>>

ApplyRunning(t) ==
    /\ At(t, "applyRunning")
    /\ status' = "running"
    /\ Goto(t, "selectGroups")
    /\ UNCHANGED <<control, listeners, suspension, ntp, external, asked,
                   runLock>>

(* Mutant: the suspended entries are cleared when the setup has succeeded. *)
SelectGroupsAndClear(t) ==
    /\ At(t, "selectGroups")
    /\ savedChecks' = [g \in Gens |-> "nil"]
    /\ Goto(t, "listen")
    /\ UNCHANGED <<control, status, listeners, checks, wg, savedWG, ntp,
                   external, asked, runLock>>

SelectGroups(t) ==
    /\ At(t, "selectGroups")
    /\ Goto(t, "listen")
    /\ UNCHANGED <<control, services, runLock>>

-----------------------------------------------------------------------------
(* handleChangeProxy: the goroutine it starts gives runLock back. *)

CallChangeProxy(t) ==
    /\ "changeLock" \in Entries /\ isInit /\ Call(t, "changeLock")
    /\ UNCHANGED shared

(* Mutant: runLock is released once the goroutine has been started. *)
LookupUnlocked(t) ==
    /\ At(t, "lookup")
    /\ Remember(t, "select", applied) /\ Unlock(t)
    /\ UNCHANGED <<control, services>>

LookupGroup(t) ==
    /\ At(t, "lookup")
    /\ Remember(t, "select", applied)
    /\ UNCHANGED shared

(* Bad parameters or an unknown group. *)
ChangeFails(t) ==
    /\ At(t, "lookup")
    /\ Return(t) /\ Unlock(t)
    /\ UNCHANGED <<control, services>>

Select(t) ==
    /\ At(t, "select")
    /\ Return(t) /\ Unlock(t)
    /\ UNCHANGED <<control, services>>

-----------------------------------------------------------------------------
(* External providers, found by name in the map that the last                *)
(* handleGetExternalProviders left in externalProviders.                     *)

GetExternalProviders(t) ==
    /\ At(t, "externalRead")
    /\ external' = IF isInit THEN applied ELSE external
    /\ Return(t) /\ Unlock(t)
    /\ UNCHANGED <<control, status, listeners, suspension, ntp, asked>>

UpdateExternalProvider(t) ==
    /\ "fetch" \in Entries /\ At(t, "idle") /\ external # 0
    /\ Remember(t, "fetch", external)
    /\ UNCHANGED shared

(* baseProvider.setProxies gives the health check the new list, suspended or *)
(* not.                                                                      *)
SetProxies(g) == checks' = [checks EXCEPT ![g] = "fetched"]

Fetch(t) ==
    /\ At(t, "fetch")
    /\ \/ SetProxies(seen[t])
       \/ UNCHANGED checks
    /\ Return(t)
    /\ UNCHANGED <<control, status, listeners, savedChecks, wg, savedWG, ntp,
                   external, asked, runLock>>

SideLoadExternalProvider(t) ==
    /\ At(t, "sideLoad")
    /\ \/ external # 0 /\ SetProxies(external)
       \/ UNCHANGED checks
    /\ Return(t) /\ Unlock(t)
    /\ UNCHANGED <<control, status, listeners, savedChecks, wg, savedWG, ntp,
                   external, asked>>

(* The timer of a provider fetches by itself. *)
PullLoop ==
    /\ applied # 0
    /\ SetProxies(applied)
    /\ UNCHANGED <<control, status, listeners, savedChecks, wg, savedWG, ntp,
                   external, asked, runLock, pc, arg, seen>>

(* The first connection or delay test through a WireGuard outbound starts    *)
(* its device.                                                               *)
FirstDial ==
    /\ applied # 0 /\ wg[applied] = "new"
    /\ wg' = [wg EXCEPT ![applied] = "up"]
    /\ UNCHANGED <<control, status, listeners, checks, savedChecks, savedWG,
                   ntp, external, asked, runLock, pc, arg, seen>>

-----------------------------------------------------------------------------
(* handleSuspend(true), refused before handleInitClash. *)

Suspend(t) ==
    /\ isInit /\ Call(t, "pauseChecks")
    /\ asked' = TRUE /\ status' = "suspend"
    /\ UNCHANGED <<control, listeners, suspension, ntp, external, runLock>>

(* Mutant: a suspension that has saved any entry saves no other. *)
CanPauseFirst(g) ==
    g # 0 /\ checks[g] # "nil" /\ \A h \in Gens : savedChecks[h] = "nil"

(* An entry that is saved already is left as it is. *)
CanPause(g) == g # 0 /\ checks[g] # "nil" /\ savedChecks[g] = "nil"

PauseChecks(t) ==
    /\ At(t, "pauseChecks")
    /\ IF CanPause(applied)
       THEN /\ savedChecks' = [savedChecks EXCEPT ![applied] = checks[applied]]
            /\ checks' = [checks EXCEPT ![applied] = "nil"]
       ELSE UNCHANGED <<savedChecks, checks>>
    /\ Goto(t, "pauseWG")
    /\ UNCHANGED <<control, status, listeners, wg, savedWG, ntp, external,
                   asked, runLock>>

PauseWG(t) ==
    /\ At(t, "pauseWG")
    /\ IF applied # 0 /\ wg[applied] # "new" /\ applied \notin savedWG
       THEN /\ wg' = [wg EXCEPT ![applied] = "down"]
            /\ savedWG' = savedWG \cup {applied}
       ELSE UNCHANGED <<wg, savedWG>>
    /\ Goto(t, "stopNTP")
    /\ UNCHANGED <<control, status, listeners, checks, savedChecks, ntp,
                   external, asked, runLock>>

StopNTP(t) ==
    /\ At(t, "stopNTP")
    /\ ntp' = 0
    /\ Return(t)
    /\ UNCHANGED <<control, status, listeners, suspension, external, asked,
                   runLock>>

(* handleSuspend(false).  The configuration is read under runLock and used   *)
(* after it.                                                                 *)

Resume(t) ==
    /\ isInit /\ Call(t, "resumeChecks")
    /\ asked' = FALSE /\ status' = "running"
    /\ UNCHANGED <<control, listeners, suspension, ntp, external, runLock>>

ResumeChecks(t) ==
    /\ At(t, "resumeChecks")
    /\ checks' = [g \in Gens |-> IF savedChecks[g] = "nil" THEN checks[g]
                                                           ELSE savedChecks[g]]
    /\ savedChecks' = [g \in Gens |-> "nil"]
    /\ Goto(t, "resumeWG")
    /\ UNCHANGED <<control, status, listeners, wg, savedWG, ntp, external,
                   asked, runLock>>

ResumeWG(t) ==
    /\ At(t, "resumeWG")
    /\ wg' = [g \in Gens |-> IF g \in savedWG THEN "up" ELSE wg[g]]
    /\ savedWG' = {}
    /\ Goto(t, "resumeLock")
    /\ UNCHANGED <<control, status, listeners, checks, savedChecks, ntp,
                   external, asked, runLock>>

ResumeRead(t) ==
    /\ At(t, "resumeRead")
    /\ LET g == IF currentConfig = None THEN 0 ELSE NTPOf(currentConfig)
       IN  Remember(t, "resumeNTP", g)
    /\ Unlock(t)
    /\ UNCHANGED <<control, services>>

(* NTP is started when it is enabled, and left alone otherwise. *)
ResumeNTP(t) ==
    /\ At(t, "resumeNTP")
    /\ ntp' = IF seen[t] = 0 THEN ntp ELSE seen[t]
    /\ Return(t)
    /\ UNCHANGED <<control, status, listeners, suspension, external, asked,
                   runLock>>

-----------------------------------------------------------------------------
(* MaxSetups bounds the calls where every setup succeeds, and the successes  *)
(* where it may fail.                                                        *)
MaySetUp == SetupMayFail \/ made + Cardinality({t \in Callers :
    pc[t] \in {"clearChecks", "clearWG", "setupLock", "parse"}}) < MaxSetups

CallHandler(t) ==
    /\ \E l \in Entries \ {"updateLock", "changeLock", "fetch", "shutdown"} :
           Call(t, l) /\ (l \in {"clearChecks", "setupLock"} => MaySetUp)
    /\ UNCHANGED shared

CallUpdateConfig(t) ==
    /\ "updateLock" \in Entries
    /\ \E p \in Ports : CallWith(t, "updateLock", p)
    /\ UNCHANGED shared

LockSteps == {<<"startLock", "starting">>, <<"stopLock", "stopping">>,
              <<"updateLock", "updating">>, <<"setupLock", "parse">>,
              <<"changeLock", "lookup">>, <<"externalLock", "externalRead">>,
              <<"sideLock", "sideLoad">>, <<"resumeLock", "resumeRead">>}

Acquires(t) == \E l \in LockSteps : Acquire(t, l[1], l[2])

Requests(t) ==
    \/ CallHandler(t) \/ CallUpdateConfig(t) \/ CallChangeProxy(t)
    \/ UpdateExternalProvider(t) \/ InitClash(t) \/ Shutdown(t)

Listeners(t) ==
    \/ StartListener(t) \/ StopListener(t) \/ Listen(t) \/ Open(t)
    \/ UpdateConfig(t) \/ UpdateWithoutConfig(t) \/ Uninit(t)

SetupSteps(t) ==
    \/ ClearChecks(t) \/ ClearWG(t) \/ ReadFails(t) \/ ParseFails(t)
    \/ ParseSucceeds(t) \/ ApplySuspend(t) \/ ApplyProxies(t) \/ ApplyNTP(t)
    \/ ApplyInner(t) \/ ApplyRunning(t) \/ SelectGroups(t)

Others(t) ==
    \/ LookupGroup(t) \/ ChangeFails(t) \/ Select(t)
    \/ GetExternalProviders(t) \/ Fetch(t) \/ SideLoadExternalProvider(t)

SuspendSteps(t) ==
    \/ PauseChecks(t) \/ PauseWG(t) \/ StopNTP(t)
    \/ ResumeChecks(t) \/ ResumeWG(t) \/ ResumeRead(t) \/ ResumeNTP(t)

Steps(t) == Listeners(t) \/ SetupSteps(t) \/ Others(t) \/ SuspendSteps(t)

Next ==
    \/ \E t \in Callers : Requests(t)
    \/ \E t \in Suspenders : Suspend(t) \/ Resume(t)
    \/ \E t \in Threads : Acquires(t) \/ Steps(t)
    \/ PullLoop \/ FirstDial

Spec == Init /\ [][Next]_vars

(* A running handler goes on; sync.Mutex lets no waiter starve. *)
FairSpec ==
    /\ Spec
    /\ \A t \in Threads : WF_vars(Steps(t)) /\ SF_vars(Acquires(t))

-----------------------------------------------------------------------------
(* Properties. *)

SettingUp == \E t \in Threads : pc[t] \in Setups
Suspending == \E t \in Suspenders : pc[t] # "idle"

(* Once stopListener has returned, nothing opens a listener again before the *)
(* next startListener, whatever setups and updates were under way.           *)
StopSticks == runLock = None /\ ~isRunning => listeners = None

(* Listeners that are open serve the port of the configuration in force:     *)
(* no setup or update leaves the old port behind.                            *)
ListenersCurrent ==
    runLock = None /\ listeners # None /\ currentConfig # None
        => listeners = currentConfig.port

(* Between requests, the configuration that updates change and listeners     *)
(* follow is the one whose proxies and providers are live.                   *)
ConfigIsLive == runLock = None /\ currentConfig # None => currentConfig.gen = applied

(* handleChangeProxy changes a group of the configuration that is live when  *)
(* it reports success, never one that a setup has just replaced.             *)
ChoiceReachesLive ==
    \A t \in Threads : pc[t] = "select" => seen[t] = applied

(* A suspended core is quiet: between setups, a tunnel that is suspended     *)
(* probes nothing but a list fetched since, and runs no NTP service.         *)
SuspendQuiet ==
    runLock = None /\ ~Suspending /\ status = "suspend" /\ asked
        => ntp = 0 /\ (applied # 0 => checks[applied] # "parsed")

(* Every request is answered: runLock is always given back. *)
RequestsReturn == \A t \in Threads : pc[t] # "idle" ~> pc[t] = "idle"

=============================================================================
