----------------------------- MODULE HubProofs -----------------------------
(* Proofs about CoreHub, for any callers, suspenders, ports and number of    *)
(* setups, and then about DozeHub.                                           *)
(*                                                                           *)
(* The three properties speak of states in which runLock is free or of one   *)
(* thread that holds it, so the invariant says who may be in a critical      *)
(* section (LockOK) and what holds inside one: a thread about to open        *)
(* listeners has found the core running and configured (OpenOK), and         *)
(* listeners lag the configuration only while its holder is on its way to    *)
(* updateListeners (PortOK).                                                 *)
EXTENDS DozeHub, TLAPS

Applying == {"applySuspend", "applyProxies", "applyNTP", "applyInner",
             "applyRunning", "selectGroups"}
Refreshing == Applying \cup {"listen", "open"}
Critical == Refreshing \cup
    {"starting", "stopping", "updating", "parse", "lookup", "select",
     "externalRead", "sideLoad", "resumeRead"}

LockOK == \A t \in Threads : pc[t] \in Critical <=> runLock = t

ConfigOK ==
    /\ currentConfig # None => currentConfig.gen \in 1 .. made
    /\ \A t \in Threads : pc[t] \in Applying => currentConfig # None
    /\ \A t \in Threads : pc[t] \in {"applyNTP", "applyInner"} => applied # 0

OpenOK == \A t \in Threads : pc[t] = "open" => MayListen

StopOK == ~isRunning => listeners = None

PortOK ==
    /\ \A t \in Threads : pc[t] \notin Refreshing
    /\ listeners # None /\ currentConfig # None
    => listeners = currentConfig.port

LocalOK ==
    \A t \in Threads :
        /\ pc[t] = "fetch" => seen[t] # 0
        /\ pc[t] \in {"updateLock", "updating"} => arg[t] \in Ports

Inv == TypeOK /\ LockOK /\ ConfigOK /\ OpenOK /\ StopOK /\ PortOK
       /\ ChoiceReachesLive /\ LocalOK

USE HubAssumption

(* A step that moves one thread, and one that ends its request. *)
LEMMA GotoType ==
  ASSUME LocalType, NEW t \in Threads, NEW l \in Locations, Goto(t, l), made' = made
  PROVE  LocalType'
  BY DEF LocalType, Goto

LEMMA ReturnType ==
  ASSUME TypeOK, NEW t \in Threads, Return(t), made' = made
  PROVE  LocalType'
  BY DEF TypeOK, SharedType, LocalType, Return, Locations

(* The listeners and the settings. *)
LEMMA ListenerStepType ==
  ASSUME Inv, NEW t \in Threads, Listeners(t)
  PROVE  TypeOK'
  <1> USE DEF Inv, TypeOK, control, services, suspension, shared, At
  <1>1. CASE StartListener(t)
    <2>1. SharedType'
      BY <1>1 DEF SharedType, Unlock, Configs, Gens, Lists, StartListener
    <2>2. LocalType'
      BY <1>1, GotoType DEF Locations, Setups, StartListener
    <2> QED BY <2>1, <2>2
  <1>2. CASE StopListener(t)
    <2>1. SharedType'
      BY <1>2 DEF SharedType, Unlock, Configs, Gens, Lists, StopListener
    <2>2. LocalType'
      BY <1>2, ReturnType DEF StopListener
    <2> QED BY <2>1, <2>2
  <1>3. CASE Listen(t)
    <2>1. SharedType'
      BY <1>3 DEF SharedType, Unlock, Configs, Gens, Lists, Listen
    <2>2. LocalType'
      BY <1>3, ReturnType, GotoType DEF Locations, Setups, Listen
    <2> QED BY <2>1, <2>2
  <1>4. CASE Open(t)
    <2>1. SharedType'
      BY <1>4 DEF SharedType, Unlock, Configs, Gens, Lists, OpenOK, MayListen, Open
    <2>2. LocalType'
      BY <1>4, ReturnType DEF Open
    <2> QED BY <2>1, <2>2
  <1>5. CASE UpdateConfig(t)
    <2>1. SharedType'
      <3>1. currentConfig' \in Configs
        BY <1>5 DEF SharedType, Configs, LocalOK, UpdateConfig
      <3> QED BY <1>5, <3>1 DEF SharedType, UpdateConfig
    <2>2. LocalType'
      BY <1>5, GotoType DEF Locations, Setups, UpdateConfig
    <2> QED BY <2>1, <2>2
  <1>6. CASE UpdateWithoutConfig(t)
    <2>1. SharedType'
      BY <1>6 DEF SharedType, Unlock, Configs, Gens, Lists, UpdateWithoutConfig
    <2>2. LocalType'
      BY <1>6, ReturnType DEF UpdateWithoutConfig
    <2> QED BY <2>1, <2>2
  <1>7. CASE Uninit(t)
    <2>1. SharedType'
      BY <1>7 DEF SharedType, Unlock, Configs, Gens, Lists, Uninit
    <2>2. LocalType'
      BY <1>7, ReturnType DEF Uninit
    <2> QED BY <2>1, <2>2
  <1> QED BY <1>1, <1>2, <1>3, <1>4, <1>5, <1>6, <1>7 DEF Listeners

LEMMA ListenerStep ==
  ASSUME Inv, NEW t \in Threads, Listeners(t)
  PROVE  Inv'
  <1> USE DEF Inv, TypeOK, LocalType, LockOK, OpenOK, StopOK, PortOK, ConfigOK, LocalOK,
              ChoiceReachesLive, MayListen, Setups, Applying, Refreshing,
              Critical, At, Goto, Call, CallWith, Remember, Return, Unlock,
              control, services, suspension, shared
  <1>t. TypeOK'
    BY ListenerStepType
  <1>1. CASE StartListener(t)
    <2>1. LockOK'
      BY <1>1 DEF StartListener
    <2>2. OpenOK' /\ StopOK' /\ PortOK'
      BY <1>1 DEF StartListener
    <2>3. ConfigOK' /\ LocalOK' /\ ChoiceReachesLive'
      BY <1>1 DEF SharedType, StartListener
    <2> QED BY <1>t, <2>1, <2>2, <2>3
  <1>2. CASE StopListener(t)
    <2>1. LockOK'
      BY <1>2 DEF StopListener
    <2>2. OpenOK' /\ StopOK' /\ PortOK'
      BY <1>2 DEF StopListener
    <2>3. ConfigOK' /\ LocalOK' /\ ChoiceReachesLive'
      BY <1>2 DEF SharedType, StopListener
    <2> QED BY <1>t, <2>1, <2>2, <2>3
  <1>3. CASE Listen(t)
    <2>1. LockOK'
      BY <1>3 DEF Listen
    <2>2. OpenOK' /\ StopOK' /\ PortOK'
      BY <1>3 DEF Listen
    <2>3. ConfigOK' /\ LocalOK' /\ ChoiceReachesLive'
      BY <1>3 DEF SharedType, Listen
    <2> QED BY <1>t, <2>1, <2>2, <2>3
  <1>4. CASE Open(t)
    <2>1. LockOK'
      BY <1>4 DEF Open
    <2>2. OpenOK' /\ StopOK' /\ PortOK'
      BY <1>4 DEF Open
    <2>3. ConfigOK' /\ LocalOK' /\ ChoiceReachesLive'
      BY <1>4 DEF SharedType, Open
    <2> QED BY <1>t, <2>1, <2>2, <2>3
  <1>5. CASE UpdateConfig(t)
    <2>1. LockOK'
      BY <1>5 DEF UpdateConfig
    <2>2. OpenOK' /\ StopOK' /\ PortOK'
      BY <1>5 DEF UpdateConfig
    <2>3. ConfigOK' /\ LocalOK' /\ ChoiceReachesLive'
      BY <1>5 DEF SharedType, UpdateConfig
    <2> QED BY <1>t, <2>1, <2>2, <2>3
  <1>6. CASE UpdateWithoutConfig(t)
    <2>1. LockOK'
      BY <1>6 DEF UpdateWithoutConfig
    <2>2. OpenOK' /\ StopOK' /\ PortOK'
      BY <1>6 DEF UpdateWithoutConfig
    <2>3. ConfigOK' /\ LocalOK' /\ ChoiceReachesLive'
      BY <1>6 DEF SharedType, UpdateWithoutConfig
    <2> QED BY <1>t, <2>1, <2>2, <2>3
  <1>7. CASE Uninit(t)
    <2>1. LockOK'
      BY <1>7 DEF Uninit
    <2>2. OpenOK' /\ StopOK' /\ PortOK'
      BY <1>7 DEF Uninit
    <2>3. ConfigOK' /\ LocalOK' /\ ChoiceReachesLive'
      BY <1>7 DEF SharedType, Uninit
    <2> QED BY <1>t, <2>1, <2>2, <2>3
  <1> QED BY <1>1, <1>2, <1>3, <1>4, <1>5, <1>6, <1>7 DEF Listeners

(* handleSetupConfig. *)
LEMMA SetupStepType ==
  ASSUME Inv, NEW t \in Threads, SetupSteps(t)
  PROVE  TypeOK'
  <1> USE DEF Inv, TypeOK, control, services, suspension, shared, At
  <1>1. CASE ClearChecks(t)
    <2>1. SharedType'
      BY <1>1 DEF SharedType, Unlock, Configs, Gens, Lists, ClearChecks
    <2>2. LocalType'
      BY <1>1, GotoType DEF Locations, Setups, ClearChecks
    <2> QED BY <2>1, <2>2
  <1>2. CASE ClearWG(t)
    <2>1. SharedType'
      BY <1>2 DEF SharedType, Unlock, Configs, Gens, Lists, ClearWG
    <2>2. LocalType'
      BY <1>2, GotoType DEF Locations, Setups, ClearWG
    <2> QED BY <2>1, <2>2
  <1>3. CASE ReadFails(t)
    <2>1. SharedType'
      BY <1>3 DEF SharedType, Unlock, Configs, Gens, Lists, ReadFails
    <2>2. LocalType'
      BY <1>3, ReturnType DEF ReadFails
    <2> QED BY <2>1, <2>2
  <1>4. CASE ParseFails(t)
    <2>1. SharedType'
      BY <1>4 DEF SharedType, Unlock, Configs, Gens, Lists, ParseFails
    <2>2. LocalType'
      BY <1>4, ReturnType DEF ParseFails
    <2> QED BY <2>1, <2>2
  <1>5. CASE ParseSucceeds(t)
    <2>1. SharedType'
      BY <1>5 DEF SharedType, Unlock, Configs, Gens, Lists, ParseSucceeds
    <2>2. LocalType'
      BY <1>5 DEF Goto, LocalType, SharedType, Locations, Setups, ParseSucceeds
    <2> QED BY <2>1, <2>2
  <1>6. CASE ApplySuspend(t)
    <2>1. SharedType'
      BY <1>6 DEF SharedType, Unlock, Configs, Gens, Lists, ApplySuspend
    <2>2. LocalType'
      BY <1>6, GotoType DEF Locations, Setups, ApplySuspend
    <2> QED BY <2>1, <2>2
  <1>7. CASE ApplyProxies(t)
    <2>1. SharedType'
      BY <1>7 DEF SharedType, Unlock, Configs, Gens, Lists, ConfigOK, Applying, ApplyProxies
    <2>2. LocalType'
      BY <1>7, GotoType DEF Locations, Setups, ApplyProxies
    <2> QED BY <2>1, <2>2
  <1>8. CASE ApplyNTP(t)
    <2>1. SharedType'
      BY <1>8 DEF SharedType, Unlock, Configs, Gens, Lists, ConfigOK, Applying, ApplyNTP, NTPOf
    <2>2. LocalType'
      BY <1>8, GotoType DEF Locations, Setups, ApplyNTP, NTPOf
    <2> QED BY <2>1, <2>2
  <1>9. CASE ApplyInner(t)
    <2>1. SharedType'
      BY <1>9, ZenonT(30) DEF SharedType, Unlock, Configs, Gens, Lists, ApplyInner
    <2>2. LocalType'
      BY <1>9, GotoType DEF Locations, Setups, ApplyInner
    <2> QED BY <2>1, <2>2
  <1>10. CASE ApplyRunning(t)
    <2>1. SharedType'
      BY <1>10 DEF SharedType, Unlock, Configs, Gens, Lists, ApplyRunning
    <2>2. LocalType'
      BY <1>10, GotoType DEF Locations, Setups, ApplyRunning
    <2> QED BY <2>1, <2>2
  <1>11. CASE SelectGroups(t)
    <2>1. SharedType'
      BY <1>11 DEF SharedType, Unlock, Configs, Gens, Lists, SelectGroups
    <2>2. LocalType'
      BY <1>11, GotoType DEF Locations, Setups, SelectGroups
    <2> QED BY <2>1, <2>2
  <1> QED BY <1>1, <1>2, <1>3, <1>4, <1>5, <1>6, <1>7, <1>8, <1>9, <1>10, <1>11 DEF SetupSteps

LEMMA SetupStep ==
  ASSUME Inv, NEW t \in Threads, SetupSteps(t)
  PROVE  Inv'
  <1> USE DEF Inv, TypeOK, LocalType, LockOK, OpenOK, StopOK, PortOK, ConfigOK, LocalOK,
              ChoiceReachesLive, MayListen, Setups, Applying, Refreshing,
              Critical, At, Goto, Call, CallWith, Remember, Return, Unlock,
              control, services, suspension, shared
  <1>t. TypeOK'
    BY SetupStepType
  <1>1. CASE ClearChecks(t)
    <2>1. LockOK'
      BY <1>1 DEF ClearChecks
    <2>2. OpenOK' /\ StopOK' /\ PortOK'
      BY <1>1 DEF ClearChecks
    <2>3. ConfigOK' /\ LocalOK' /\ ChoiceReachesLive'
      BY <1>1 DEF SharedType, ClearChecks
    <2> QED BY <1>t, <2>1, <2>2, <2>3
  <1>2. CASE ClearWG(t)
    <2>1. LockOK'
      BY <1>2 DEF ClearWG
    <2>2. OpenOK' /\ StopOK' /\ PortOK'
      BY <1>2 DEF ClearWG
    <2>3. ConfigOK' /\ LocalOK' /\ ChoiceReachesLive'
      BY <1>2 DEF SharedType, ClearWG
    <2> QED BY <1>t, <2>1, <2>2, <2>3
  <1>3. CASE ReadFails(t)
    <2>1. LockOK'
      BY <1>3 DEF ReadFails
    <2>2. OpenOK' /\ StopOK' /\ PortOK'
      BY <1>3 DEF ReadFails
    <2>3. ConfigOK' /\ LocalOK' /\ ChoiceReachesLive'
      BY <1>3 DEF SharedType, ReadFails
    <2> QED BY <1>t, <2>1, <2>2, <2>3
  <1>4. CASE ParseFails(t)
    <2>1. LockOK'
      BY <1>4 DEF ParseFails
    <2>2. OpenOK' /\ StopOK' /\ PortOK'
      BY <1>4 DEF ParseFails
    <2>3. ConfigOK' /\ LocalOK' /\ ChoiceReachesLive'
      BY <1>4 DEF SharedType, ParseFails
    <2> QED BY <1>t, <2>1, <2>2, <2>3
  <1>5. CASE ParseSucceeds(t)
    <2>1. LockOK'
      BY <1>5 DEF ParseSucceeds
    <2>2. OpenOK' /\ StopOK' /\ PortOK'
      BY <1>5 DEF ParseSucceeds
    <2>3. ConfigOK'
      <3>1. currentConfig' # None /\ currentConfig'.gen = made'
        BY <1>5, <1>t DEF SharedType, Configs, ParseSucceeds
      <3> QED BY <1>5, <3>1 DEF SharedType, ParseSucceeds
    <2>4. LocalOK' /\ ChoiceReachesLive'
      BY <1>5 DEF SharedType, ParseSucceeds
    <2> QED BY <1>t, <2>1, <2>2, <2>3, <2>4
  <1>6. CASE ApplySuspend(t)
    <2>1. LockOK'
      BY <1>6 DEF ApplySuspend
    <2>2. OpenOK' /\ StopOK' /\ PortOK'
      BY <1>6 DEF ApplySuspend
    <2>3. ConfigOK' /\ LocalOK' /\ ChoiceReachesLive'
      BY <1>6 DEF SharedType, ApplySuspend
    <2> QED BY <1>t, <2>1, <2>2, <2>3
  <1>7. CASE ApplyProxies(t)
    <2>1. LockOK'
      BY <1>7 DEF ApplyProxies
    <2>2. OpenOK' /\ StopOK' /\ PortOK'
      BY <1>7 DEF ApplyProxies
    <2>3. ConfigOK' /\ LocalOK' /\ ChoiceReachesLive'
      BY <1>7 DEF SharedType, ApplyProxies
    <2> QED BY <1>t, <2>1, <2>2, <2>3
  <1>8. CASE ApplyNTP(t)
    <2>1. LockOK'
      BY <1>8 DEF ApplyNTP, NTPOf
    <2>2. OpenOK' /\ StopOK' /\ PortOK'
      BY <1>8 DEF ApplyNTP, NTPOf
    <2>3. ConfigOK' /\ LocalOK' /\ ChoiceReachesLive'
      BY <1>8 DEF SharedType, ApplyNTP, NTPOf
    <2> QED BY <1>t, <2>1, <2>2, <2>3
  <1>9. CASE ApplyInner(t)
    <2>1. LockOK'
      BY <1>9 DEF ApplyInner
    <2>2. OpenOK' /\ StopOK' /\ PortOK'
      BY <1>9 DEF ApplyInner
    <2>3. ConfigOK' /\ LocalOK' /\ ChoiceReachesLive'
      BY <1>9 DEF SharedType, ApplyInner
    <2> QED BY <1>t, <2>1, <2>2, <2>3
  <1>10. CASE ApplyRunning(t)
    <2>1. LockOK'
      BY <1>10 DEF ApplyRunning
    <2>2. OpenOK' /\ StopOK' /\ PortOK'
      BY <1>10 DEF ApplyRunning
    <2>3. ConfigOK' /\ LocalOK' /\ ChoiceReachesLive'
      BY <1>10 DEF SharedType, ApplyRunning
    <2> QED BY <1>t, <2>1, <2>2, <2>3
  <1>11. CASE SelectGroups(t)
    <2>1. LockOK'
      BY <1>11 DEF SelectGroups
    <2>2. OpenOK' /\ StopOK' /\ PortOK'
      BY <1>11 DEF SelectGroups
    <2>3. ConfigOK' /\ LocalOK' /\ ChoiceReachesLive'
      BY <1>11 DEF SharedType, SelectGroups
    <2> QED BY <1>t, <2>1, <2>2, <2>3
  <1> QED BY <1>1, <1>2, <1>3, <1>4, <1>5, <1>6, <1>7, <1>8, <1>9, <1>10, <1>11 DEF SetupSteps

(* Groups and external providers. *)
LEMMA OtherStepType ==
  ASSUME Inv, NEW t \in Threads, Others(t)
  PROVE  TypeOK'
  <1> USE DEF Inv, TypeOK, control, services, suspension, shared, At
  <1>1. CASE LookupGroup(t)
    <2>1. SharedType'
      BY <1>1 DEF SharedType, Unlock, Configs, Gens, Lists, LookupGroup
    <2>2. LocalType'
      BY <1>1 DEF Remember, LocalType, SharedType, Locations, Configs, LookupGroup
    <2> QED BY <2>1, <2>2
  <1>2. CASE ChangeFails(t)
    <2>1. SharedType'
      BY <1>2 DEF SharedType, Unlock, Configs, Gens, Lists, ChangeFails
    <2>2. LocalType'
      BY <1>2, ReturnType DEF ChangeFails
    <2> QED BY <2>1, <2>2
  <1>3. CASE Select(t)
    <2>1. SharedType'
      BY <1>3 DEF SharedType, Unlock, Configs, Gens, Lists, Select
    <2>2. LocalType'
      BY <1>3, ReturnType DEF Select
    <2> QED BY <2>1, <2>2
  <1>4. CASE GetExternalProviders(t)
    <2>1. SharedType'
      BY <1>4 DEF SharedType, Unlock, Configs, Gens, Lists, GetExternalProviders
    <2>2. LocalType'
      BY <1>4, ReturnType DEF GetExternalProviders
    <2> QED BY <2>1, <2>2
  <1>5. CASE Fetch(t)
    <2>1. SharedType'
      BY <1>5 DEF SharedType, Unlock, Configs, Gens, Lists, Fetch, SetProxies
    <2>2. LocalType'
      BY <1>5, ReturnType DEF Fetch, SetProxies
    <2> QED BY <2>1, <2>2
  <1>6. CASE SideLoadExternalProvider(t)
    <2>1. SharedType'
      BY <1>6 DEF SharedType, Unlock, Configs, Gens, Lists, SideLoadExternalProvider, SetProxies
    <2>2. LocalType'
      BY <1>6, ReturnType DEF SideLoadExternalProvider, SetProxies
    <2> QED BY <2>1, <2>2
  <1> QED BY <1>1, <1>2, <1>3, <1>4, <1>5, <1>6 DEF Others

LEMMA OtherStep ==
  ASSUME Inv, NEW t \in Threads, Others(t)
  PROVE  Inv'
  <1> USE DEF Inv, TypeOK, LocalType, LockOK, OpenOK, StopOK, PortOK, ConfigOK, LocalOK,
              ChoiceReachesLive, MayListen, Setups, Applying, Refreshing,
              Critical, At, Goto, Call, CallWith, Remember, Return, Unlock,
              control, services, suspension, shared
  <1>t. TypeOK'
    BY OtherStepType
  <1>1. CASE LookupGroup(t)
    <2>1. LockOK'
      BY <1>1 DEF LookupGroup
    <2>2. OpenOK' /\ StopOK' /\ PortOK'
      BY <1>1 DEF LookupGroup
    <2>3. ConfigOK' /\ LocalOK' /\ ChoiceReachesLive'
      BY <1>1 DEF SharedType, LookupGroup
    <2> QED BY <1>t, <2>1, <2>2, <2>3
  <1>2. CASE ChangeFails(t)
    <2>1. LockOK'
      BY <1>2 DEF ChangeFails
    <2>2. OpenOK' /\ StopOK' /\ PortOK'
      BY <1>2 DEF ChangeFails
    <2>3. ConfigOK' /\ LocalOK' /\ ChoiceReachesLive'
      BY <1>2 DEF SharedType, ChangeFails
    <2> QED BY <1>t, <2>1, <2>2, <2>3
  <1>3. CASE Select(t)
    <2>1. LockOK'
      BY <1>3 DEF Select
    <2>2. OpenOK' /\ StopOK' /\ PortOK'
      BY <1>3 DEF Select
    <2>3. ConfigOK' /\ LocalOK' /\ ChoiceReachesLive'
      BY <1>3 DEF SharedType, Select
    <2> QED BY <1>t, <2>1, <2>2, <2>3
  <1>4. CASE GetExternalProviders(t)
    <2>1. LockOK'
      BY <1>4 DEF GetExternalProviders
    <2>2. OpenOK' /\ StopOK' /\ PortOK'
      BY <1>4 DEF GetExternalProviders
    <2>3. ConfigOK' /\ LocalOK' /\ ChoiceReachesLive'
      BY <1>4 DEF SharedType, GetExternalProviders
    <2> QED BY <1>t, <2>1, <2>2, <2>3
  <1>5. CASE Fetch(t)
    <2>1. LockOK'
      BY <1>5 DEF Fetch, SetProxies
    <2>2. OpenOK' /\ StopOK' /\ PortOK'
      BY <1>5 DEF Fetch, SetProxies
    <2>3. ConfigOK' /\ LocalOK' /\ ChoiceReachesLive'
      BY <1>5 DEF SharedType, Fetch, SetProxies
    <2> QED BY <1>t, <2>1, <2>2, <2>3
  <1>6. CASE SideLoadExternalProvider(t)
    <2>1. LockOK'
      BY <1>6 DEF SideLoadExternalProvider, SetProxies
    <2>2. OpenOK' /\ StopOK' /\ PortOK'
      BY <1>6 DEF SideLoadExternalProvider, SetProxies
    <2>3. ConfigOK' /\ LocalOK' /\ ChoiceReachesLive'
      BY <1>6 DEF SharedType, SideLoadExternalProvider, SetProxies
    <2> QED BY <1>t, <2>1, <2>2, <2>3
  <1> QED BY <1>1, <1>2, <1>3, <1>4, <1>5, <1>6 DEF Others

(* handleSuspend. *)
LEMMA SuspendStepType ==
  ASSUME Inv, NEW t \in Threads, SuspendSteps(t)
  PROVE  TypeOK'
  <1> USE DEF Inv, TypeOK, control, services, suspension, shared, At
  <1>1. CASE PauseChecks(t)
    <2>1. SharedType'
      BY <1>1 DEF SharedType, Unlock, Configs, Gens, Lists, PauseChecks, CanPause
    <2>2. LocalType'
      BY <1>1, GotoType DEF Locations, Setups, PauseChecks, CanPause
    <2> QED BY <2>1, <2>2
  <1>2. CASE PauseWG(t)
    <2>1. SharedType'
      <3>1. applied # 0 => applied \in Gens
        BY DEF SharedType, Gens
      <3> QED BY <1>2, <3>1 DEF SharedType, PauseWG
    <2>2. LocalType'
      BY <1>2, GotoType DEF Locations, Setups, PauseWG
    <2> QED BY <2>1, <2>2
  <1>3. CASE StopNTP(t)
    <2>1. SharedType'
      BY <1>3 DEF SharedType, Unlock, Configs, Gens, Lists, StopNTP
    <2>2. LocalType'
      BY <1>3, ReturnType DEF StopNTP
    <2> QED BY <2>1, <2>2
  <1>4. CASE ResumeChecks(t)
    <2>1. SharedType'
      BY <1>4 DEF SharedType, Unlock, Configs, Gens, Lists, ResumeChecks
    <2>2. LocalType'
      BY <1>4, GotoType DEF Locations, Setups, ResumeChecks
    <2> QED BY <2>1, <2>2
  <1>5. CASE ResumeWG(t)
    <2>1. SharedType'
      BY <1>5 DEF SharedType, Unlock, Configs, Gens, Lists, ResumeWG
    <2>2. LocalType'
      BY <1>5, GotoType DEF Locations, Setups, ResumeWG
    <2> QED BY <2>1, <2>2
  <1>6. CASE ResumeRead(t)
    <2>1. SharedType'
      BY <1>6 DEF SharedType, Unlock, Configs, Gens, Lists, ResumeRead, NTPOf
    <2>2. LocalType'
      <3>1. currentConfig # None => NTPOf(currentConfig) \in 0 .. made
        BY DEF SharedType, ConfigOK, NTPOf
      <3> QED
        BY <1>6, <3>1 DEF Remember, LocalType, SharedType, Locations, ResumeRead
    <2> QED BY <2>1, <2>2
  <1>7. CASE ResumeNTP(t)
    <2>1. SharedType'
      BY <1>7 DEF SharedType, Unlock, Configs, Gens, Lists, LocalType, ResumeNTP
    <2>2. LocalType'
      BY <1>7, ReturnType DEF ResumeNTP
    <2> QED BY <2>1, <2>2
  <1> QED BY <1>1, <1>2, <1>3, <1>4, <1>5, <1>6, <1>7 DEF SuspendSteps

LEMMA SuspendStep ==
  ASSUME Inv, NEW t \in Threads, SuspendSteps(t)
  PROVE  Inv'
  <1> USE DEF Inv, TypeOK, LocalType, LockOK, OpenOK, StopOK, PortOK, ConfigOK, LocalOK,
              ChoiceReachesLive, MayListen, Setups, Applying, Refreshing,
              Critical, At, Goto, Call, CallWith, Remember, Return, Unlock,
              control, services, suspension, shared
  <1>t. TypeOK'
    BY SuspendStepType
  <1>1. CASE PauseChecks(t)
    <2>1. LockOK'
      BY <1>1 DEF PauseChecks, CanPause
    <2>2. OpenOK' /\ StopOK' /\ PortOK'
      BY <1>1 DEF PauseChecks, CanPause
    <2>3. ConfigOK' /\ LocalOK' /\ ChoiceReachesLive'
      BY <1>1 DEF SharedType, PauseChecks, CanPause
    <2> QED BY <1>t, <2>1, <2>2, <2>3
  <1>2. CASE PauseWG(t)
    <2>1. LockOK'
      BY <1>2 DEF PauseWG
    <2>2. OpenOK' /\ StopOK' /\ PortOK'
      BY <1>2 DEF PauseWG
    <2>3. ConfigOK' /\ LocalOK' /\ ChoiceReachesLive'
      BY <1>2 DEF SharedType, PauseWG
    <2> QED BY <1>t, <2>1, <2>2, <2>3
  <1>3. CASE StopNTP(t)
    <2>1. LockOK'
      BY <1>3 DEF StopNTP
    <2>2. OpenOK' /\ StopOK' /\ PortOK'
      BY <1>3 DEF StopNTP
    <2>3. ConfigOK' /\ LocalOK' /\ ChoiceReachesLive'
      BY <1>3 DEF SharedType, StopNTP
    <2> QED BY <1>t, <2>1, <2>2, <2>3
  <1>4. CASE ResumeChecks(t)
    <2>1. LockOK'
      BY <1>4 DEF ResumeChecks
    <2>2. OpenOK' /\ StopOK' /\ PortOK'
      BY <1>4 DEF ResumeChecks
    <2>3. ConfigOK' /\ LocalOK' /\ ChoiceReachesLive'
      BY <1>4 DEF SharedType, ResumeChecks
    <2> QED BY <1>t, <2>1, <2>2, <2>3
  <1>5. CASE ResumeWG(t)
    <2>1. LockOK'
      BY <1>5 DEF ResumeWG
    <2>2. OpenOK' /\ StopOK' /\ PortOK'
      BY <1>5 DEF ResumeWG
    <2>3. ConfigOK' /\ LocalOK' /\ ChoiceReachesLive'
      BY <1>5 DEF SharedType, ResumeWG
    <2> QED BY <1>t, <2>1, <2>2, <2>3
  <1>6. CASE ResumeRead(t)
    <2>1. LockOK'
      BY <1>6 DEF ResumeRead, NTPOf
    <2>2. OpenOK' /\ StopOK' /\ PortOK'
      BY <1>6 DEF ResumeRead, NTPOf
    <2>3. ConfigOK' /\ LocalOK' /\ ChoiceReachesLive'
      BY <1>6 DEF SharedType, ResumeRead, NTPOf
    <2> QED BY <1>t, <2>1, <2>2, <2>3
  <1>7. CASE ResumeNTP(t)
    <2>1. LockOK'
      BY <1>7 DEF ResumeNTP
    <2>2. OpenOK' /\ StopOK' /\ PortOK'
      BY <1>7 DEF ResumeNTP
    <2>3. ConfigOK' /\ LocalOK' /\ ChoiceReachesLive'
      BY <1>7 DEF SharedType, ResumeNTP
    <2> QED BY <1>t, <2>1, <2>2, <2>3
  <1> QED BY <1>1, <1>2, <1>3, <1>4, <1>5, <1>6, <1>7 DEF SuspendSteps

(* A request arrives. *)
LEMMA RequestStepType ==
  ASSUME Inv, NEW t \in Threads, Requests(t)
  PROVE  TypeOK'
  <1> USE DEF Inv, TypeOK, control, services, suspension, shared, At
  <1>1. CASE CallHandler(t)
    <2>1. SharedType'
      BY <1>1 DEF SharedType, Unlock, Configs, Gens, Lists, CallHandler, AllEntries
    <2>2. LocalType'
      BY <1>1, GotoType DEF Call, Locations, Setups, AllEntries, CallHandler, AllEntries
    <2> QED BY <2>1, <2>2
  <1>2. CASE CallUpdateConfig(t)
    <2>1. SharedType'
      BY <1>2 DEF SharedType, Unlock, Configs, Gens, Lists, CallUpdateConfig
    <2>2. LocalType'
      BY <1>2 DEF CallWith, LocalType, Locations, CallUpdateConfig
    <2> QED BY <2>1, <2>2
  <1>3. CASE CallChangeProxy(t)
    <2>1. SharedType'
      BY <1>3 DEF SharedType, Unlock, Configs, Gens, Lists, CallChangeProxy
    <2>2. LocalType'
      BY <1>3, GotoType DEF Call, Locations, Setups, CallChangeProxy
    <2> QED BY <2>1, <2>2
  <1>4. CASE UpdateExternalProvider(t)
    <2>1. SharedType'
      BY <1>4 DEF SharedType, Unlock, Configs, Gens, Lists, UpdateExternalProvider
    <2>2. LocalType'
      BY <1>4 DEF Remember, LocalType, SharedType, Locations, Configs, UpdateExternalProvider
    <2> QED BY <2>1, <2>2
  <1>5. CASE InitClash(t)
    <2>1. SharedType'
      BY <1>5 DEF SharedType, Unlock, Configs, Gens, Lists, InitClash
    <2>2. LocalType'
      BY <1>5 DEF LocalType, InitClash
    <2> QED BY <2>1, <2>2
  <1>6. CASE Shutdown(t)
    <2>1. SharedType'
      BY <1>6 DEF SharedType, Unlock, Configs, Gens, Lists, Shutdown
    <2>2. LocalType'
      BY <1>6, GotoType DEF Call, Locations, Setups, Shutdown
    <2> QED BY <2>1, <2>2
  <1> QED BY <1>1, <1>2, <1>3, <1>4, <1>5, <1>6 DEF Requests

LEMMA RequestStep ==
  ASSUME Inv, NEW t \in Threads, Requests(t)
  PROVE  Inv'
  <1> USE DEF Inv, TypeOK, LocalType, LockOK, OpenOK, StopOK, PortOK, ConfigOK, LocalOK,
              ChoiceReachesLive, MayListen, Setups, Applying, Refreshing,
              Critical, At, Goto, Call, CallWith, Remember, Return, Unlock,
              control, services, suspension, shared
  <1>t. TypeOK'
    BY RequestStepType
  <1>1. CASE CallHandler(t)
    <2>1. LockOK'
      BY <1>1 DEF CallHandler, AllEntries
    <2>2. OpenOK' /\ StopOK' /\ PortOK'
      BY <1>1 DEF CallHandler, AllEntries
    <2>3. ConfigOK' /\ LocalOK' /\ ChoiceReachesLive'
      BY <1>1 DEF SharedType, CallHandler, AllEntries
    <2> QED BY <1>t, <2>1, <2>2, <2>3
  <1>2. CASE CallUpdateConfig(t)
    <2>1. LockOK'
      BY <1>2 DEF CallUpdateConfig
    <2>2. OpenOK' /\ StopOK' /\ PortOK'
      BY <1>2 DEF CallUpdateConfig
    <2>3. ConfigOK' /\ LocalOK' /\ ChoiceReachesLive'
      BY <1>2 DEF SharedType, CallUpdateConfig
    <2> QED BY <1>t, <2>1, <2>2, <2>3
  <1>3. CASE CallChangeProxy(t)
    <2>1. LockOK'
      BY <1>3 DEF CallChangeProxy
    <2>2. OpenOK' /\ StopOK' /\ PortOK'
      BY <1>3 DEF CallChangeProxy
    <2>3. ConfigOK' /\ LocalOK' /\ ChoiceReachesLive'
      BY <1>3 DEF SharedType, CallChangeProxy
    <2> QED BY <1>t, <2>1, <2>2, <2>3
  <1>4. CASE UpdateExternalProvider(t)
    <2>1. LockOK'
      BY <1>4 DEF UpdateExternalProvider
    <2>2. OpenOK' /\ StopOK' /\ PortOK'
      BY <1>4 DEF UpdateExternalProvider
    <2>3. ConfigOK' /\ LocalOK' /\ ChoiceReachesLive'
      BY <1>4 DEF SharedType, UpdateExternalProvider
    <2> QED BY <1>t, <2>1, <2>2, <2>3
  <1>5. CASE InitClash(t)
    <2>1. LockOK'
      BY <1>5 DEF InitClash
    <2>2. OpenOK' /\ StopOK' /\ PortOK'
      BY <1>5 DEF InitClash
    <2>3. ConfigOK' /\ LocalOK' /\ ChoiceReachesLive'
      BY <1>5 DEF SharedType, InitClash
    <2> QED BY <1>t, <2>1, <2>2, <2>3
  <1>6. CASE Shutdown(t)
    <2>1. LockOK'
      BY <1>6 DEF Shutdown
    <2>2. OpenOK' /\ StopOK' /\ PortOK'
      BY <1>6 DEF Shutdown
    <2>3. ConfigOK' /\ LocalOK' /\ ChoiceReachesLive'
      BY <1>6 DEF SharedType, Shutdown
    <2> QED BY <1>t, <2>1, <2>2, <2>3
  <1> QED BY <1>1, <1>2, <1>3, <1>4, <1>5, <1>6 DEF Requests

(* runLock is taken. *)
LEMMA AcquireStep ==
  ASSUME Inv, NEW t \in Threads, Acquires(t)
  PROVE  Inv'
  <1>1. PICK l \in LockSteps : Acquire(t, l[1], l[2])
    BY DEF Acquires
  <1> USE <1>1 DEF Inv, TypeOK, Acquire, LockSteps, Lock, At
  <1>2. SharedType'
    BY DEF SharedType, suspension
  <1>3. LocalType'
    BY GotoType DEF Locations, Setups
  <1> USE DEF LocalType, Goto, Critical, Refreshing, Applying
  <1>4. LockOK'
    BY DEF LockOK
  <1>5. OpenOK' /\ StopOK' /\ PortOK'
    BY DEF LockOK, OpenOK, StopOK, PortOK, MayListen
  <1>6. ConfigOK' /\ LocalOK' /\ ChoiceReachesLive'
    BY DEF ConfigOK, LocalOK, ChoiceReachesLive
  <1> QED BY <1>2, <1>3, <1>4, <1>5, <1>6

(* The JVM suspends or resumes, and the two steps of the environment. *)
LEMMA SuspendCall ==
  ASSUME Inv, NEW t \in Threads, Suspend(t) \/ Resume(t)
  PROVE  Inv'
  <1> USE DEF Inv, TypeOK, Suspend, Resume, Call, At
  <1>1. SharedType'
    BY DEF SharedType, control, suspension
  <1>2. LocalType'
    BY GotoType DEF Locations, Setups, control
  <1> USE DEF LocalType, Goto, Critical, Refreshing, Applying, control
  <1>3. LockOK' /\ OpenOK' /\ StopOK' /\ PortOK'
    BY DEF LockOK, OpenOK, StopOK, PortOK, MayListen
  <1>4. ConfigOK' /\ LocalOK' /\ ChoiceReachesLive'
    BY DEF ConfigOK, LocalOK, ChoiceReachesLive
  <1> QED BY <1>1, <1>2, <1>3, <1>4

LEMMA OutsideStep ==
  ASSUME Inv, PullLoop \/ FirstDial \/ UNCHANGED vars
  PROVE  Inv'
  <1> USE DEF Inv, TypeOK, PullLoop, FirstDial, SetProxies, vars, shared,
              control, suspension
  <1>1. SharedType' /\ LocalType'
    BY DEF SharedType, LocalType, Lists
  <1>2. LockOK' /\ OpenOK' /\ StopOK' /\ PortOK'
    BY DEF LockOK, OpenOK, StopOK, PortOK, MayListen
  <1>3. ConfigOK' /\ LocalOK' /\ ChoiceReachesLive'
    BY DEF ConfigOK, LocalOK, ChoiceReachesLive
  <1> QED BY <1>1, <1>2, <1>3

-----------------------------------------------------------------------------
(* The invariant holds in every reachable state. *)
THEOREM InvHolds == Spec => []Inv
  <1>1. Init => Inv
    <2>1. Init => TypeOK
      <3>1. Init => SharedType
        <4> SUFFICES ASSUME Init PROVE SharedType
          OBVIOUS
        <4>1. made \in 0 .. MaxSetups /\ applied \in 0 .. made /\ ntp \in 0 .. made
              /\ external \in 0 .. made
          BY DEF Init
        <4>2. checks \in [Gens -> Lists] /\ savedChecks \in [Gens -> Lists]
          BY DEF Init, Lists
        <4>3. wg \in [Gens -> {"new", "up", "down"}] /\ savedWG \subseteq Gens
          BY DEF Init
        <4> QED BY <4>1, <4>2, <4>3 DEF Init, SharedType
      <3>2. Init => LocalType
        BY DEF Init, LocalType, Locations
      <3> QED BY <3>1, <3>2 DEF TypeOK
    <2>2. Init => LockOK /\ ConfigOK /\ OpenOK /\ StopOK
      BY DEF Init, LockOK, ConfigOK, OpenOK, StopOK, Critical, Refreshing,
             Applying
    <2>3. Init => PortOK /\ LocalOK /\ ChoiceReachesLive
      BY DEF Init, PortOK, LocalOK, ChoiceReachesLive
    <2> QED BY <2>1, <2>2, <2>3 DEF Inv
  <1>2. Inv /\ [Next]_vars => Inv'
    <2> SUFFICES ASSUME Inv, [Next]_vars PROVE Inv'
      OBVIOUS
    <2>1. ASSUME NEW t \in Threads, Acquires(t) \/ Steps(t) PROVE Inv'
      BY <2>1, AcquireStep, ListenerStep, SetupStep, OtherStep, SuspendStep
         DEF Steps
    <2>2. ASSUME NEW t \in Callers, Requests(t) PROVE Inv'
      BY <2>2, RequestStep DEF Threads
    <2>3. ASSUME NEW t \in Suspenders, Suspend(t) \/ Resume(t) PROVE Inv'
      BY <2>3, SuspendCall DEF Threads
    <2> QED BY <2>1, <2>2, <2>3, OutsideStep DEF Next
  <1> QED BY <1>1, <1>2, PTL DEF Spec

(* Every variable of the control plane keeps its type: configurations,       *)
(* generations and what the handlers remember stay within what was parsed.   *)
THEOREM HubTypeCorrect == Spec => []TypeOK
  BY InvHolds, PTL DEF Inv

(* Once the core is stopped no setup or update still under way opens its     *)
(* listeners again.                                                          *)
THEOREM StopSticksHolds == Spec => []StopSticks
  <1>1. Inv => StopSticks
    BY DEF Inv, StopOK, StopSticks
  <1> QED BY InvHolds, <1>1, PTL

(* Between two holders of runLock the open listeners are on the port of the  *)
(* configuration in force.                                                   *)
THEOREM ListenersCurrentHolds == Spec => []ListenersCurrent
  <1>1. Inv => ListenersCurrent
    BY DEF Inv, LockOK, PortOK, Critical, ListenersCurrent
  <1> QED BY InvHolds, <1>1, PTL

(* changeProxy changes the groups of the live configuration.                 *)
THEOREM ChoiceHolds == Spec => []ChoiceReachesLive
  BY InvHolds, PTL DEF Inv

-----------------------------------------------------------------------------
(* The generation in currentConfig is the live one, unless its setup has yet *)
(* to hand over the proxies.                                                 *)
Handover == {"applySuspend", "applyProxies"}

LiveOK ==
    /\ \A t \in Threads : pc[t] \notin Handover
    /\ currentConfig # None
    => currentConfig.gen = applied

(* A step that leaves the two alone and takes no thread out of the handover. *)
LEMMA LiveStays ==
  ASSUME LiveOK, UNCHANGED <<currentConfig, applied>>,
         \A t \in Threads : pc[t] \in Handover => pc'[t] \in Handover
  PROVE  LiveOK'
  BY DEF LiveOK

LEMMA SetupLive ==
  ASSUME Inv, LiveOK, NEW t \in Threads, SetupSteps(t)
  PROVE  LiveOK'
  <1> USE DEF Inv, TypeOK, LocalType, Handover, At, Goto, Return, control
  <1>1. CASE ParseFails(t)
    BY <1>1 DEF LiveOK, ParseFails
  <1>2. CASE ParseSucceeds(t)
    BY <1>2 DEF LiveOK, ParseSucceeds
  <1>3. CASE ApplySuspend(t)
    BY <1>3, LiveStays DEF ApplySuspend
  <1>4. CASE ApplyProxies(t)
    BY <1>4 DEF LiveOK, ApplyProxies
  <1>5. CASE ClearChecks(t) \/ ClearWG(t) \/ ReadFails(t)
    BY <1>5, LiveStays DEF ClearChecks, ClearWG, ReadFails
  <1>6. CASE ApplyNTP(t) \/ ApplyInner(t) \/ ApplyRunning(t) \/ SelectGroups(t)
    BY <1>6, LiveStays DEF ApplyNTP, ApplyInner, ApplyRunning, SelectGroups
  <1> QED BY <1>1, <1>2, <1>3, <1>4, <1>5, <1>6 DEF SetupSteps

LEMMA ListenerLive ==
  ASSUME Inv, LiveOK, NEW t \in Threads, Listeners(t)
  PROVE  LiveOK'
  <1> USE DEF Inv, TypeOK, LocalType, Handover, At, Goto, Return, control
  <1>1. CASE UpdateConfig(t)
    <2>1. /\ currentConfig \in Configs /\ currentConfig # None
          /\ currentConfig' = [currentConfig EXCEPT !.port = arg[t]]
      BY <1>1 DEF UpdateConfig, SharedType
    <2>2. currentConfig'.gen = currentConfig.gen
      BY <2>1 DEF Configs
    <2>3. /\ applied' = applied
          /\ \A u \in Threads : pc[u] \in Handover => pc'[u] \in Handover
      BY <1>1 DEF UpdateConfig
    <2> QED BY <2>1, <2>2, <2>3 DEF LiveOK
  <1>2. CASE StartListener(t) \/ StopListener(t) \/ Listen(t) \/ Open(t)
    BY <1>2, LiveStays DEF StartListener, StopListener, Listen, Open
  <1>3. CASE UpdateWithoutConfig(t) \/ Uninit(t)
    BY <1>3, LiveStays DEF UpdateWithoutConfig, Uninit
  <1> QED BY <1>1, <1>2, <1>3 DEF Listeners

LEMMA OtherLive ==
  ASSUME Inv, LiveOK, NEW t \in Threads, Others(t) \/ SuspendSteps(t)
  PROVE  LiveOK'
  <1> USE DEF Inv, TypeOK, LocalType, Handover, At, Goto, Return, Remember,
              shared, control
  <1>1. CASE LookupGroup(t) \/ ChangeFails(t) \/ Select(t)
    BY <1>1, LiveStays DEF LookupGroup, ChangeFails, Select
  <1>2. CASE GetExternalProviders(t) \/ Fetch(t) \/ SideLoadExternalProvider(t)
    BY <1>2, LiveStays DEF GetExternalProviders, Fetch, SideLoadExternalProvider
  <1>3. CASE PauseChecks(t) \/ PauseWG(t) \/ StopNTP(t)
    BY <1>3, LiveStays DEF PauseChecks, PauseWG, StopNTP
  <1>4. CASE ResumeChecks(t) \/ ResumeWG(t)
    BY <1>4, LiveStays DEF ResumeChecks, ResumeWG
  <1>5. CASE ResumeRead(t) \/ ResumeNTP(t)
    BY <1>5, LiveStays DEF ResumeRead, ResumeNTP
  <1> QED BY <1>1, <1>2, <1>3, <1>4, <1>5 DEF Others, SuspendSteps

LEMMA CallLive ==
  ASSUME Inv, LiveOK, NEW t \in Threads,
         Requests(t) \/ Acquires(t) \/ Suspend(t) \/ Resume(t)
  PROVE  LiveOK'
  <1> USE DEF Inv, TypeOK, LocalType, Handover, At, Goto, Call, CallWith,
              Return, Remember, shared, control
  <1>1. CASE CallHandler(t) \/ CallUpdateConfig(t) \/ CallChangeProxy(t)
    BY <1>1, LiveStays DEF CallHandler, CallUpdateConfig, CallChangeProxy
  <1>2. CASE UpdateExternalProvider(t) \/ InitClash(t) \/ Shutdown(t)
    BY <1>2, LiveStays DEF UpdateExternalProvider, InitClash, Shutdown
  <1>3. CASE Acquires(t)
    <2>1. PICK l \in LockSteps : Acquire(t, l[1], l[2])
      BY <1>3 DEF Acquires
    <2> QED BY <2>1, LiveStays DEF Acquire, LockSteps
  <1>4. CASE Suspend(t) \/ Resume(t)
    BY <1>4, LiveStays DEF Suspend, Resume
  <1> QED BY <1>1, <1>2, <1>3, <1>4 DEF Requests

(* Between two holders of runLock the configuration that updates change and  *)
(* listeners follow is the one whose proxies and providers are live.         *)
THEOREM ConfigIsLiveHolds == Spec => []ConfigIsLive
  <1>1. Init => LiveOK
    BY DEF Init, LiveOK
  <1>2. Inv /\ LiveOK /\ [Next]_vars => LiveOK'
    <2> SUFFICES ASSUME Inv, LiveOK, [Next]_vars PROVE LiveOK'
      OBVIOUS
    <2>1. CASE PullLoop \/ FirstDial \/ UNCHANGED vars
      BY <2>1, LiveStays DEF PullLoop, FirstDial, vars, shared, control
    <2>2. ASSUME NEW t \in Threads, Acquires(t) \/ Steps(t) PROVE LiveOK'
      BY <2>2, CallLive, SetupLive, ListenerLive, OtherLive DEF Steps
    <2>3. ASSUME NEW t \in Callers, Requests(t) PROVE LiveOK'
      BY <2>3, CallLive DEF Threads
    <2>4. ASSUME NEW t \in Suspenders, Suspend(t) \/ Resume(t) PROVE LiveOK'
      BY <2>4, CallLive DEF Threads
    <2> QED BY <2>1, <2>2, <2>3, <2>4 DEF Next
  <1>3. Inv /\ LiveOK => ConfigIsLive
    BY DEF Inv, LockOK, LiveOK, ConfigIsLive, Handover, Critical, Refreshing,
           Applying
  <1> QED BY InvHolds, <1>1, <1>2, <1>3, PTL DEF Spec

-----------------------------------------------------------------------------
(* DozeHub: with one suspender a suspension is complete and is undone,       *)
(* whatever setups and fetches it meets; and the module that drives it knows *)
(* what the core does.                                                       *)
(*                                                                           *)
(* DozeHub adds history and a driver to CoreHub, so each of its steps is one *)
(* of CoreHub, and the invariant above holds.  The argument about a          *)
(* suspension follows what it saves: what is gone from the live generation   *)
(* is saved or has been lost to a setup that is under way or has failed      *)
(* (LostOK), everything saved is given back by the resume (RestoredOK), and  *)
(* a setup that ends leaves the tunnel running (QuietOK).                    *)

(* Two suspenders could undo each other's work halfway. *)
SingleSuspender == \A s, u \in Suspenders : s = u

(* The steps of a suspension, of a resume, and of a setup. *)
Pausing == {"pauseChecks", "pauseWG", "stopNTP"}
Resuming == {"resumeChecks", "resumeWG", "resumeLock", "resumeRead", "resumeNTP"}
Renewing == Handover \cup {"applyNTP"}
Reviving == Renewing \cup {"applyInner", "applyRunning"}
Waking == {"applyProxies", "applyNTP", "applyInner", "applyRunning"}
ClearedWG == {"setupLock", "parse"} \cup Handover
Cleared == {"clearWG"} \cup ClearedWG

(* Only suspenders suspend, and what was asked last is what they do. *)
SuspenderOK ==
    /\ \A t \in Suspenders :
          /\ pc[t] \in {"idle"} \cup Pausing \cup Resuming
          /\ pc[t] \in Pausing => asked
          /\ pc[t] \in Resuming => ~asked
    /\ \A t \in Callers : pc[t] \notin Pausing \cup Resuming

(* What is saved is switched off.  A generation that is not live yet was   *)
(* never touched, and the one being handed over has its list of proxies.     *)
SavedOK ==
    /\ \A g \in Gens :
          /\ savedChecks[g] # "nil" => checks[g] # "parsed"
          /\ g \in savedWG => wg[g] = "down"
          /\ g > applied =>
               savedChecks[g] = "nil" /\ g \notin savedWG /\ wg[g] = "new"
    /\ \A t \in Threads : pc[t] \in Handover =>
          currentConfig.gen > applied /\ checks[currentConfig.gen] # "nil"

(* While the tunnel is suspended on request and no setup revives it, the     *)
(* steps that the suspender has done hold.                                   *)
QuietOK ==
    asked /\ status = "suspend" /\ (\A t \in Threads : pc[t] \notin Reviving) =>
        /\ applied # 0 /\ (\A s \in Suspenders : pc[s] # "pauseChecks")
             => checks[applied] # "parsed"
        /\ applied # 0 /\ (\A s \in Suspenders : pc[s] \notin {"pauseChecks", "pauseWG"})
             => wg[applied] # "up" \/ dialled
        /\ (\A s \in Suspenders : pc[s] \notin Pausing) => ntp = 0

(* Nothing stays saved once a resume has passed it. *)
RestoredOK ==
    ~asked =>
        /\ (\A s \in Suspenders : pc[s] # "resumeChecks")
             => \A g \in Gens : savedChecks[g] = "nil"
        /\ (\A s \in Suspenders : pc[s] \notin {"resumeChecks", "resumeWG"})
             => savedWG = {}

(* What the live generation misses is saved, or a setup has cleared it. *)
LostOK ==
    applied # 0 =>
        /\ checks[applied] = "nil" /\ savedChecks[applied] = "nil"
             => failed \/ \E t \in Threads : pc[t] \in Cleared
        /\ wg[applied] = "down" /\ applied \notin savedWG
             => failed \/ \E t \in Threads : pc[t] \in ClearedWG

(* The clock service is off or of the configuration in force, and is on when  *)
(* nobody has suspended it.                                                  *)
ClockOK ==
    /\ ~overlap /\ ~failed /\ currentConfig # None
    /\ \A t \in Threads : pc[t] \notin Renewing
    => /\ ntp \in {0, NTPOf(currentConfig)}
       /\ ~asked /\ (\A s \in Suspenders : pc[s] \notin Resuming)
            => ntp = NTPOf(currentConfig)
       /\ \A s \in Suspenders :
             pc[s] = "resumeNTP" => seen[s] = NTPOf(currentConfig)

(* What the module believes of the core. *)
ModuleOK == ~installed => ~isSuspended /\ ~posted

AgreeOK ==
    driven =>
       /\ isSuspended /\ ~woken /\ (\A t \in Threads : pc[t] # "applyRunning")
            => status = "suspend"
       /\ /\ ~isSuspended \/ ~isInit
          /\ applied # 0
          /\ \A t \in Threads : pc[t] \notin Waking
          => status # "suspend"

NoShutdown == \A t \in Threads : pc[t] # "shutdown"

SleepInv == SuspenderOK /\ SavedOK /\ QuietOK /\ RestoredOK /\ LostOK /\ ClockOK

USE DozeAssumption

-----------------------------------------------------------------------------
(* Every step of DozeHub is one of CoreHub, or leaves it alone. *)
LEMMA DozeStep == DozeNext => [Next]_vars /\ Watch
  <1> SUFFICES ASSUME DozeNext PROVE [Next]_vars
    BY DEF DozeNext
  <1> USE DEF Next
  <1>1. DozeResume \/ DozeSuspend => Next \/ UNCHANGED vars
    BY DEF DozeResume, DozeSuspend
  <1>2. CASE Change \/ install
    BY <1>2 DEF Change, install
  <1>3. CASE uninstall \/ Module
    BY <1>1, <1>3 DEF uninstall, Module, onReceive, suspendRunnable, resume,
       updateSuspendState
  <1>4. CASE CoreStep
    BY <1>4 DEF CoreStep
  <1> QED BY <1>2, <1>3, <1>4 DEF DozeNext

(* DozeHub is a CoreHub: every theorem about the one holds of the other. *)
THEOREM DozeIsHub == DozeSpec => Spec
  <1>1. UNCHANGED dozeVars => UNCHANGED vars
    BY DEF dozeVars
  <1>2. [DozeNext]_dozeVars => [Next]_vars
    BY <1>1, DozeStep
  <1>3. DozeInit => Init
    BY DEF DozeInit
  <1> QED BY <1>2, <1>3, PTL DEF DozeSpec, Spec

(* What Watch records. *)
LEMMA Watched ==
  ASSUME Watch
  PROVE  /\ SetupFails => failed'
         /\ failed /\ applied' = applied => failed'
         /\ failed' => SetupFails \/ failed
         /\ overlap => overlap'
         /\ SettingUp' /\ Suspending' => overlap'
         /\ asked' /\ asked /\ (dialled \/ FirstDial) => dialled'
  BY DEF Watch

-----------------------------------------------------------------------------
(* A calm step leaves what is suspended alone: it takes no caller out of a   *)
(* phase of a setup, and a suspender at most to runLock.                     *)
SameClock ==
    \/ currentConfig' = currentConfig
    \/ /\ currentConfig # None /\ currentConfig' # None
       /\ currentConfig'.gen = currentConfig.gen
       /\ currentConfig'.ntp = currentConfig.ntp

CallersCalm ==
    \A t \in Callers :
        /\ pc'[t] \notin Pausing \cup Resuming
        /\ pc[t] \in Handover <=> pc'[t] \in Handover
        /\ pc[t] \in Renewing => pc'[t] \in Renewing
        /\ pc[t] \in Reviving => pc'[t] \in Reviving
        /\ pc[t] \in ClearedWG => pc'[t] \in ClearedWG
        /\ pc[t] \in Cleared => pc'[t] \in Cleared

SuspendersCalm ==
    \A s \in Suspenders :
        \/ pc'[s] = pc[s] /\ seen'[s] = seen[s]
        \/ pc[s] = "resumeLock" /\ pc'[s] = "resumeRead"

Calm ==
    /\ UNCHANGED <<applied, status, suspension, ntp, asked>>
    /\ SameClock /\ CallersCalm /\ SuspendersCalm

LEMMA CalmKeeps ==
  ASSUME Inv, SleepInv, Calm, Watch
  PROVE  SleepInv'
  <1> USE DEF SleepInv, Calm, suspension, Pausing, Resuming, Handover, Renewing,
              Reviving, ClearedWG, Cleared, Threads
  <1>1. ~SetupFails
    BY DEF SetupFails, CallersCalm
  <1>2. /\ failed => failed'
        /\ failed' => failed
        /\ overlap => overlap'
        /\ asked' /\ asked /\ dialled => dialled'
    BY <1>1, Watched
  <1>3. SuspenderOK'
    BY DEF SuspenderOK, CallersCalm, SuspendersCalm
  <1>4. SavedOK'
    <2>1. \A t \in Threads : pc'[t] \in Handover => pc[t] \in Handover
      BY DEF SuspenderOK, CallersCalm, SuspendersCalm
    <2>2. \A t \in Threads : pc[t] \in Handover => currentConfig'.gen = currentConfig.gen
      BY DEF SameClock
    <2> QED BY <2>1, <2>2 DEF SavedOK
  <1>5. QuietOK' /\ RestoredOK'
    BY <1>2 DEF QuietOK, RestoredOK, SuspenderOK, CallersCalm, SuspendersCalm
  <1>6. LostOK'
    BY <1>2 DEF LostOK, SuspenderOK, CallersCalm, SuspendersCalm
  <1>7. ClockOK'
    <2>1. currentConfig' # None =>
            currentConfig # None /\ NTPOf(currentConfig') = NTPOf(currentConfig)
      BY DEF SameClock, NTPOf
    <2>2. \A t \in Threads : pc[t] \in Renewing => pc'[t] \in Renewing
      BY DEF SuspenderOK, CallersCalm, SuspendersCalm
    <2> QED BY <1>2, <2>1, <2>2 DEF ClockOK, SuspendersCalm
  <1> QED BY <1>3, <1>4, <1>5, <1>6, <1>7

LEMMA RequestsCalm ==
  ASSUME Inv, SleepInv, NEW t \in Callers, Requests(t)
  PROVE  Calm
  <1> USE DEF Inv, TypeOK, LocalType, Calm, SameClock, CallersCalm, SuspendersCalm,
              SleepInv, SuspenderOK, Pausing, Resuming, Handover, Renewing,
                 Reviving,
              ClearedWG, Cleared, Threads, At, Goto, Call, CallWith, Remember,
              Return, shared, services, suspension, control
  <1>1. CASE CallHandler(t)
    BY <1>1 DEF CallHandler, AllEntries
  <1>2. CASE CallUpdateConfig(t) \/ CallChangeProxy(t)
    BY <1>2 DEF CallUpdateConfig, CallChangeProxy
  <1>3. CASE UpdateExternalProvider(t) \/ InitClash(t) \/ Shutdown(t)
    BY <1>3 DEF UpdateExternalProvider, InitClash, Shutdown
  <1> QED BY <1>1, <1>2, <1>3 DEF Requests

LEMMA ListenersCalm ==
  ASSUME Inv, SleepInv, NEW t \in Threads, Listeners(t)
  PROVE  Calm
  <1> USE DEF Inv, TypeOK, LocalType, Calm, SameClock, CallersCalm, SuspendersCalm,
              SleepInv, SuspenderOK, Pausing, Resuming, Handover, Renewing,
                 Reviving,
              ClearedWG, Cleared, Threads, At, Goto, Return, shared, services,
              suspension, control
  <1>1. CASE StartListener(t) \/ StopListener(t) \/ Listen(t) \/ Open(t)
    BY <1>1 DEF StartListener, StopListener, Listen, Open
  <1>2. CASE UpdateConfig(t)
    <2>1. /\ currentConfig' = [currentConfig EXCEPT !.port = arg[t]]
          /\ currentConfig \in Configs /\ currentConfig # None
      BY <1>2 DEF UpdateConfig, SharedType
    <2>2. currentConfig' \in Configs
      BY <1>2, ListenerStepType DEF Listeners, UpdateConfig, SharedType, LocalOK,
         Configs
    <2>3. SameClock
      BY <2>1, <2>2 DEF Configs
    <2> QED BY <1>2, <2>3 DEF UpdateConfig
  <1>3. CASE UpdateWithoutConfig(t) \/ Uninit(t)
    BY <1>3 DEF UpdateWithoutConfig, Uninit
  <1> QED BY <1>1, <1>2, <1>3 DEF Listeners

LEMMA AcquiresCalm ==
  ASSUME Inv, SleepInv, NEW t \in Threads, Acquires(t)
  PROVE  Calm
  <1>1. PICK l \in LockSteps : Acquire(t, l[1], l[2])
    BY DEF Acquires
  <1> QED BY <1>1 DEF Inv, TypeOK, LocalType, Calm, SameClock, CallersCalm,
        SuspendersCalm, SleepInv, SuspenderOK, Pausing, Resuming, Handover,
        Renewing, Reviving, ClearedWG, Cleared, Threads, At, Goto, Acquire, LockSteps,
        suspension

LEMMA OthersCalm ==
  ASSUME Inv, SleepInv, NEW t \in Threads,
         \/ LookupGroup(t) \/ ChangeFails(t) \/ Select(t) \/ GetExternalProviders(t)
         \/ SelectGroups(t)
  PROVE  Calm
  BY DEF Inv, TypeOK, LocalType, Calm, SameClock, CallersCalm,
        SuspendersCalm, SleepInv, SuspenderOK, Pausing, Resuming, Handover,
        Renewing, Reviving, ClearedWG, Cleared, Threads, At, Goto, Remember, Return, shared,
        services, suspension, control, LookupGroup, ChangeFails, Select,
        GetExternalProviders, SelectGroups

(* The steps of a setup. *)
LEMMA SetupSleeps ==
  ASSUME Inv, SleepInv, Watch, NEW t \in Threads,
         \/ ClearChecks(t) \/ ClearWG(t) \/ ReadFails(t) \/ ParseFails(t)
         \/ ParseSucceeds(t) \/ ApplySuspend(t) \/ ApplyProxies(t) \/ ApplyNTP(t)
         \/ ApplyInner(t) \/ ApplyRunning(t)
  PROVE  SleepInv'
  <1> USE DEF Inv, TypeOK, SharedType, LocalType, LockOK, ConfigOK, LocalOK,
              SleepInv, Applying, Refreshing, Critical, Threads, Pausing, Resuming,
              Handover, Renewing, Reviving, ClearedWG, Cleared, At, Goto, Remember, Return,
              control, services, suspension, shared
  <1>0. /\ applied # 0 => applied \in Gens
        /\ currentConfig # None => currentConfig.gen \in Gens
        /\ external # 0 => external \in Gens
        /\ seen[t] # 0 => seen[t] \in Gens
        /\ made \in Nat /\ applied \in Nat /\ applied <= made
    BY DEF Gens
  <1>1. CASE ClearChecks(t)
    <2>w. /\ failed' <=> failed
          /\ overlap => overlap'
          /\ asked' /\ asked /\ dialled => dialled'
      BY <1>1, Watched DEF ClearChecks, SetupFails
    <2>1. SuspenderOK'
      BY <1>1 DEF ClearChecks, SuspenderOK
    <2>2. SavedOK'
      BY <1>1 DEF ClearChecks, SavedOK, SuspenderOK
    <2>3. QuietOK'
      BY <1>1, <2>w DEF ClearChecks, QuietOK, SavedOK, SuspenderOK
    <2>4. RestoredOK'
      BY <1>1, <2>w DEF ClearChecks, RestoredOK
    <2>5. LostOK'
      BY <1>1, <2>w DEF ClearChecks, LostOK
    <2>6. ClockOK'
      BY <1>1, <2>w DEF ClearChecks, ClockOK
    <2> QED BY <2>1, <2>2, <2>3, <2>4, <2>5, <2>6
  <1>2. CASE ClearWG(t)
    <2>w. /\ failed' <=> failed
          /\ overlap => overlap'
          /\ asked' /\ asked /\ dialled => dialled'
      BY <1>2, Watched DEF ClearWG, SetupFails
    <2>1. SuspenderOK'
      BY <1>2 DEF ClearWG, SuspenderOK
    <2>2. SavedOK'
      BY <1>2 DEF ClearWG, SavedOK, SuspenderOK
    <2>3. QuietOK'
      BY <1>2, <2>w DEF ClearWG, QuietOK, SavedOK, SuspenderOK
    <2>4. RestoredOK'
      BY <1>2, <2>w DEF ClearWG, RestoredOK
    <2>5. LostOK'
      BY <1>2, <2>w DEF ClearWG, LostOK
    <2>6. ClockOK'
      BY <1>2, <2>w DEF ClearWG, ClockOK
    <2> QED BY <2>1, <2>2, <2>3, <2>4, <2>5, <2>6
  <1>3. CASE ReadFails(t)
    <2>w. failed' /\ (asked' /\ asked /\ dialled => dialled')
      BY <1>3, Watched DEF ReadFails, SetupFails, SuspenderOK
    <2>1. SuspenderOK'
      BY <1>3 DEF ReadFails, SuspenderOK
    <2>2. SavedOK'
      BY <1>3 DEF ReadFails, SavedOK, SuspenderOK
    <2>3. QuietOK'
      BY <1>3, <2>w DEF ReadFails, QuietOK, SavedOK, SuspenderOK
    <2>4. RestoredOK'
      BY <1>3, <2>w DEF ReadFails, RestoredOK
    <2>5. LostOK'
      BY <1>3, <2>w DEF ReadFails, LostOK
    <2>6. ClockOK'
      BY <1>3, <2>w DEF ReadFails, ClockOK
    <2> QED BY <2>1, <2>2, <2>3, <2>4, <2>5, <2>6
  <1>4. CASE ParseFails(t)
    <2>w. failed' /\ (asked' /\ asked /\ dialled => dialled')
      BY <1>4, Watched DEF ParseFails, SetupFails, SuspenderOK
    <2>1. SuspenderOK'
      BY <1>4 DEF ParseFails, SuspenderOK
    <2>2. SavedOK'
      BY <1>4 DEF ParseFails, SavedOK, SuspenderOK
    <2>3. QuietOK'
      BY <1>4, <2>w DEF ParseFails, QuietOK, SavedOK, SuspenderOK
    <2>4. RestoredOK'
      BY <1>4, <2>w DEF ParseFails, RestoredOK
    <2>5. LostOK'
      BY <1>4, <2>w DEF ParseFails, LostOK
    <2>6. ClockOK'
      BY <1>4, <2>w DEF ParseFails, ClockOK
    <2> QED BY <2>1, <2>2, <2>3, <2>4, <2>5, <2>6
  <1>5. CASE ParseSucceeds(t)
    <2>w. /\ failed' <=> failed
          /\ overlap => overlap'
          /\ asked' /\ asked /\ dialled => dialled'
      BY <1>5, Watched DEF ParseSucceeds, SetupFails
    <2>1. SuspenderOK'
      BY <1>5 DEF ParseSucceeds, SuspenderOK
    <2>2. SavedOK'
      <3>1. made + 1 \in Gens /\ currentConfig'.gen = made + 1
        BY <1>5 DEF ParseSucceeds, Gens
      <3>2. \A u \in Threads : u # t => pc'[u] \notin Handover
        BY <1>5 DEF ParseSucceeds
      <3>3. /\ checks'[made + 1] = "parsed" /\ applied' = applied
            /\ \A g \in Gens : g # made + 1 => checks'[g] = checks[g]
        BY <1>5, <3>1 DEF ParseSucceeds
      <3> QED BY <1>5, <3>1, <3>2, <3>3 DEF ParseSucceeds, SavedOK
    <2>3. QuietOK'
      BY <1>5 DEF ParseSucceeds, QuietOK, SavedOK
    <2>4. RestoredOK'
      BY <1>5 DEF ParseSucceeds, RestoredOK
    <2>5. LostOK'
      BY <1>5 DEF ParseSucceeds, LostOK
    <2>6. ClockOK'
      BY <1>5 DEF ParseSucceeds, ClockOK
    <2> QED BY <2>1, <2>2, <2>3, <2>4, <2>5, <2>6
  <1>6. CASE ApplySuspend(t)
    <2>w. /\ failed' <=> failed
          /\ overlap => overlap'
          /\ asked' /\ asked /\ dialled => dialled'
      BY <1>6, Watched DEF ApplySuspend, SetupFails
    <2>1. SuspenderOK'
      BY <1>6 DEF ApplySuspend, SuspenderOK
    <2>2. SavedOK'
      BY <1>6 DEF ApplySuspend, SavedOK, SuspenderOK
    <2>3. QuietOK'
      BY <1>6 DEF ApplySuspend, QuietOK, SavedOK, SuspenderOK
    <2>4. RestoredOK'
      BY <1>6 DEF ApplySuspend, RestoredOK
    <2>5. LostOK'
      BY <1>6 DEF ApplySuspend, LostOK
    <2>6. ClockOK'
      BY <1>6 DEF ApplySuspend, ClockOK
    <2> QED BY <2>1, <2>2, <2>3, <2>4, <2>5, <2>6
  <1>7. CASE ApplyProxies(t)
    <2>w. applied' > applied
      BY <1>7 DEF ApplyProxies, SavedOK
    <2>1. SuspenderOK'
      BY <1>7 DEF ApplyProxies, SuspenderOK
    <2>2. SavedOK'
      <3>1. \A u \in Threads : pc'[u] \notin Handover
        BY <1>7 DEF ApplyProxies
      <3> QED BY <1>7, <3>1 DEF ApplyProxies, SavedOK, Gens
    <2>3. QuietOK'
      BY <1>7 DEF ApplyProxies, QuietOK, SavedOK
    <2>4. RestoredOK'
      BY <1>7 DEF ApplyProxies, RestoredOK
    <2>5. LostOK'
      BY <1>0, <1>7 DEF ApplyProxies, LostOK, SavedOK
    <2>6. ClockOK'
      BY <1>0, <1>7 DEF ApplyProxies, ClockOK
    <2> QED BY <2>1, <2>2, <2>3, <2>4, <2>5, <2>6
  <1>8. CASE ApplyNTP(t)
    <2>w. /\ failed' <=> failed
          /\ overlap => overlap'
          /\ asked' /\ asked /\ dialled => dialled'
      BY <1>8, Watched DEF ApplyNTP, SetupFails
    <2>1. SuspenderOK'
      BY <1>8 DEF ApplyNTP, SuspenderOK
    <2>2. SavedOK'
      BY <1>8 DEF ApplyNTP, SavedOK, SuspenderOK
    <2>3. QuietOK'
      BY <1>8 DEF ApplyNTP, QuietOK, SavedOK, SuspenderOK
    <2>4. RestoredOK'
      BY <1>8 DEF ApplyNTP, RestoredOK
    <2>5. LostOK'
      BY <1>8, <2>w DEF ApplyNTP, LostOK
    <2>6. ClockOK'
      <3>1. pc'[t] \in Setups
        BY <1>8 DEF ApplyNTP, Setups
      <3>2. (\E s \in Suspenders : pc'[s] = "resumeNTP") => overlap'
        BY <1>8, <3>1, Watched DEF SettingUp, Suspending
      <3> QED BY <1>8, <3>2 DEF ApplyNTP, ClockOK
    <2> QED BY <2>1, <2>2, <2>3, <2>4, <2>5, <2>6
  <1>9. CASE ApplyInner(t)
    <2>w. /\ failed' <=> failed
          /\ overlap => overlap'
          /\ asked' /\ asked /\ dialled => dialled'
      BY <1>9, Watched DEF ApplyInner, SetupFails
    <2>1. SuspenderOK'
      BY <1>9 DEF ApplyInner, SuspenderOK
    <2>2. SavedOK'
      BY <1>9 DEF ApplyInner, SavedOK, SuspenderOK
    <2>3. QuietOK'
      BY <1>9 DEF ApplyInner, QuietOK, SavedOK, SuspenderOK
    <2>4. RestoredOK'
      BY <1>9 DEF ApplyInner, RestoredOK
    <2>5. LostOK'
      BY <1>9, <2>w DEF ApplyInner, LostOK
    <2>6. ClockOK'
      BY <1>9, <2>w DEF ApplyInner, ClockOK
    <2> QED BY <2>1, <2>2, <2>3, <2>4, <2>5, <2>6
  <1>10. CASE ApplyRunning(t)
    <2>w. /\ failed' <=> failed
          /\ overlap => overlap'
          /\ asked' /\ asked /\ dialled => dialled'
      BY <1>10, Watched DEF ApplyRunning, SetupFails
    <2>1. SuspenderOK'
      BY <1>10 DEF ApplyRunning, SuspenderOK
    <2>2. SavedOK'
      BY <1>10 DEF ApplyRunning, SavedOK, SuspenderOK
    <2>3. QuietOK'
      BY <1>10 DEF ApplyRunning, QuietOK, SavedOK, SuspenderOK
    <2>4. RestoredOK'
      BY <1>10 DEF ApplyRunning, RestoredOK
    <2>5. LostOK'
      BY <1>10, <2>w DEF ApplyRunning, LostOK
    <2>6. ClockOK'
      BY <1>10, <2>w DEF ApplyRunning, ClockOK
    <2> QED BY <2>1, <2>2, <2>3, <2>4, <2>5, <2>6
  <1> QED BY <1>1, <1>2, <1>3, <1>4, <1>5, <1>6, <1>7, <1>8, <1>9, <1>10

(* The steps of a suspension and of a resume. *)
LEMMA SuspensionSleeps ==
  ASSUME Inv, SleepInv, Watch, NEW t \in Threads,
         \/ PauseChecks(t) \/ PauseWG(t) \/ StopNTP(t)
         \/ ResumeChecks(t) \/ ResumeWG(t) \/ ResumeRead(t) \/ ResumeNTP(t)
  PROVE  SleepInv'
  <1> USE DEF Inv, TypeOK, SharedType, LocalType, LockOK, ConfigOK, LocalOK,
              SleepInv, Applying, Refreshing, Critical, Threads, Pausing, Resuming,
              Handover, Renewing, Reviving, ClearedWG, Cleared, At, Goto, Remember, Return,
              control, services, suspension, shared
  <1>0. /\ applied # 0 => applied \in Gens
        /\ currentConfig # None => currentConfig.gen \in Gens
        /\ external # 0 => external \in Gens
        /\ seen[t] # 0 => seen[t] \in Gens
        /\ made \in Nat /\ applied \in Nat /\ applied <= made
    BY DEF Gens
  <1>1. CASE PauseChecks(t)
    <2>w. /\ failed' <=> failed
          /\ overlap => overlap'
          /\ asked' /\ asked /\ dialled => dialled'
      BY <1>1, Watched DEF PauseChecks, SetupFails
    <2>1. SuspenderOK'
      BY <1>1 DEF PauseChecks, SuspenderOK, CanPause
    <2>2. SavedOK'
      BY <1>0, <1>1 DEF PauseChecks, SavedOK, SuspenderOK, CanPause
    <2>3. QuietOK'
      BY <1>0, <1>1 DEF PauseChecks, QuietOK, SavedOK, SuspenderOK, CanPause
    <2>4. RestoredOK'
      BY <1>0, <1>1 DEF PauseChecks, RestoredOK, SuspenderOK, CanPause
    <2>5. LostOK'
      BY <1>0, <1>1, <2>w DEF PauseChecks, LostOK, SavedOK, SuspenderOK, CanPause
    <2>6. ClockOK'
      BY <1>1, <2>w DEF PauseChecks, ClockOK, SuspenderOK, CanPause
    <2> QED BY <2>1, <2>2, <2>3, <2>4, <2>5, <2>6
  <1>2. CASE PauseWG(t)
    <2>w. /\ failed' <=> failed
          /\ overlap => overlap'
          /\ asked' /\ asked /\ dialled => dialled'
      BY <1>2, Watched DEF PauseWG, SetupFails
    <2>1. SuspenderOK'
      BY <1>2 DEF PauseWG, SuspenderOK
    <2>2. SavedOK'
      BY <1>2 DEF PauseWG, SavedOK, SuspenderOK
    <2>3. QuietOK'
      BY <1>0, <1>2 DEF PauseWG, QuietOK, SavedOK, SuspenderOK
    <2>4. RestoredOK'
      BY <1>0, <1>2 DEF PauseWG, RestoredOK, SuspenderOK
    <2>5. LostOK'
      BY <1>0, <1>2, <2>w DEF PauseWG, LostOK, SavedOK, SuspenderOK
    <2>6. ClockOK'
      BY <1>2, <2>w DEF PauseWG, ClockOK, SuspenderOK
    <2> QED BY <2>1, <2>2, <2>3, <2>4, <2>5, <2>6
  <1>3. CASE StopNTP(t)
    <2>w. /\ failed' <=> failed
          /\ overlap => overlap'
          /\ asked' /\ asked /\ dialled => dialled'
      BY <1>3, Watched DEF StopNTP, SetupFails
    <2>1. SuspenderOK'
      BY <1>3 DEF StopNTP, SuspenderOK
    <2>2. SavedOK'
      BY <1>3 DEF StopNTP, SavedOK, SuspenderOK
    <2>3. QuietOK'
      BY <1>3, <2>w DEF StopNTP, QuietOK, SavedOK, SuspenderOK
    <2>4. RestoredOK'
      BY <1>3, <2>w DEF StopNTP, RestoredOK
    <2>5. LostOK'
      BY <1>3, <2>w DEF StopNTP, LostOK
    <2>6. ClockOK'
      BY <1>3, <2>w DEF StopNTP, ClockOK, SuspenderOK
    <2> QED BY <2>1, <2>2, <2>3, <2>4, <2>5, <2>6
  <1>4. CASE ResumeChecks(t)
    <2>w. /\ failed' <=> failed
          /\ overlap => overlap'
          /\ asked' /\ asked /\ dialled => dialled'
      BY <1>4, Watched DEF ResumeChecks, SetupFails
    <2>1. SuspenderOK'
      BY <1>4 DEF ResumeChecks, SuspenderOK
    <2>2. SavedOK'
      BY <1>0, <1>4 DEF ResumeChecks, SavedOK, SuspenderOK
    <2>3. QuietOK'
      BY <1>0, <1>4 DEF ResumeChecks, QuietOK, SavedOK, SuspenderOK
    <2>4. RestoredOK'
      BY <1>0, <1>4 DEF ResumeChecks, RestoredOK, SuspenderOK
    <2>5. LostOK'
      BY <1>0, <1>4, <2>w DEF ResumeChecks, LostOK, SuspenderOK
    <2>6. ClockOK'
      BY <1>0, <1>4, <2>w DEF ResumeChecks, ClockOK
    <2> QED BY <2>1, <2>2, <2>3, <2>4, <2>5, <2>6
  <1>5. CASE ResumeWG(t)
    <2>w. /\ failed' <=> failed
          /\ overlap => overlap'
          /\ asked' /\ asked /\ dialled => dialled'
      BY <1>5, Watched DEF ResumeWG, SetupFails
    <2>1. SuspenderOK'
      BY <1>5 DEF ResumeWG, SuspenderOK
    <2>2. SavedOK'
      BY <1>5 DEF ResumeWG, SavedOK, SuspenderOK
    <2>3. QuietOK'
      BY <1>5 DEF ResumeWG, QuietOK, SavedOK, SuspenderOK
    <2>4. RestoredOK'
      BY <1>5 DEF ResumeWG, RestoredOK, SuspenderOK
    <2>5. LostOK'
      BY <1>0, <1>5, <2>w DEF ResumeWG, LostOK, SuspenderOK
    <2>6. ClockOK'
      BY <1>0, <1>5, <2>w DEF ResumeWG, ClockOK
    <2> QED BY <2>1, <2>2, <2>3, <2>4, <2>5, <2>6
  <1>6. CASE ResumeRead(t)
    <2>w. /\ failed' <=> failed
          /\ overlap => overlap'
          /\ asked' /\ asked /\ dialled => dialled'
      BY <1>6, Watched DEF ResumeRead, SetupFails
    <2>1. SuspenderOK'
      BY <1>6 DEF ResumeRead, SuspenderOK
    <2>2. SavedOK'
      BY <1>6 DEF ResumeRead, SavedOK, SuspenderOK
    <2>3. QuietOK'
      BY <1>6 DEF ResumeRead, QuietOK, SavedOK, SuspenderOK
    <2>4. RestoredOK'
      BY <1>6 DEF ResumeRead, RestoredOK
    <2>5. LostOK'
      BY <1>6, <2>w DEF ResumeRead, LostOK
    <2>6. ClockOK'
      BY <1>6, <2>w DEF ResumeRead, ClockOK
    <2> QED BY <2>1, <2>2, <2>3, <2>4, <2>5, <2>6
  <1>7. CASE ResumeNTP(t)
    <2>w. /\ failed' <=> failed
          /\ overlap => overlap'
          /\ asked' /\ asked /\ dialled => dialled'
      BY <1>7, Watched DEF ResumeNTP, SetupFails
    <2>1. SuspenderOK'
      BY <1>7 DEF ResumeNTP, SuspenderOK
    <2>2. SavedOK'
      BY <1>7 DEF ResumeNTP, SavedOK, SuspenderOK
    <2>3. QuietOK'
      BY <1>7 DEF ResumeNTP, QuietOK, SavedOK, SuspenderOK
    <2>4. RestoredOK'
      BY <1>7 DEF ResumeNTP, RestoredOK, SuspenderOK
    <2>5. LostOK'
      BY <1>7, <2>w DEF ResumeNTP, LostOK, SuspenderOK
    <2>6. ClockOK'
      BY <1>7, <2>w DEF ResumeNTP, ClockOK, SuspenderOK
    <2> QED BY <2>1, <2>2, <2>3, <2>4, <2>5, <2>6
  <1> QED BY <1>1, <1>2, <1>3, <1>4, <1>5, <1>6, <1>7

(* A provider is given a newer list, or a device is started. *)
LEMMA LoadSleeps ==
  ASSUME Inv, SleepInv, Watch, NEW t \in Threads,
         Fetch(t) \/ SideLoadExternalProvider(t)
  PROVE  SleepInv'
  <1> USE DEF Inv, TypeOK, SharedType, LocalType, LockOK, ConfigOK, LocalOK,
              SleepInv, Applying, Refreshing, Critical, Threads, Pausing, Resuming,
              Handover, Renewing, Reviving, ClearedWG, Cleared, At, Goto, Remember, Return,
              control, services, suspension, shared
  <1>0. /\ applied # 0 => applied \in Gens
        /\ currentConfig # None => currentConfig.gen \in Gens
        /\ external # 0 => external \in Gens
        /\ seen[t] # 0 => seen[t] \in Gens
        /\ made \in Nat /\ applied \in Nat /\ applied <= made
    BY DEF Gens
  <1>1. CASE Fetch(t)
    <2>w. /\ failed' <=> failed
          /\ overlap => overlap'
          /\ asked' /\ asked /\ dialled => dialled'
      BY <1>1, Watched DEF Fetch, SetupFails
    <2>1. SuspenderOK'
      BY <1>1 DEF Fetch, SuspenderOK, SetProxies
    <2>2. SavedOK'
      BY <1>0, <1>1 DEF Fetch, SavedOK, SuspenderOK, SetProxies
    <2>3. QuietOK'
      BY <1>0, <1>1, <2>w DEF Fetch, QuietOK, SavedOK, SuspenderOK, SetProxies
    <2>4. RestoredOK'
      BY <1>0, <1>1, <2>w DEF Fetch, RestoredOK, SetProxies
    <2>5. LostOK'
      BY <1>0, <1>1, <2>w DEF Fetch, LostOK, SetProxies
    <2>6. ClockOK'
      BY <1>0, <1>1, <2>w DEF Fetch, ClockOK, SetProxies
    <2> QED BY <2>1, <2>2, <2>3, <2>4, <2>5, <2>6
  <1>2. CASE SideLoadExternalProvider(t)
    <2>w. /\ failed' <=> failed
          /\ overlap => overlap'
          /\ asked' /\ asked /\ dialled => dialled'
      BY <1>2, Watched DEF SideLoadExternalProvider, SetupFails
    <2>1. SuspenderOK'
      BY <1>2 DEF SideLoadExternalProvider, SuspenderOK, SetProxies
    <2>2. SavedOK'
      BY <1>2 DEF SideLoadExternalProvider, SavedOK, SuspenderOK, SetProxies
    <2>3. QuietOK'
      BY <1>0, <1>2, <2>w DEF SideLoadExternalProvider, QuietOK, SavedOK,
         SuspenderOK, SetProxies
    <2>4. RestoredOK'
      BY <1>0, <1>2, <2>w DEF SideLoadExternalProvider, RestoredOK, SetProxies
    <2>5. LostOK'
      BY <1>0, <1>2, <2>w DEF SideLoadExternalProvider, LostOK, SetProxies
    <2>6. ClockOK'
      BY <1>0, <1>2, <2>w DEF SideLoadExternalProvider, ClockOK, SetProxies
    <2> QED BY <2>1, <2>2, <2>3, <2>4, <2>5, <2>6
  <1> QED BY <1>1, <1>2

-----------------------------------------------------------------------------
(* What no thread of the hub does, and what a suspender is asked. *)
LEMMA OutsideSleeps ==
  ASSUME Inv, SleepInv, Watch, PullLoop \/ FirstDial
  PROVE  SleepInv'
  <1> USE DEF Inv, TypeOK, SharedType, SleepInv, Threads, Pausing, Resuming,
              Handover, Renewing, Reviving, ClearedWG, Cleared, control, suspension
  <1>0. applied \in Gens /\ UNCHANGED <<pc, seen, applied, currentConfig,
     savedChecks, savedWG, status, ntp, asked>>
    BY DEF Gens, PullLoop, FirstDial
  <1>1. /\ failed' <=> failed
        /\ overlap => overlap'
        /\ asked /\ (dialled \/ FirstDial) => dialled'
    BY <1>0, Watched DEF SetupFails
  <1>2. SuspenderOK' /\ RestoredOK' /\ ClockOK'
    BY <1>0, <1>1 DEF SuspenderOK, RestoredOK, ClockOK
  <1>3. SavedOK'
    <2>1. /\ \A g \in Gens : checks'[g] = checks[g] \/ checks'[g] = "fetched"
          /\ \A g \in Gens : wg'[g] = wg[g] \/ (g = applied /\ wg[g] = "new")
          /\ \A g \in Gens : g > applied => g # applied
      BY <1>0 DEF PullLoop, FirstDial, SetProxies, Gens
    <2>2. \A t \in Threads : pc[t] \in Handover => currentConfig.gen \in Gens
      BY DEF ConfigOK, Applying, Gens
    <2> QED BY <1>0, <2>1, <2>2 DEF SavedOK
  <1>4. QuietOK'
    BY <1>0, <1>1 DEF QuietOK, PullLoop, FirstDial, SetProxies, SavedOK
  <1>5. LostOK'
    BY <1>0, <1>1 DEF LostOK, PullLoop, FirstDial, SetProxies, SavedOK
  <1> QED BY <1>2, <1>3, <1>4, <1>5

LEMMA AskSleeps ==
  ASSUME SingleSuspender, Inv, SleepInv, Watch, NEW t \in Suspenders,
         Suspend(t) \/ Resume(t)
  PROVE  SleepInv'
  <1> USE DEF Inv, TypeOK, SharedType, LocalType, SleepInv, Threads, Pausing,
              Resuming, Handover, Renewing, Reviving, ClearedWG, Cleared, At, Goto, Call,
              control, suspension, Suspend, Resume
  <1>1. /\ failed' <=> failed
        /\ overlap => overlap'
        /\ UNCHANGED <<applied, currentConfig, made, suspension, seen, ntp>>
        /\ asked' <=> Suspend(t)
    BY Watched DEF SetupFails
  <1>2. \A u \in Threads : u # t => pc'[u] = pc[u]
    OBVIOUS
  <1>3. /\ pc[t] = "idle"
        /\ pc'[t] = IF asked' THEN "pauseChecks" ELSE "resumeChecks"
        /\ status' = IF asked' THEN "suspend" ELSE "running"
    BY <1>1
  <1>4. SuspenderOK'
    BY <1>1, <1>2, <1>3 DEF SuspenderOK, SingleSuspender
  <1>5. SavedOK' /\ QuietOK'
    BY <1>1, <1>2, <1>3 DEF SavedOK, QuietOK
  <1>6. RestoredOK' /\ LostOK'
    BY <1>1, <1>2, <1>3 DEF RestoredOK, LostOK
  <1>7. ClockOK'
    BY <1>1, <1>2, <1>3 DEF ClockOK, SingleSuspender
  <1> QED BY <1>4, <1>5, <1>6, <1>7

LEMMA SleepStep ==
  ASSUME SingleSuspender, Inv, SleepInv, [DozeNext]_dozeVars
  PROVE  SleepInv'
  <1>1. CASE UNCHANGED dozeVars
    BY <1>1 DEF dozeVars, vars, shared, suspension, history, SleepInv, SuspenderOK,
       SavedOK, QuietOK, RestoredOK, LostOK, ClockOK
  <1>2. ASSUME DozeNext PROVE SleepInv'
    <2>1. [Next]_vars /\ Watch
      BY <1>2, DozeStep
    <2>2. CASE UNCHANGED vars
      <3>1. Calm
        BY <2>2 DEF Calm, SameClock, CallersCalm, SuspendersCalm, SleepInv,
           SuspenderOK,
           vars, shared, suspension
      <3> QED BY <2>1, <3>1, CalmKeeps
    <2>3. CASE \E t \in Callers : Requests(t)
      BY <2>1, <2>3, RequestsCalm, CalmKeeps
    <2>4. CASE \E t \in Suspenders : Suspend(t) \/ Resume(t)
      BY <2>1, <2>4, AskSleeps
    <2>5. ASSUME NEW t \in Threads, Acquires(t) \/ Steps(t) PROVE SleepInv'
      <3>1. CASE Acquires(t) \/ Listeners(t)
        BY <2>1, <3>1, AcquiresCalm, ListenersCalm, CalmKeeps
      <3>2. CASE SetupSteps(t)
        BY <2>1, <3>2, SetupSleeps, OthersCalm, CalmKeeps DEF SetupSteps
      <3>3. CASE Others(t)
        BY <2>1, <3>3, LoadSleeps, OthersCalm, CalmKeeps DEF Others
      <3>4. CASE SuspendSteps(t)
        BY <2>1, <3>4, SuspensionSleeps DEF SuspendSteps
      <3> QED BY <2>5, <3>1, <3>2, <3>3, <3>4 DEF Steps
    <2>6. CASE PullLoop \/ FirstDial
      BY <2>1, <2>6, OutsideSleeps
    <2> QED BY <2>1, <2>2, <2>3, <2>4, <2>5, <2>6 DEF Next
  <1> QED BY <1>1, <1>2

(* With one suspender the invariant about suspensions holds in every state.  *)
THEOREM SleepHolds == SingleSuspender /\ DozeSpec => [](Inv /\ SleepInv)
  <1> SUFFICES ASSUME SingleSuspender PROVE DozeSpec => [](Inv /\ SleepInv)
    OBVIOUS
  <1>1. DozeInit => SleepInv
    BY DEF DozeInit, Init, SleepInv, SuspenderOK, SavedOK, QuietOK, RestoredOK,
       LostOK,
       ClockOK, Threads, Gens, Pausing, Resuming, Handover, Renewing, Reviving
  <1>2. Inv /\ SleepInv /\ [DozeNext]_dozeVars => SleepInv'
    BY SleepStep
  <1>3. DozeSpec => []Inv
    BY DozeIsHub, InvHolds, PTL
  <1> QED BY <1>1, <1>2, <1>3, PTL DEF DozeSpec

(* A suspension is complete, and so is its end (suspend.go): a core that is  *)
(* suspended on request probes nothing but a list fetched since, keeps no    *)
(* WireGuard device up but one a later connection started and runs no clock  *)
(* service; an awake one has the clock service of its configuration unless a *)
(* setup met the call or failed.                                             *)
THEOREM SuspensionIsWhole == SingleSuspender /\ DozeSpec => []SuspensionHolds
  <1>1. Inv /\ SleepInv => SuspendQuiet
    BY DEF Inv, TypeOK, SharedType, SleepInv, QuietOK, SuspendQuiet, LockOK,
       Suspending,
       Pausing, Reviving, Renewing, Handover, Critical, Refreshing, Applying,
          Threads
  <1>2. Inv /\ SleepInv => WireGuardQuiet
    BY DEF SleepInv, QuietOK, WireGuardQuiet, SettingUp, Setups, Suspending,
       Pausing,
       Reviving, Renewing, Handover, Threads
  <1>3. Inv /\ SleepInv => NTPCurrent
    BY DEF SleepInv, ClockOK, NTPCurrent, SettingUp, Setups, Suspending, Resuming,
       Renewing, Handover, Threads
  <1>4. Inv /\ SleepInv => SuspensionHolds
    BY <1>1, <1>2, <1>3 DEF SuspensionHolds
  <1> QED BY <1>4, SleepHolds, PTL

(* A resume gives back what suspensions took unless a setup has failed since *)
(* (clearSuspendedHealthChecks runs before the file is read).                *)
THEOREM LostOnlyByFailureHolds == SingleSuspender /\ DozeSpec => []LostOnlyByFailure
  <1>1. Inv /\ SleepInv => LostOnlyByFailure
    BY DEF Inv, TypeOK, SharedType, Gens, SleepInv, LostOK, RestoredOK,
       LostOnlyByFailure,
       SettingUp, Setups, Suspending, Cleared, ClearedWG, Handover, Threads
  <1> QED BY <1>1, SleepHolds, PTL

-----------------------------------------------------------------------------
(* The device and the module keep their types, as the core does. *)
THEOREM DozeTypeCorrect == DozeSpec => []DozeTypeOK
  <1>1. DozeInit /\ TypeOK => DozeTypeOK
    <2> SUFFICES ASSUME DozeInit, TypeOK PROVE DozeTypeOK
      OBVIOUS
    <2>1. changes \in 0 .. MaxChanges
      BY DEF DozeInit
    <2>2. broadcasts \in Seq({"on", "other"})
      BY DEF DozeInit
    <2>3. /\ driven \in BOOLEAN /\ screenOn \in BOOLEAN /\ deviceIdle \in BOOLEAN
          /\ installed \in BOOLEAN /\ isSuspended \in BOOLEAN /\ posted \in BOOLEAN
          /\ failed \in BOOLEAN /\ overlap \in BOOLEAN
          /\ woken \in BOOLEAN /\ dialled \in BOOLEAN
      BY Zenon DEF DozeInit
    <2> QED BY <2>1, <2>2, <2>3 DEF DozeTypeOK
  <1>2. DozeTypeOK /\ TypeOK' /\ [DozeNext]_dozeVars => DozeTypeOK'
    <2> SUFFICES ASSUME DozeTypeOK, TypeOK', [DozeNext]_dozeVars PROVE DozeTypeOK'
      OBVIOUS
    <2> USE DEF DozeTypeOK
    <2>1. CASE UNCHANGED dozeVars
      BY <2>1 DEF dozeVars, device, module, history
    <2>2. ASSUME DozeNext PROVE DozeTypeOK'
      <3>1. failed' \in BOOLEAN /\ overlap' \in BOOLEAN /\ woken' \in BOOLEAN
            /\ dialled' \in BOOLEAN /\ driven' \in BOOLEAN
        BY <2>2 DEF DozeNext, Watch
      <3>2. CASE Change
        <4>1. changes' \in 0 .. MaxChanges /\ broadcasts' \in Seq({"on", "other"})
          BY <3>2 DEF Change, Count
        <4>2. UNCHANGED module /\ screenOn' \in BOOLEAN /\ deviceIdle' \in BOOLEAN
          BY <3>2 DEF Change
        <4> QED BY <3>1, <4>1, <4>2 DEF module
      <3>3. CASE install \/ uninstall
        <4>1. changes' \in 0 .. MaxChanges
          BY <3>3 DEF install, uninstall, Count
        <4>b. broadcasts' = broadcasts \/ broadcasts' = <<>>
          BY <3>3 DEF install, uninstall
        <4>e. <<>> \in Seq({"on", "other"})
          OBVIOUS
        <4>s. broadcasts' \in Seq({"on", "other"})
          BY <4>b, <4>e
        <4>2. /\ installed' \in BOOLEAN /\ isSuspended' \in BOOLEAN
              /\ posted' \in BOOLEAN /\ UNCHANGED <<screenOn, deviceIdle>>
          BY <3>3 DEF install, uninstall, resume, shouldSuspend
        <4> QED BY <3>1, <4>1, <4>2, <4>s
      <3>4. CASE Module
        <4>1. changes' = changes /\ broadcasts' \in Seq({"on", "other"})
          BY <3>4 DEF Module, onReceive, suspendRunnable, device
        <4>2. /\ installed' \in BOOLEAN /\ isSuspended' \in BOOLEAN
              /\ posted' \in BOOLEAN /\ UNCHANGED <<screenOn, deviceIdle>>
          BY <3>4 DEF Module, onReceive, suspendRunnable, resume,
             updateSuspendState,
             device
        <4> QED BY <3>1, <4>1, <4>2
      <3>5. CASE UNCHANGED <<device, module>>
        BY <3>1, <3>5 DEF device, module
      <3> QED BY <2>2, <3>2, <3>3, <3>4, <3>5 DEF DozeNext
    <2> QED BY <2>1, <2>2
  <1>3. DozeSpec => []TypeOK
    BY DozeIsHub, HubTypeCorrect, PTL
  <1> QED BY <1>1, <1>2, <1>3, PTL DEF DozeSpec

-----------------------------------------------------------------------------
(* What a step of the core that is no suspension does to the tunnel. *)
Awake ==
    /\ isInit => isInit'
    /\ status = "suspend" =>
         status' = "suspend" \/ SetupWakes \/ \E t \in Threads : pc'[t] = "applyRunning"
    /\ (\E t \in Threads : pc[t] = "applyRunning") =>
         SetupWakes \/ \E t \in Threads : pc'[t] = "applyRunning"
    /\ status # "suspend" =>
         status' # "suspend" \/ \E t \in Threads : pc'[t] \in Waking
    /\ (\E t \in Threads : pc[t] \in Waking) =>
         status' # "suspend" \/ \E t \in Threads : pc'[t] \in Waking
    /\ applied = 0 =>
         applied' = 0 \/ \E t \in Threads : pc'[t] \in Waking

LEMMA StillAwake ==
  ASSUME isInit => isInit', UNCHANGED <<status, applied>>,
         \A t \in Threads : pc[t] \in Waking => pc'[t] = pc[t]
  PROVE  Awake
  BY DEF Awake, Waking

LEMMA SetupAwake ==
  ASSUME Inv, SuspenderOK, NEW t \in Threads, SetupSteps(t)
  PROVE  Awake
  <1> USE DEF Inv, TypeOK, LocalType, At, Goto, Return, control, services, Waking
  <1>1. CASE ClearChecks(t) \/ ClearWG(t) \/ ReadFails(t) \/ ParseFails(t)
             \/ ParseSucceeds(t) \/ SelectGroups(t)
    BY <1>1, StillAwake DEF ClearChecks, ClearWG, ReadFails, ParseFails,
       ParseSucceeds,
       SelectGroups
  <1>2. CASE ApplySuspend(t)
    BY <1>2 DEF ApplySuspend, Awake
  <1>3. CASE ApplyProxies(t)
    BY <1>3 DEF ApplyProxies, Awake
  <1>4. CASE ApplyNTP(t)
    BY <1>4 DEF ApplyNTP, Awake
  <1>5. CASE ApplyInner(t)
    BY <1>5 DEF ApplyInner, Awake
  <1>6. CASE ApplyRunning(t)
    <2>1. SetupWakes
      BY <1>6 DEF ApplyRunning, SetupWakes, SuspenderOK, Pausing, Resuming, Threads
    <2> QED BY <1>6, <2>1 DEF ApplyRunning, Awake
  <1> QED BY <1>1, <1>2, <1>3, <1>4, <1>5, <1>6 DEF SetupSteps

LEMMA CoreAwake ==
  ASSUME Inv, SuspenderOK, NoShutdown, "shutdown" \notin Entries, CoreStep
  PROVE  Awake /\ NoShutdown'
  <1> USE DEF Inv, TypeOK, LocalType, At, Goto, Call, CallWith, Remember, Return,
              shared, suspension, control, services, Waking, NoShutdown, Threads
  <1>1. ASSUME NEW t \in Callers, Requests(t) PROVE Awake /\ NoShutdown'
    BY <1>1, StillAwake DEF Requests, CallHandler, CallUpdateConfig,
       CallChangeProxy,
       UpdateExternalProvider, InitClash, Shutdown
  <1>2. ASSUME NEW t \in Threads, Acquires(t) PROVE Awake /\ NoShutdown'
    BY <1>2, StillAwake DEF Acquires, Acquire, LockSteps
  <1>3. ASSUME NEW t \in Threads, Listeners(t) PROVE Awake /\ NoShutdown'
    BY <1>3, StillAwake DEF Listeners, StartListener, StopListener, Listen, Open,
       UpdateConfig, UpdateWithoutConfig, Uninit
  <1>4. ASSUME NEW t \in Threads, SetupSteps(t) PROVE Awake /\ NoShutdown'
    <2>1. NoShutdown'
      BY <1>4 DEF SetupSteps, ClearChecks, ClearWG, ReadFails, ParseFails,
         ParseSucceeds,
         SelectGroups, ApplySuspend, ApplyProxies, ApplyNTP, ApplyInner,
            ApplyRunning
    <2> QED BY <1>4, <2>1, SetupAwake
  <1>5. ASSUME NEW t \in Threads, Others(t) PROVE Awake /\ NoShutdown'
    BY <1>5, StillAwake DEF Others, LookupGroup, ChangeFails, Select,
       GetExternalProviders,
       Fetch, SideLoadExternalProvider
  <1>6. ASSUME NEW t \in Threads, SuspendSteps(t) PROVE Awake /\ NoShutdown'
    BY <1>6, StillAwake DEF SuspendSteps, PauseChecks, PauseWG, StopNTP,
       ResumeChecks,
       ResumeWG, ResumeRead, ResumeNTP
  <1>7. CASE PullLoop \/ FirstDial
    BY <1>7, StillAwake DEF PullLoop, FirstDial
  <1> QED BY <1>1, <1>2, <1>3, <1>4, <1>5, <1>6, <1>7 DEF CoreStep, Steps

AgreeInv == driven => ModuleOK /\ AgreeOK /\ NoShutdown

LEMMA AgreeStep ==
  ASSUME "shutdown" \notin Entries, DozeTypeOK, Inv, SuspenderOK, AgreeInv,
         [DozeNext]_dozeVars
  PROVE  AgreeInv'
  <1> USE DEF AgreeInv
  <1>1. CASE UNCHANGED dozeVars
    BY <1>1 DEF dozeVars, vars, shared, device, module, history, ModuleOK, AgreeOK,
       NoShutdown
  <1>2. ASSUME DozeNext, driven PROVE AgreeInv'
    <2>1. /\ isSuspended' /\ (woken \/ SetupWakes \/ (~isSuspended /\ ~isInit)) => woken'
          /\ driven' = driven
      BY <1>2 DEF DozeNext, Watch
    <2>2. CASE CoreStep /\ UNCHANGED <<device, module>>
      <3>1. Awake /\ NoShutdown'
        BY <1>2, <2>2, CoreAwake
      <3>2. ModuleOK'
        BY <1>2, <2>2 DEF ModuleOK, device, module
      <3>3. /\ isSuspended' <=> isSuspended
            /\ isSuspended' /\ ~woken' => ~woken /\ ~SetupWakes
        <4>1. isSuspended' = isSuspended
          BY <2>2 DEF module
        <4> QED BY <2>1, <4>1, Zenon
      <3>4. isSuspended' /\ ~woken' /\ (\A t \in Threads : pc'[t] # "applyRunning")
              => status' = "suspend"
        BY <1>2, <3>1, <3>3 DEF AgreeOK, Awake
      <3>5. /\ ~isSuspended' \/ ~isInit'
            /\ applied' # 0
            /\ \A t \in Threads : pc'[t] \notin Waking
            => status' # "suspend"
        BY <1>2, <3>1, <3>3 DEF AgreeOK, Awake
      <3>6. AgreeOK'
        BY <3>4, <3>5 DEF AgreeOK
      <3> QED BY <3>1, <3>2, <3>6
    <2>3. ASSUME UNCHANGED vars, isSuspended' => isSuspended,
                 isSuspended /\ ~isSuspended' => ~isInit \/ ~installed,
                 ModuleOK'
          PROVE  AgreeInv'
      <3>1. isSuspended' /\ ~woken' => isSuspended /\ ~woken
        BY <2>1, <2>3, Zenon
      <3>2. ~isSuspended' \/ ~isInit' => ~isSuspended \/ ~isInit
        BY <1>2, <2>3 DEF ModuleOK, vars, shared
      <3>3. UNCHANGED <<pc, status, applied>>
        BY <2>3 DEF vars, shared
      <3> QED BY <1>2, <2>3, <3>1, <3>2, <3>3 DEF AgreeOK, NoShutdown
    <2>4. CASE Change \/ install
      BY <1>2, <2>3, <2>4 DEF Change, install, module, ModuleOK
    <2>5. CASE resume /\ ModuleOK'
      <3>1. CASE isSuspended /\ isInit
        BY <1>2, <2>5, <3>1 DEF resume, DozeResume, Resume, AgreeOK, NoShutdown,
           Call, At, Goto, Inv, TypeOK, LocalType
      <3>2. CASE ~(isSuspended /\ isInit)
        BY <2>3, <2>5, <3>2 DEF resume, DozeResume, ModuleOK
      <3> QED BY <3>1, <3>2
    <2>6. CASE uninstall
      BY <2>5, <2>6 DEF uninstall, ModuleOK, resume
    <2>7. CASE onReceive
      BY <1>2, <2>3, <2>5, <2>7 DEF onReceive, updateSuspendState, ModuleOK, resume
    <2>8. CASE suspendRunnable
      <3>1. CASE shouldSuspend /\ ~isSuspended
        <4>1. ModuleOK' /\ isSuspended'
          BY <1>2, <2>8, <3>1 DEF suspendRunnable, ModuleOK
        <4>2. CASE isInit
          BY <1>2, <2>8, <3>1, <4>1, <4>2 DEF suspendRunnable, DozeSuspend,
             Suspend, AgreeOK, NoShutdown, Call, At, Goto, Inv, TypeOK, LocalType,
                control
        <4>3. CASE ~isInit
          <5>1. UNCHANGED vars /\ woken'
            BY <2>1, <2>8, <3>1, <4>1, <4>3 DEF suspendRunnable, DozeSuspend
          <5> QED BY <1>2, <3>1, <4>1, <4>3, <5>1 DEF AgreeOK, NoShutdown, vars,
             shared
        <4> QED BY <4>2, <4>3
      <3>2. CASE ~(shouldSuspend /\ ~isSuspended)
        BY <1>2, <2>3, <2>8, <3>2 DEF suspendRunnable, ModuleOK
      <3> QED BY <3>1, <3>2
    <2> QED BY <1>2, <2>2, <2>4, <2>6, <2>7, <2>8 DEF DozeNext, Module
  <1>3. CASE DozeNext /\ ~driven
    BY <1>3 DEF DozeNext, Watch
  <1> QED BY <1>1, <1>2, <1>3

(* A core that nobody shuts down is suspended when the module takes it to be *)
(* and awake otherwise (isSuspended, SuspendModule.kt), setups and calls     *)
(* before the initialisation apart, whatever the order of broadcasts, of the *)
(* delayed runnable and of the life of the module.                           *)
THEOREM ModuleKnows ==
    SingleSuspender /\ "shutdown" \notin Entries /\ DozeSpec => []DozeInv
  <1> SUFFICES ASSUME SingleSuspender, "shutdown" \notin Entries
               PROVE  DozeSpec => []DozeInv
    OBVIOUS
  <1>1. DozeInit => AgreeInv
    BY DEF DozeInit, Init, AgreeInv, ModuleOK, AgreeOK, NoShutdown
  <1>2. DozeTypeOK /\ Inv /\ SleepInv /\ AgreeInv /\ [DozeNext]_dozeVars => AgreeInv'
    BY AgreeStep DEF SleepInv
  <1>3. DozeTypeOK /\ AgreeInv => DozeInv
    BY DEF DozeInv, AgreeInv, AgreeOK, ModuleAgrees, SettingUp, Setups, Waking
  <1> QED BY <1>1, <1>2, <1>3, SleepHolds, DozeTypeCorrect, PTL DEF DozeSpec

=============================================================================
