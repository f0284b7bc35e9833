---------------------------- MODULE Device_proofs ----------------------------
(***************************************************************************)
(* Proofs about the configuration store and the update, over any number of   *)
(* commands, failures, power cuts and update tasks.                          *)
(***************************************************************************)
EXTENDS Device, TLAPS

-----------------------------------------------------------------------------
(* Types *)

MainPlace ==
    {"load", "default_id", "save", "profile", "tasks", "wifi_init", "ssid", "pass", "read_ssid",
     "read_pass", "set_config", "wait", "mark", "up", "stopped"}
CmdPlace == {"idle", "save_provision", "save_setting", "save_reset", "wifi", "set_config"}
TaskPlace == {"none", "start", "begin", "perform", "finish", "reboot"}

StoreType ==
    /\ nvs \in Config /\ s_cfg \in Config /\ in \in Config
    /\ key \in 0..Keys + 1
    /\ failures \in 0..MaxFailures

FlagType ==
    /\ failed \in BOOLEAN /\ unread \in BOOLEAN /\ forced \in BOOLEAN
    /\ refused \in BOOLEAN /\ torn \in BOOLEAN
    /\ mixed \in [OtaTask -> BOOLEAN]
    /\ sem \in BOOLEAN /\ isr \in BOOLEAN

OtaType ==
    /\ image \in [Slot -> Images \union {"partial"}]
    /\ standing \in [Slot -> {"valid", "new", "pending", "aborted"}]
    /\ running \in Slot /\ target \in Slot
    /\ s_state \in {"IDLE", "DOWNLOADING", "VERIFY", "REBOOT", "FAIL"}
    /\ s_url \in Images
    /\ task \in [OtaTask -> TaskPlace]
    /\ quality \in [OtaTask -> Images]

PlaceType == cfg \in Config /\ main \in MainPlace /\ cmd \in CmdPlace

WifiType ==
    /\ s_ssid \in Nat /\ s_pass \in Nat
    /\ wc \in [{"main", "cmd"} -> [ssid: Nat, pass: Nat]]
    /\ driver \in [ssid: Nat, pass: Nat]
    /\ \A p \in given : p \in [ssid: Nat, pass: Nat]

CountType ==
    /\ commands \in 0..MaxCommands /\ provisions \in 0..MaxProvisions /\ cuts \in 0..MaxCuts

LEMMA TypeParts == TypeOK <=> StoreType /\ FlagType /\ OtaType /\ PlaceType /\ WifiType /\ CountType
  BY DEF TypeOK, StoreType, FlagType, OtaType, PlaceType, WifiType, CountType, MainPlace,
         CmdPlace, TaskPlace

LEMMA PairType == ASSUME NEW c \in Config PROVE Pair(c) \in [ssid: Nat, pass: Nat]
  BY DEF Config, Pair, Key

LEMMA DefaultsType == Defaults \in Config /\ NoPair \in [ssid: Nat, pass: Nat]
  BY DEF Config, Defaults, NoPair, Pair, Key

LEMMA TypeInit == Init => TypeOK
  <1> SUFFICES ASSUME Init PROVE TypeOK
    OBVIOUS
  <1>1. StoreType
    BY MaxFailuresAssumption, DefaultsType DEF Init, StoreInit, StoreType, Keys
  <1>2. OtaType
    BY DEF Init, OtaInit, OtaType, Slot, Images, TaskPlace
  <1>3. PlaceType /\ WifiType
    BY DefaultsType DEF Init, PlaceType, WifiType, MainPlace, CmdPlace
  <1>4. FlagType
    BY DEF Init, StoreInit, OtaInit, FlagType
  <1>5. CountType
    BY MaxCommandsAssumption, MaxProvisionsAssumption, MaxCutsAssumption DEF Init, CountType
  <1> QED
    BY <1>1, <1>2, <1>3, <1>4, <1>5, TypeParts

(* Each step of the store keeps its types. *)
LEMMA StoreSteps ==
    ASSUME StoreType, SaveOpens \/ SaveRefused \/ SaveKey \/ SaveEnds
    PROVE  StoreType'
  <1>1. CASE SaveOpens \/ SaveRefused \/ SaveEnds
    BY <1>1, MaxFailuresAssumption DEF StoreType, SaveOpens, SaveRefused, SaveEnds, Keys
  <1>2. CASE SaveKey
    <2>1. nvs' \in Config
      BY <1>2 DEF StoreType, SaveKey, Config
    <2>2. key' \in 0..Keys + 1 /\ failures' \in 0..MaxFailures /\ UNCHANGED <<s_cfg, in>>
      BY <1>2, MaxFailuresAssumption DEF StoreType, SaveKey, Keys
    <2> QED
      BY <2>1, <2>2 DEF StoreType
  <1> QED
    BY <1>1, <1>2

LEMMA LoadType ==
    ASSUME StoreType, NEW c, Load(c)
    PROVE  c \in Config /\ failures' \in 0..MaxFailures
  BY MaxFailuresAssumption DEF StoreType, Load

(* The flags are flags. *)
LEMMA FlagSteps ==
    ASSUME FlagType, [Next]_vars
    PROVE  FlagType'
  <1>1. failed' \in BOOLEAN
    BY DEF FlagType, Next, MainStep, CmdStep, CmdGoesOn, OtaStepOf, PowerCut, Crash, OtaReboot,
           Reset,
           MainLoad, MainDefaultId, MainSave, MainProfile, MainTasks, MainStops, MainWifiInit,
           MainSsid, MainPass,
           MainReadSsid, MainReadPass, MainSetConfig, MainWait, MainMark, CmdProvision, CmdSetting,
           CmdFactoryReset, CmdSave, CmdWifi, CmdSetConfig, CmdOta, CmdMarkValid,
           SaveOpens, SaveRefused, SaveKey, SaveEnds, storeVars, vars
  <1>2. unread' \in BOOLEAN
    BY DEF FlagType, Next, MainStep, CmdStep, CmdGoesOn, OtaStepOf, PowerCut, Crash, OtaReboot,
           Reset,
           MainLoad, MainDefaultId, MainSave, MainProfile, MainTasks, MainStops, MainWifiInit,
           MainSsid, MainPass,
           MainReadSsid, MainReadPass, MainSetConfig, MainWait, MainMark, CmdProvision, CmdSetting,
           CmdFactoryReset, CmdSave, CmdWifi, CmdSetConfig, CmdOta, CmdMarkValid,
           SaveOpens, SaveRefused, SaveKey, SaveEnds, Load, storeVars, vars
  <1>3. forced' \in BOOLEAN
    BY DEF FlagType, Next, MainStep, CmdStep, CmdGoesOn, OtaStepOf, PowerCut, Crash, OtaReboot,
           Reset,
           MainLoad, MainDefaultId, MainSave, MainProfile, MainTasks, MainStops, MainWifiInit,
           MainSsid, MainPass,
           MainReadSsid, MainReadPass, MainSetConfig, MainWait, MainMark, CmdProvision, CmdSetting,
           CmdFactoryReset, CmdSave, CmdWifi, CmdSetConfig, CmdOta, CmdMarkValid, MainGoto,
           Taken, OtaReset, BootLoader, OtaStep, OtaDownloading, OtaBegin, OtaPerform, OtaFinish,
           OtaFails, OtaStart, otaVars, vars
  <1>4. refused' \in BOOLEAN
    BY DEF FlagType, Next, MainStep, CmdStep, CmdGoesOn, OtaStepOf, PowerCut, Crash, OtaReboot,
           Reset,
           MainLoad, MainDefaultId, MainSave, MainProfile, MainTasks, MainStops, MainWifiInit,
           MainSsid, MainPass,
           MainReadSsid, MainReadPass, MainSetConfig, MainWait, MainMark, CmdProvision, CmdSetting,
           CmdFactoryReset, CmdSave, CmdWifi, CmdSetConfig, CmdOta, CmdMarkValid, Taken,
           SetConfig, wifiVars, vars
  <1>5. torn' \in BOOLEAN
    BY DEF FlagType, Next, MainStep, CmdStep, CmdGoesOn, OtaStepOf, PowerCut, Crash, OtaReboot,
           Reset,
           MainLoad, MainDefaultId, MainSave, MainProfile, MainTasks, MainStops, MainWifiInit,
           MainSsid, MainPass,
           MainReadSsid, MainReadPass, MainSetConfig, MainWait, MainMark, CmdProvision, CmdSetting,
           CmdFactoryReset, CmdSave, CmdWifi, CmdSetConfig, CmdOta, CmdMarkValid, MainGoto,
           Taken, countVars, vars
  <1>6. mixed' \in [OtaTask -> BOOLEAN]
    BY DEF FlagType, Next, MainStep, CmdStep, CmdGoesOn, OtaStepOf, PowerCut, Crash, OtaReboot,
           Reset,
           MainLoad, MainDefaultId, MainSave, MainProfile, MainTasks, MainStops, MainWifiInit,
           MainSsid, MainPass,
           MainReadSsid, MainReadPass, MainSetConfig, MainWait, MainMark, CmdProvision, CmdSetting,
           CmdFactoryReset, CmdSave, CmdWifi, CmdSetConfig, CmdOta, CmdMarkValid, MainGoto,
           OtaReset, OtaStep, OtaDownloading, OtaBegin, OtaPerform, OtaFinish, Overwrite,
           OtaFails, OtaStart, otaVars, vars
  <1>7. sem' \in BOOLEAN
    BY DEF FlagType, Next, MainStep, CmdStep, CmdGoesOn, OtaStepOf, PowerCut, Crash, OtaReboot,
           Reset,
           MainLoad, MainDefaultId, MainSave, MainProfile, MainTasks, MainStops, MainWifiInit,
           MainSsid,
           MainPass, MainReadSsid, MainReadPass, MainSetConfig, MainWait, MainMark, CmdProvision,
           CmdSetting, CmdFactoryReset, CmdSave, CmdWifi, CmdSetConfig, CmdOta, CmdMarkValid,
           Taken, pulseVars, vars
  <1>8. isr' \in BOOLEAN
    BY DEF FlagType, Next, MainStep, CmdStep, CmdGoesOn, OtaStepOf, PowerCut, Crash, OtaReboot,
           Reset,
           MainLoad, MainDefaultId, MainSave, MainProfile, MainTasks, MainStops, MainWifiInit,
           MainSsid,
           MainPass, MainReadSsid, MainReadPass, MainSetConfig, MainWait, MainMark, CmdProvision,
           CmdSetting, CmdFactoryReset, CmdSave, CmdWifi, CmdSetConfig, CmdOta, CmdMarkValid,
           Taken, pulseVars, vars
  <1> QED
    BY <1>1, <1>2, <1>3, <1>4, <1>5, <1>6, <1>7, <1>8 DEF FlagType

LEMMA OtaSteps ==
    ASSUME OtaType
    PROVE  /\ \A t \in OtaTask : OtaStep(t) => OtaType'
           /\ \A url \in Images : OtaStart(url) => OtaType'
           /\ OtaReset => OtaType'
  <1>1. ASSUME NEW t \in OtaTask, OtaDownloading(t) \/ OtaFails(t)
        PROVE  OtaType'
    BY <1>1 DEF OtaType, OtaDownloading, OtaFails, OtaGoto, TaskPlace
  <1>2. ASSUME NEW t \in OtaTask, OtaBegin(t)
        PROVE  OtaType'
    BY <1>1, <1>2 DEF OtaType, OtaBegin, Overwrite, OtaGoto, TaskPlace, Other, Slot
  <1>3. ASSUME NEW t \in OtaTask, OtaPerform(t)
        PROVE  OtaType'
    BY <1>1, <1>3 DEF OtaType, OtaPerform, OtaGoto, TaskPlace, Other, Slot
  <1>4. ASSUME NEW t \in OtaTask, OtaFinish(t)
        PROVE  OtaType'
    BY <1>1, <1>4 DEF OtaType, OtaFinish, OtaGoto, TaskPlace, Other, Slot
  <1>5. ASSUME NEW url \in Images, OtaStart(url)
        PROVE  OtaType'
    BY <1>5 DEF OtaType, OtaStart, TaskPlace
  <1>6. ASSUME OtaReset
        PROVE  OtaType'
    BY <1>6 DEF OtaType, OtaReset, BootLoader, TaskPlace, Slot, Images
  <1> QED
    BY <1>1, <1>2, <1>3, <1>4, <1>5, <1>6 DEF OtaStep

(* What a step of each kind leaves alone. *)
LEMMA MainLeaves ==
    ASSUME MainStep
    PROVE  /\ UNCHANGED <<cmd, commands, provisions, cuts, torn, image, target, running, forced, task>>
           /\ MainMark \/ UNCHANGED otaVars
  BY DEF MainStep, MainLoad, MainDefaultId, MainSave, MainProfile, MainTasks, MainStops,
         MainWifiInit, MainSsid, MainPass,
         MainReadSsid, MainReadPass, MainSetConfig, MainWait, MainMark, MainGoto, countVars, otaVars

LEMMA CmdLeaves ==
    ASSUME CmdStep
    PROVE  UNCHANGED <<main, cfg, cuts, torn>>
  BY DEF CmdStep, CmdGoesOn, CmdProvision, CmdSetting, CmdFactoryReset, CmdSave, CmdWifi,
         CmdSetConfig, CmdOta, CmdMarkValid, Taken, countVars

LEMMA StoreTypeKept ==
    ASSUME TypeOK, [Next]_vars
    PROVE  StoreType'
  <1> USE TypeParts
  <1>1. CASE UNCHANGED storeVars
    BY <1>1 DEF storeVars, StoreType
  <1>2. CASE MainLoad
    <2>1. UNCHANGED <<in, key>> /\ nvs' \in Config
      BY <1>2, DefaultsType DEF MainLoad, StoreType
    <2>2. s_cfg' \in Config /\ failures' \in 0..MaxFailures
      BY <1>2, DefaultsType, LoadType DEF MainLoad, StoreType
    <2> QED
      BY <2>1, <2>2 DEF StoreType
  <1>3. CASE MainDefaultId
    <2>1. in' \in Config
      BY <1>3 DEF MainDefaultId, StoreType, PlaceType, Config, Key
    <2> QED
      BY <1>3, <2>1 DEF MainDefaultId, StoreType
  <1>4. CASE MainSave \/ CmdSave
    BY <1>4, StoreSteps DEF MainSave, CmdSave
  <1>5. CASE CmdProvision
    <2>1. s_cfg' \in Config /\ failures' \in 0..MaxFailures /\ provisions' \in Nat
      BY <1>5, LoadType DEF CmdProvision, CountType
    <2>2. in' \in Config
      BY <1>5, <2>1 DEF CmdProvision, Provisioned, Config
    <2> QED
      BY <1>5, <2>1, <2>2 DEF CmdProvision, StoreType
  <1>6. CASE CmdSetting
    <2>1. s_cfg' \in Config /\ failures' \in 0..MaxFailures
      BY <1>6, LoadType DEF CmdSetting
    <2>2. PICK k \in {"sample_ms", "cloud"}, v \in 0..1 : in' = [s_cfg' EXCEPT ![k] = v]
      BY <1>6 DEF CmdSetting
    <2>3. v \in Nat
      OBVIOUS
    <2>4. in' \in Config
      BY <2>1, <2>2, <2>3 DEF Config
    <2> QED
      BY <1>6, <2>1, <2>4 DEF CmdSetting, StoreType
  <1>7. CASE CmdFactoryReset
    BY <1>7, DefaultsType DEF CmdFactoryReset, StoreType
  <1>8. CASE Reset
    <2>1. UNCHANGED <<nvs, failures>> /\ s_cfg' = Defaults /\ in' = Defaults /\ key' = 0
      BY <1>8 DEF Reset
    <2> QED
      BY <2>1, DefaultsType DEF StoreType, Keys
  <1> QED
    BY <1>1, <1>2, <1>3, <1>4, <1>5, <1>6, <1>7, <1>8
    DEF Next, MainStep, CmdStep, CmdGoesOn, OtaStepOf, PowerCut, Crash, OtaReboot, MainProfile,
        MainTasks, MainStops,
        MainWifiInit, MainSsid, MainPass, MainReadSsid, MainReadPass, MainSetConfig, MainWait,
        MainMark, CmdWifi, CmdSetConfig, CmdOta, CmdMarkValid, vars

LEMMA OtaTypeKept ==
    ASSUME TypeOK, [Next]_vars
    PROVE  OtaType'
  <1> USE TypeParts
  <1>1. CASE UNCHANGED otaVars
    BY <1>1 DEF otaVars, OtaType
  <1>2. CASE MarkValid /\ UNCHANGED <<image, running, target, s_state, s_url, task, quality>>
    BY <1>2 DEF MarkValid, OtaType
  <1>3. CASE OtaReset \/ (\E t \in OtaTask : OtaStep(t)) \/ (\E url \in Images : OtaStart(url))
    BY <1>3, OtaSteps
  <1> QED
    BY <1>1, <1>2, <1>3, MainLeaves
    DEF Next, CmdStep, CmdGoesOn, OtaStepOf, PowerCut, Crash, OtaReboot, Reset, MainMark,
        CmdProvision,
        CmdSetting, CmdFactoryReset, CmdSave, CmdWifi, CmdSetConfig, CmdOta, CmdMarkValid, vars

LEMMA PlaceTypeKept ==
    ASSUME TypeOK, [Next]_vars
    PROVE  PlaceType'
  <1> USE TypeParts
  <1>1. main' \in MainPlace
    BY DEF PlaceType, MainPlace, Next, MainStep, CmdStep, CmdGoesOn, OtaStepOf, PowerCut, Crash,
           OtaReboot, Reset, MainLoad, MainDefaultId, MainSave, MainProfile, MainTasks,
           MainStops, MainWifiInit, MainSsid,
           MainPass, MainReadSsid, MainReadPass, MainSetConfig, MainWait, MainMark, CmdProvision,
           CmdSetting, CmdFactoryReset, CmdSave, CmdWifi, CmdSetConfig, CmdOta, CmdMarkValid,
           MainGoto, Taken, vars
  <1>2. cmd' \in CmdPlace
    BY DEF PlaceType, CmdPlace, Next, MainStep, CmdStep, CmdGoesOn, OtaStepOf, PowerCut, Crash,
           OtaReboot, Reset, MainLoad, MainDefaultId, MainSave, MainProfile, MainTasks,
           MainStops, MainWifiInit, MainSsid,
           MainPass, MainReadSsid, MainReadPass, MainSetConfig, MainWait, MainMark, CmdProvision,
           CmdSetting, CmdFactoryReset, CmdSave, CmdWifi, CmdSetConfig, CmdOta, CmdMarkValid,
           MainGoto, Saving, vars
  <1>3. MainLoad \/ MainDefaultId \/ Reset \/ cfg' = cfg
    BY DEF Next, MainStep, CmdStep, CmdGoesOn, OtaStepOf, PowerCut, Crash, OtaReboot,
           MainSave, MainProfile, MainTasks, MainStops, MainWifiInit, MainSsid,
           MainPass, MainReadSsid, MainReadPass, MainSetConfig, MainWait, MainMark, CmdProvision,
           CmdSetting, CmdFactoryReset, CmdSave, CmdWifi, CmdSetConfig, CmdOta, CmdMarkValid,
           Taken, vars
  <1>4. CASE MainLoad
    BY <1>1, <1>2, <1>4, StoreTypeKept DEF MainLoad, StoreType, PlaceType
  <1>5. CASE MainDefaultId
    <2>1. cfg' \in Config
      BY <1>5 DEF MainDefaultId, PlaceType, Config, Key
    <2> QED
      BY <1>1, <1>2, <2>1 DEF PlaceType
  <1>6. CASE Reset
    BY <1>1, <1>2, <1>6, DefaultsType DEF Reset, PlaceType
  <1> QED
    BY <1>1, <1>2, <1>3, <1>4, <1>5, <1>6 DEF PlaceType

LEMMA WifiTypeKept ==
    ASSUME TypeOK, [Next]_vars
    PROVE  WifiType'
  <1> USE TypeParts
  <1>1. CASE UNCHANGED <<s_ssid, s_pass, wc, driver, given>>
    BY <1>1 DEF WifiType
  <1>2. CASE MainWifiInit
    <2>1. Pair(cfg) \in [ssid: Nat, pass: Nat]
      BY PairType DEF PlaceType
    <2> QED
      BY <1>2, <2>1 DEF MainWifiInit, WifiType
  <1>3. CASE MainSsid \/ MainPass
    BY <1>3 DEF MainSsid, MainPass, WifiType, PlaceType, Config, Key
  <1>4. CASE MainReadSsid
    BY <1>4 DEF MainReadSsid, WifiType
  <1>5. CASE MainReadPass
    BY <1>5 DEF MainReadPass, WifiType
  <1>6. CASE MainSetConfig \/ CmdSetConfig
    BY <1>6 DEF MainSetConfig, CmdSetConfig, SetConfig, WifiType
  <1>7. CASE CmdWifi
    <2>1. Pair(in) \in [ssid: Nat, pass: Nat]
      BY PairType DEF StoreType
    <2>2. in["wifi_ssid"] \in Nat /\ in["wifi_pass"] \in Nat
      BY DEF StoreType, Config, Key
    <2> QED
      BY <1>7, <2>1, <2>2 DEF CmdWifi, WifiType
  <1>8. CASE Reset
    BY <1>8, DefaultsType DEF Reset, WifiType
  <1> QED
    BY <1>1, <1>2, <1>3, <1>4, <1>5, <1>6, <1>7, <1>8
    DEF Next, MainStep, CmdStep, CmdGoesOn, OtaStepOf, PowerCut, Crash, OtaReboot, MainLoad,
        MainDefaultId, MainSave, MainProfile, MainTasks, MainStops, MainWait, MainMark,
        CmdProvision, CmdSetting,
        CmdFactoryReset, CmdSave, CmdOta, CmdMarkValid, Taken, wifiVars, vars

LEMMA CountTypeKept ==
    ASSUME TypeOK, [Next]_vars
    PROVE  CountType'
  <1> USE TypeParts
  <1>1. CASE UNCHANGED <<commands, provisions, cuts>>
    BY <1>1 DEF CountType
  <1>2. CASE Taken
    <2>1. provisions' = provisions \/ (provisions < MaxProvisions /\ provisions' = provisions + 1)
          \/ UNCHANGED vars
      BY <1>2, MainLeaves
      DEF Taken, Next, CmdStep, CmdGoesOn, OtaStepOf, PowerCut, Crash, OtaReboot, Reset,
          CmdProvision, CmdSetting, CmdFactoryReset, CmdSave, CmdWifi, CmdSetConfig, CmdOta,
          CmdMarkValid, countVars
    <2> QED
      BY <1>2, <2>1, MaxCommandsAssumption, MaxProvisionsAssumption DEF Taken, CountType, vars,
         countVars
  <1>3. CASE PowerCut
    <2>1. cuts' = cuts + 1 /\ cuts < MaxCuts /\ UNCHANGED <<commands, provisions>>
      BY <1>3 DEF PowerCut, Reset
    <2> QED
      BY <2>1, MaxCutsAssumption DEF CountType
  <1> QED
    BY <1>1, <1>2, <1>3, MainLeaves
    DEF Next, CmdStep, CmdGoesOn, OtaStepOf, Crash, OtaReboot, Reset, CmdProvision, CmdSetting,
        CmdFactoryReset, CmdSave, CmdWifi, CmdSetConfig, CmdOta, CmdMarkValid, countVars, vars

LEMMA TypeKept == TypeOK /\ [Next]_vars => TypeOK'
  <1> SUFFICES ASSUME TypeOK, [Next]_vars PROVE TypeOK'
    OBVIOUS
  <1>1. FlagType'
    BY TypeParts, FlagSteps
  <1>2. TypeOK' <=> StoreType' /\ FlagType' /\ OtaType' /\ PlaceType' /\ WifiType' /\ CountType'
    BY TypeParts, PTL
  <1> QED
    BY <1>1, <1>2, StoreTypeKept, OtaTypeKept, PlaceTypeKept, WifiTypeKept, CountTypeKept

(* The configuration stays a configuration, the two slots and the tasks stay *)
(* in their states, and a save never runs past its last key, whatever fails  *)
(* and whenever the power does.                                              *)
THEOREM TypeCorrect == Spec => []TypeOK
  BY TypeInit, TypeKept, PTL DEF Spec

-----------------------------------------------------------------------------
(* The two slots *)

(* While an image is on trial nobody writes the other slot, which is the one *)
(* to go back to; a slot that is not the running one is tried first only     *)
(* when a whole image was put there.                                         *)
TrialInv ==
    standing[running] = "pending" =>
        /\ image[Other] # "partial" /\ standing[Other] = "valid" /\ target = running
        /\ \A t \in OtaTask : task[t] \notin {"perform", "finish", "reboot"}
        /\ ~forced => image[Other] = "good"

SlotInv ==
    /\ standing[running] \in {"valid", "pending"}
    /\ image[running] # "partial"
    /\ TrialInv
    /\ ~forced /\ standing[running] = "valid" => image[running] = "good"
    /\ target # running => standing[target] = "new"

LEMMA SlotInit == Init => SlotInv
  BY DEF Init, OtaInit, SlotInv, TrialInv, Slot, Other

LEMMA SlotKept ==
    ASSUME TypeOK, SlotInv, [Next]_vars
    PROVE  SlotInv'
  <1>1. OtaType
    BY TypeParts
  <1>2. Other \in Slot /\ Other # running /\ \A s \in Slot : s = running \/ s = Other
    BY <1>1 DEF OtaType, Other, Slot
  <1>3. CASE UNCHANGED otaVars
    BY <1>3 DEF otaVars, SlotInv, TrialInv, Other
  <1>4. ASSUME NEW t \in OtaTask, OtaDownloading(t) \/ (OtaFails(t))
        PROVE  SlotInv'
    BY <1>1, <1>4 DEF OtaDownloading, OtaFails, OtaGoto, OtaType, SlotInv, TrialInv, Other
  <1>5. ASSUME NEW t \in OtaTask, OtaBegin(t)
        PROVE  SlotInv'
    BY <1>1, <1>2, <1>4, <1>5 DEF OtaBegin, Overwrite, OtaGoto, OtaType, SlotInv, TrialInv, Other
  <1>6. ASSUME NEW t \in OtaTask, OtaPerform(t)
        PROVE  SlotInv'
    BY <1>1, <1>2, <1>4, <1>6 DEF OtaPerform, OtaGoto, OtaType, SlotInv, TrialInv, Other
  <1>7. ASSUME NEW t \in OtaTask, OtaFinish(t)
        PROVE  SlotInv'
    BY <1>1, <1>2, <1>4, <1>7 DEF OtaFinish, OtaGoto, OtaType, SlotInv, TrialInv, Other
  <1>8. ASSUME NEW url \in Images, OtaStart(url)
        PROVE  SlotInv'
    BY <1>1, <1>8 DEF OtaStart, OtaType, SlotInv, TrialInv, Other
  <1>9. CASE MainMark
    BY <1>1, <1>2, <1>9 DEF MainMark, MarkValid, OtaType, SlotInv, TrialInv, Other
  <1>10. CASE CmdMarkValid
    BY <1>1, <1>2, <1>10 DEF CmdMarkValid, MarkValid, OtaType, SlotInv, TrialInv, Other
  <1>11. CASE OtaReset
    <2>1. PICK slot \in Slot :
             /\ slot = IF standing[target] = "pending" \/ image[target] = "partial"
                       THEN 1 - target ELSE target
             /\ running' = slot /\ target' = slot
             /\ standing' = [s \in Slot |->
                               IF s # slot /\ standing[s] = "pending" THEN "aborted"
                               ELSE IF s = slot /\ standing[s] = "new" THEN "pending"
                               ELSE standing[s]]
      BY <1>1, <1>11 DEF OtaReset, BootLoader, OtaType, Slot
    <2>2. UNCHANGED <<image, forced>> /\ task' = [t \in OtaTask |-> "none"]
      BY <1>11 DEF OtaReset, BootLoader
    <2>3. Other' \in Slot /\ Other' # slot /\ \A s \in Slot : s = slot \/ s = Other'
      BY <2>1 DEF Other, Slot
    <2>4. CASE slot = running
      <3>1. Other' = Other
        BY <1>2, <2>3, <2>4
      <3>2. standing[running] # "pending"
        BY <1>1, <1>2, <2>1, <2>4 DEF SlotInv, TrialInv, OtaType, Slot
      <3> QED
        BY <1>1, <1>2, <2>1, <2>2, <2>4, <3>1, <3>2 DEF SlotInv, TrialInv, OtaType
    <2>5. CASE slot = Other
      <3>1. Other' = running
        BY <1>1, <1>2, <2>3, <2>5 DEF OtaType
      <3>2. CASE standing[running] = "pending"
        BY <1>1, <1>2, <2>1, <2>2, <2>5, <3>1, <3>2 DEF SlotInv, TrialInv, OtaType
      <3>3. CASE standing[running] = "valid"
        <4>1. target = Other /\ standing[Other] = "new" /\ image[Other] # "partial"
          BY <1>1, <1>2, <2>1, <2>5, <3>3 DEF SlotInv, OtaType, Slot, Other
        <4> QED
          BY <1>1, <1>2, <2>1, <2>2, <2>5, <3>1, <3>3, <4>1 DEF SlotInv, TrialInv, OtaType
      <3> QED
        BY <3>2, <3>3 DEF SlotInv
    <2> QED
      BY <1>2, <2>4, <2>5
  <1> QED
    BY <1>3, <1>4, <1>5, <1>6, <1>7, <1>8, <1>9, <1>10, <1>11, MainLeaves
    DEF Next, CmdStep, CmdGoesOn, OtaStepOf, OtaStep, PowerCut, Crash, OtaReboot, Reset,
        CmdProvision,
        CmdSetting, CmdFactoryReset, CmdSave, CmdWifi, CmdSetConfig, CmdOta, vars

(* However updates overlap, fail and are cut off, the device keeps an image  *)
(* to run: iot_ota_start lets several tasks write the slot that does not     *)
(* run, and app_main confirms what gets through it.                          *)
THEOREM AlwaysRecoverable == Spec => []Recoverable
  <1>1. SlotInv => Recoverable
    BY DEF SlotInv, TrialInv, Recoverable
  <1> QED
    BY <1>1, TypeCorrect, SlotInit, SlotKept, PTL DEF Spec

-----------------------------------------------------------------------------
(* The store *)

(* What a command that is no provisioning and no reset leaves as it was. *)
Kept == Key \ {"device_id", "sample_ms", "cloud"}

Early == {"load", "default_id", "save", "profile", "tasks", "stopped"}
Unloaded == {"load", "stopped"}      \* the copy may not be that of NVS yet
Starting == {"ssid", "pass", "read_ssid", "read_pass", "set_config", "wait"}

(* Who is where: one task saves at a time, since commands are taken only    *)
(* when app_main has saved.                                                  *)
Order ==
    /\ main \in Early => cmd = "idle" /\ driver = NoPair
    /\ key > 0 => main = "save" \/ Saving
    /\ main = "load" => s_cfg = Defaults
    /\ main = "default_id" => cfg = s_cfg
    /\ main \in Starting => cfg["provisioned"] # 0

(* What is in the record that is saved, or was. *)
Record ==
    /\ cmd = "save_provision" => in["wifi_ssid"] = in["wifi_pass"]
    /\ cmd = "save_reset" => in = Defaults
    /\ cmd \in {"wifi", "set_config"} => in = s_cfg
    /\ cmd = "set_config" => wc["cmd"] = Pair(in)
    /\ main = "save" \/ cmd = "save_setting" => \A k \in Kept : in[k] = s_cfg[k]

(* Without a failure the keys that were passed have their new value, *)
Written == ~failed => \A k \in Key : Place[k] < key => nvs[k] = in[k]

(* and those to come have the old one, if the copy was that of NVS at all.  *)
Sync == \A k \in Key : nvs[k] = IF Place[k] < key THEN in[k] ELSE s_cfg[k]

Known == ~unread \/ cfg["provisioned"] # 0 \/ driver # NoPair \/ cmd \in {"wifi", "set_config"}

Synced == ~failed /\ main \notin Unloaded /\ Known => Sync

StoreInv == Order /\ Record /\ Written /\ Synced

LEMMA PlaceIs ==
    /\ \A k \in Key : Place[k] \in 1..Keys
    /\ \A j, k \in Key : Place[j] = Place[k] => j = k
    /\ Place["wifi_ssid"] = 2 /\ Place["wifi_pass"] = 3 /\ Place["provisioned"] = 8
    /\ "wifi_ssid" \in Kept /\ "wifi_pass" \in Kept /\ "provisioned" \in Kept
    /\ Kept \subseteq Key
  BY DEF Place, Key, Keys, Kept

LEMMA StoreInvInit == Init => StoreInv
  BY PlaceIs DEF Init, StoreInit, StoreInv, Order, Record, Written, Synced, Early, Starting,
     Saving, Unloaded

(* The steps of a save, to the eyes of Written and Sync. *)
LEMMA SavedKey ==
    ASSUME TypeOK, SaveKey, ~failed'
    PROVE  /\ Written => Written'
           /\ Sync => Sync'
           /\ ~failed /\ key > 0 /\ key' > 0
  <1>1. PICK k \in Key : Place[k] = key /\ nvs' = [nvs EXCEPT ![k] = in[k]] /\ failed' = failed
    BY DEF SaveKey
  <1>2. key' = key + 1 /\ key \in Nat /\ key > 0 /\ UNCHANGED <<s_cfg, in>>
    BY TypeParts DEF SaveKey, StoreType, Keys
  <1>3. \A j \in Key : Place[j] \in Nat /\ (Place[j] < key' <=> Place[j] < key \/ j = k)
    BY <1>1, <1>2, PlaceIs DEF Keys
  <1>4. \A j \in Key : nvs'[j] = IF j = k THEN in[k] ELSE nvs[j]
    BY <1>1, TypeParts DEF StoreType, Config
  <1>5. Written => Written'
    BY <1>1, <1>2, <1>3, <1>4 DEF Written
  <1>6. Sync => Sync'
    BY <1>1, <1>2, <1>3, <1>4 DEF Sync
  <1> QED
    BY <1>1, <1>2, <1>5, <1>6

(* When nothing is being saved the copy is what is stored. *)
LEMMA SyncClosed ==
    ASSUME TypeOK, key = 0
    PROVE  Sync <=> nvs = s_cfg
  <1>1. \A k \in Key : ~(Place[k] < key)
    BY PlaceIs DEF Keys
  <1>2. nvs \in Config /\ s_cfg \in Config
    BY TypeParts DEF StoreType
  <1> QED
    BY <1>1, <1>2 DEF Sync, Config

LEMMA SaveEnded ==
    ASSUME TypeOK, Written, SaveEnds, ~failed'
    PROVE  nvs' = in' /\ s_cfg' = in' /\ in' = in /\ nvs' = nvs
  <1>1. \A k \in Key : Place[k] < key
    BY PlaceIs DEF SaveEnds, Keys
  <1>2. ~failed /\ s_cfg' = in /\ UNCHANGED <<nvs, in>>
    BY DEF SaveEnds
  <1>3. nvs = in
    BY <1>1, <1>2, TypeParts DEF Written, StoreType, Config
  <1> QED
    BY <1>2, <1>3

(* A load leaves the copy that of NVS, if it was. *)
LEMMA Loaded ==
    ASSUME NEW c, Load(c)
    PROVE  /\ nvs = s_cfg => c = nvs
           /\ ~unread' => c = nvs /\ ~unread
           /\ c = nvs \/ c = s_cfg
  <1>1. CASE c = nvs /\ UNCHANGED unread
    BY <1>1
  <1>2. CASE c = s_cfg /\ unread' = (unread \/ nvs # s_cfg)
    BY <1>2
  <1> QED
    BY <1>1, <1>2 DEF Load

(* The last two conjuncts, when nothing is being saved after the step. *)
LEMMA ClosedIs ==
    ASSUME TypeOK', key' = 0, ~failed' /\ main' \notin Unloaded /\ Known' => nvs' = s_cfg'
    PROVE  Written' /\ Synced'
  <1>1. \A k \in Key : ~(Place[k] < key')
    BY PlaceIs DEF Keys
  <1>2. Written'
    BY <1>1 DEF Written
  <1>3. nvs' = s_cfg' => Sync'
    BY <1>1 DEF Sync
  <1> QED
    BY <1>2, <1>3 DEF Synced

(* A step that changes nothing of the store. *)
LEMMA StoreSame ==
    ASSUME StoreInv, UNCHANGED storeVars, main \notin Unloaded, Known' => Known
    PROVE  Written' /\ Synced'
  <1>1. (Written' <=> Written) /\ (Sync' <=> Sync) /\ (failed' <=> failed)
    BY DEF storeVars, Written, Sync
  <1> QED
    BY <1>1 DEF StoreInv, Synced

LEMMA SaveEndsIsNoSaveKey == SaveEnds => ~SaveOpens /\ ~SaveKey /\ ~SaveRefused
  BY DEF SaveEnds, SaveOpens, SaveKey, SaveRefused, Keys

(* One step of a save, by whichever task. *)
LEMMA SaveSteps ==
    ASSUME TypeOK, TypeOK', StoreInv, SaveOpens \/ SaveKey \/ SaveEnds \/ SaveRefused,
           UNCHANGED <<cfg, driver>>, cmd \notin {"wifi", "set_config"}, main \notin Unloaded,
           cmd' \in {"wifi", "set_config"} => SaveEnds
    PROVE  Written' /\ Synced'
  <1>1. key \in Nat /\ \A k \in Key : Place[k] \in Nat /\ Place[k] >= 1
    BY TypeParts, PlaceIs DEF StoreType
  <1>2. CASE SaveKey
    <2>1. CASE failed'
      BY <2>1 DEF Written, Synced
    <2>2. CASE ~failed'
      <3>1. Written' /\ (Sync => Sync') /\ ~failed
        BY <1>2, <2>2, SavedKey DEF StoreInv
      <3>2. Known' => Known
        BY <1>2, SaveEndsIsNoSaveKey DEF SaveKey, Known
      <3> QED
        BY <3>1, <3>2 DEF StoreInv, Synced
    <2> QED
      BY <2>1, <2>2
  <1>3. CASE SaveOpens \/ SaveRefused
    <2>1. UNCHANGED <<nvs, s_cfg, in, failed, unread>> /\ ~SaveEnds
          /\ key = 0 /\ (key' = 0 \/ key' = 1)
      BY <1>3, SaveEndsIsNoSaveKey DEF SaveOpens, SaveRefused
    <2>2. \A k \in Key : ~(Place[k] < key) /\ ~(Place[k] < key')
      BY <1>1, <2>1
    <2>3. Written' /\ (Sync' <=> Sync)
      BY <2>1, <2>2 DEF Written, Sync
    <2>4. Known' => Known
      BY <2>1 DEF Known
    <2> QED
      BY <2>1, <2>3, <2>4 DEF StoreInv, Synced
  <1>4. CASE SaveEnds
    <2>1. key' = 0
      BY <1>4 DEF SaveEnds
    <2>2. ~failed' => nvs' = s_cfg'
      BY <1>4, SaveEnded DEF StoreInv
    <2> QED
      BY <2>1, <2>2, ClosedIs
  <1> QED
    BY <1>2, <1>3, <1>4

LEMMA StoreInvKept ==
    ASSUME TypeOK, TypeOK', StoreInv, [Next]_vars
    PROVE  StoreInv'
  <1>2. /\ key \in Nat
        /\ main \notin {"save"} /\ ~Saving => key = 0
    BY TypeParts DEF StoreType, StoreInv, Order
  <1>3. CASE MainLoad
    <2>1. key' = 0 /\ main' = "default_id" /\ cmd' = "idle" /\ driver' = NoPair /\ cfg' = s_cfg'
          /\ UNCHANGED <<failed, in, wc>>
      BY <1>2, <1>3 DEF MainLoad, MainGoto, StoreInv, Order, Early, Saving, wifiVars
    <2>2. Order' /\ Record'
      BY <2>1 DEF Order, Record, Early, Starting, Saving
    <2>3. Known' => nvs' = s_cfg'
      <3>1. CASE nvs' = Defaults /\ s_cfg' = Defaults
        BY <3>1
      <3>2. CASE Load(s_cfg') /\ nvs' = nvs
        <4>1. s_cfg' = nvs \/ (s_cfg' = s_cfg /\ s_cfg = Defaults)
          BY <1>3, <3>2, Loaded DEF MainLoad, StoreInv, Order
        <4>2. s_cfg' = nvs \/ cfg'["provisioned"] = 0
          BY <2>1, <4>1 DEF Defaults, Key
        <4>3. ~unread' => s_cfg' = nvs
          BY <3>2, Loaded
        <4> QED
          BY <2>1, <3>2, <4>2, <4>3 DEF Known
      <3> QED
        BY <1>3, <3>1, <3>2 DEF MainLoad
    <2> QED
      BY <2>1, <2>2, <2>3, ClosedIs DEF StoreInv
  <1>4. CASE MainDefaultId
    <2>1. key' = 0 /\ key = 0 /\ main' \in {"profile", "save"} /\ cmd' = "idle" /\ cmd = "idle"
          /\ cfg = s_cfg
          /\ driver' = NoPair /\ driver = NoPair /\ UNCHANGED <<nvs, s_cfg, failed, unread, wc>>
      BY <1>2, <1>4 DEF MainDefaultId, MainGoto, StoreInv, Order, Early, Saving, wifiVars
    <2>2. cfg'["provisioned"] = cfg["provisioned"] /\ \A k \in Kept : cfg'[k] = cfg[k]
      BY <1>4, TypeParts DEF MainDefaultId, PlaceType, Config, Kept, Key
    <2>3. main' = "save" => in' = cfg'
      BY <1>4 DEF MainDefaultId, MainGoto
    <2>4. Order' /\ Record'
      BY <2>1, <2>2, <2>3 DEF Order, Record, Early, Starting, Saving
    <2>5. ~failed' /\ Known' => nvs' = s_cfg'
      BY <1>4, <2>1, <2>2, SyncClosed DEF Known, StoreInv, Synced, MainDefaultId, Unloaded
    <2> QED
      BY <2>1, <2>4, <2>5, ClosedIs DEF StoreInv
  <1>5. CASE MainSave
    <2>1. /\ SaveOpens \/ SaveKey \/ SaveEnds \/ SaveRefused
          /\ main = "save" /\ (main' = "save" \/ (main' = "profile" /\ key' = 0))
          /\ UNCHANGED <<cfg, cmd, driver, wc>> /\ cmd = "idle" /\ driver = NoPair
      BY <1>5 DEF MainSave, SaveEnds, SaveRefused, StoreInv, Order, Early, wifiVars
    <2>2. in' = in /\ (main' = "save" => s_cfg' = s_cfg)
      BY <1>5 DEF MainSave, SaveOpens, SaveKey, SaveEnds, SaveRefused
    <2>3. Order' /\ Record'
      BY <2>1, <2>2 DEF StoreInv, Order, Record, Early, Starting, Saving
    <2> QED
      BY <2>1, <2>3, SaveSteps DEF StoreInv, Unloaded
  <1>6. CASE CmdProvision \/ CmdSetting
    <2>1. /\ Load(s_cfg') /\ UNCHANGED <<nvs, key, failed, main, cfg, driver, wc>>
          /\ main \notin Early /\ cmd = "idle" /\ key = 0
          /\ cmd' \in {"save_provision", "save_setting"}
      BY <1>2, <1>6 DEF CmdProvision, CmdSetting, Taken, Serving, Early, Saving, wifiVars
    <2>2. cmd' = "save_provision" => in'["wifi_ssid"] = in'["wifi_pass"]
      BY <1>6 DEF CmdProvision, CmdSetting, Provisioned, Key
    <2>3. cmd' = "save_setting" => \A k \in Kept : in'[k] = s_cfg'[k]
      <3>1. s_cfg' \in Config
        BY DEF TypeOK
      <3>2. cmd' = "save_setting" =>
              \E k \in {"sample_ms", "cloud"}, v \in 0..1 : in' = [s_cfg' EXCEPT ![k] = v]
        BY <1>6 DEF CmdProvision, CmdSetting
      <3> QED
        BY <3>1, <3>2 DEF Kept, Config
    <2>4. Order' /\ Record'
      BY <2>1, <2>2, <2>3 DEF StoreInv, Order, Record, Early, Starting, Saving
    <2>5. ~failed' /\ Known' => nvs' = s_cfg'
      <3>1. CASE ~unread'
        BY <2>1, <3>1, Loaded
      <3>2. CASE Known
        BY <2>1, <3>2, Loaded, SyncClosed DEF StoreInv, Synced, Early, Unloaded
      <3> QED
        BY <2>1, <3>1, <3>2 DEF Known
    <2> QED
      BY <2>1, <2>4, <2>5, ClosedIs DEF StoreInv
  <1>7. CASE CmdFactoryReset
    <2>1. /\ UNCHANGED <<nvs, s_cfg, key, failed, unread, main, cfg, driver, wc>>
          /\ main \notin Early /\ cmd = "idle" /\ key = 0 /\ cmd' = "save_reset" /\ in' = Defaults
      BY <1>2, <1>7 DEF CmdFactoryReset, Taken, Serving, Early, Saving, wifiVars
    <2>2. Order' /\ Record'
      BY <2>1 DEF StoreInv, Order, Record, Early, Starting, Saving
    <2>3. ~failed' /\ Known' => nvs' = s_cfg'
      BY <2>1, SyncClosed DEF StoreInv, Synced, Known, Early, Unloaded
    <2> QED
      BY <2>1, <2>2, <2>3, ClosedIs DEF StoreInv
  <1>8. CASE CmdSave
    <2>1. /\ SaveOpens \/ SaveKey \/ SaveEnds \/ SaveRefused
          /\ Saving /\ UNCHANGED <<cfg, main, driver, wc>>
          /\ cmd' = cmd \/ (key' = 0 /\ cmd' = "idle") \/ (SaveEnds /\ key' = 0 /\ cmd' = "wifi")
      BY <1>2, <1>8 DEF CmdSave, SaveEnds, SaveRefused, wifiVars
    <2>2. main \notin Early
      BY <2>1 DEF StoreInv, Order, Saving
    <2>3. in' = in /\ (cmd' = cmd => s_cfg' = s_cfg) /\ (cmd' = "wifi" => s_cfg' = in)
      BY <1>8, <2>1 DEF CmdSave, SaveOpens, SaveKey, SaveEnds, SaveRefused, Saving
    <2>4. Order' /\ Record'
      BY <2>1, <2>2, <2>3 DEF StoreInv, Order, Record, Early, Starting, Saving
    <2> QED
      BY <2>1, <2>2, <2>4, SaveSteps DEF StoreInv, Saving, Early, Unloaded
  <1>9. CASE CmdWifi
    <2>1. /\ cmd = "wifi" /\ cmd' = "set_config" /\ wc'["cmd"] = Pair(in)
          /\ UNCHANGED storeVars /\ UNCHANGED <<main, cfg, driver>>
      BY <1>9, TypeParts DEF CmdWifi, WifiType
    <2>2. Pair(in)' = Pair(in)
      BY <2>1 DEF Pair, storeVars
    <2>3. Order' /\ Record'
      BY <2>1, <2>2 DEF StoreInv, Order, Record, Early, Starting, Saving, storeVars
    <2>4. main \notin Unloaded
      BY <2>1 DEF StoreInv, Order, Early, Unloaded
    <2> QED
      BY <2>1, <2>3, <2>4, StoreSame DEF StoreInv, Known, Unloaded
  <1>10. CASE CmdSetConfig
    <2>1. /\ cmd = "set_config" /\ cmd' = "idle" /\ UNCHANGED storeVars /\ UNCHANGED <<main, cfg, wc>>
      BY <1>10 DEF CmdSetConfig
    <2>2. main \notin Early
      BY <2>1 DEF StoreInv, Order
    <2>3. Order' /\ Record'
      BY <2>1, <2>2 DEF StoreInv, Order, Record, Early, Starting, Saving, storeVars
    <2> QED
      BY <2>1, <2>2, <2>3, StoreSame DEF StoreInv, Known, Early, Unloaded
  <1>11. CASE MainSetConfig
    <2>1. /\ main = "set_config" /\ main' = "wait" /\ UNCHANGED storeVars /\ UNCHANGED <<cmd, cfg, wc>>
      BY <1>11 DEF MainSetConfig, MainGoto
    <2>2. cfg["provisioned"] # 0
      BY <2>1 DEF StoreInv, Order, Starting
    <2>3. Order' /\ Record'
      BY <2>1, <2>2 DEF StoreInv, Order, Record, Early, Starting, Saving, storeVars
    <2> QED
      BY <2>1, <2>2, <2>3, StoreSame DEF StoreInv, Known, Unloaded
  <1>12. CASE Reset
    <2>1. /\ main' = "load" /\ cmd' = "idle" /\ driver' = NoPair /\ key' = 0 /\ s_cfg' = Defaults
      BY <1>12 DEF Reset
    <2>2. Order' /\ Record'
      BY <2>1 DEF Order, Record, Early, Starting, Saving
    <2> QED
      BY <2>1, <2>2, ClosedIs DEF StoreInv, Unloaded
  <1>13. CASE MainTasks \/ MainWifiInit \/ MainSsid \/ MainPass \/ MainReadSsid \/ MainReadPass
              \/ MainWait \/ MainMark
    <2>1. /\ UNCHANGED storeVars /\ UNCHANGED <<cmd, cfg, driver>>
          /\ main \notin {"load", "default_id", "save", "stopped"} /\ main' \notin Early
          /\ main' \in Starting => cfg["provisioned"] # 0
          /\ unread' = unread
      BY <1>13 DEF MainProfile, MainTasks, MainWifiInit, MainSsid, MainPass, MainReadSsid,
         MainReadPass, MainWait,
                   MainMark, MainGoto, wifiVars, storeVars, Early, Starting, StoreInv, Order
    <2>2. wc'["cmd"] = wc["cmd"]
      BY <1>13, TypeParts
      DEF MainProfile, MainTasks, MainWifiInit, MainSsid, MainPass, MainReadSsid, MainReadPass,
          MainWait, MainMark,
          wifiVars, WifiType
    <2>3. Order' /\ Record'
      BY <2>1, <2>2 DEF StoreInv, Order, Record, Early, Starting, Saving, storeVars
    <2> QED
      BY <2>1, <2>3, StoreSame DEF StoreInv, Known, Early, Unloaded
  <1>14. CASE MainStops \/ MainProfile
    <2>1. /\ main \in {"load", "profile", "tasks"} /\ main' \in {"stopped", "tasks"}
          /\ main' = "tasks" => main = "profile"
          /\ UNCHANGED storeVars /\ UNCHANGED <<cmd, cfg, driver, wc>>
      BY <1>14 DEF MainStops, MainProfile, MainGoto, wifiVars
    <2>2. Order' /\ Record'
      BY <2>1 DEF StoreInv, Order, Record, Early, Starting, Saving, storeVars
    <2>3. Written' /\ Synced'
      BY <2>1 DEF StoreInv, Written, Synced, Sync, Known, Unloaded, storeVars
    <2> QED
      BY <2>2, <2>3 DEF StoreInv
  <1>15. CASE UNCHANGED storeVars /\ UNCHANGED <<cfg, cmd, wc, driver, main>>
    <2>1. Order' /\ Record'
      BY <1>15 DEF StoreInv, Order, Record, Early, Starting, Saving, storeVars
    <2>2. Written' /\ Synced'
      BY <1>15 DEF StoreInv, Written, Synced, Sync, Known, storeVars
    <2> QED
      BY <2>1, <2>2 DEF StoreInv
  <1> QED
    BY <1>3, <1>4, <1>5, <1>6, <1>7, <1>8, <1>9, <1>10, <1>11, <1>12, <1>13, <1>14, <1>15
    DEF Next, MainStep, CmdStep, CmdGoesOn, OtaStepOf, PowerCut, Crash, OtaReboot, CmdOta,
        CmdMarkValid,
        Taken, wifiVars, vars

LEMMA AlwaysStored == Spec => [](TypeOK /\ StoreInv)
  <1>1. TypeOK /\ StoreInv /\ [Next]_vars => (TypeOK /\ StoreInv)'
    BY TypeKept, StoreInvKept
  <1> QED
    BY <1>1, TypeInit, StoreInvInit, PTL DEF Spec

(* iot_config_get and NVS agree between two saves, over resets in the middle *)
(* of a save as well, as long as no nvs_set and no load fails.               *)
THEOREM CacheStored == Spec => []CacheIsStored
  <1>1. TypeOK /\ StoreInv => CacheIsStored
    BY SyncClosed DEF StoreInv, Synced, Known, Unloaded, CacheIsStored
  <1> QED
    BY <1>1, AlwaysStored, PTL

(* What was read is what is saved: where the boot, or a setting, saves a     *)
(* record, the credentials of the copy are the stored ones, also after each *)
(* key and whichever of them fail, unless NVS was not read.                  *)
Keeping == main \in {"default_id", "save"} \/ cmd = "save_setting"

ReadInv == Keeping => unread \/ Pair(s_cfg) = Pair(nvs)

LEMMA KeepingSaves ==
    ASSUME TypeOK, StoreInv, SaveKey, main = "save" \/ cmd = "save_setting",
           Pair(s_cfg) = Pair(nvs)
    PROVE  Pair(nvs') = Pair(nvs)
  <1>1. \A k \in {"wifi_ssid", "wifi_pass"} : in[k] = s_cfg[k] /\ s_cfg[k] = nvs[k]
    <2>1. in["wifi_ssid"] = s_cfg["wifi_ssid"] /\ in["wifi_pass"] = s_cfg["wifi_pass"]
      BY PlaceIs DEF StoreInv, Record
    <2>2. s_cfg["wifi_ssid"] = nvs["wifi_ssid"] /\ s_cfg["wifi_pass"] = nvs["wifi_pass"]
      BY DEF Pair
    <2> QED
      BY <2>1, <2>2
  <1>2. nvs' = nvs \/ \E k \in Key : nvs' = [nvs EXCEPT ![k] = in[k]]
    BY DEF SaveKey
  <1>3. \A k \in {"wifi_ssid", "wifi_pass"} : nvs'[k] = nvs[k]
    <2>1. nvs \in Config
      BY TypeParts DEF StoreType
    <2>2. CASE nvs' = nvs
      BY <2>2
    <2>3. ASSUME NEW k \in Key, nvs' = [nvs EXCEPT ![k] = in[k]]
          PROVE  \A j \in {"wifi_ssid", "wifi_pass"} : nvs'[j] = nvs[j]
      <3>1. \A j \in Key : nvs'[j] = IF j = k THEN in[k] ELSE nvs[j]
        BY <2>1, <2>3 DEF Config
      <3> QED
        BY <1>1, <3>1 DEF Key
    <2> QED
      BY <1>2, <2>2, <2>3
  <1> QED
    BY <1>3 DEF Pair

LEMMA ReadInvKept ==
    ASSUME TypeOK, StoreInv, ReadInv, [Next]_vars
    PROVE  ReadInv'
  <1>1. main \in {"default_id", "save"} => cmd = "idle"
    BY DEF StoreInv, Order, Early
  <1>2. CASE MainLoad
    <2>1. CASE Load(s_cfg') /\ UNCHANGED <<nvs, failed>>
      BY <2>1, Loaded DEF ReadInv
    <2>2. CASE nvs' = Defaults /\ s_cfg' = Defaults
      BY <2>2 DEF ReadInv
    <2> QED
      BY <1>2, <2>1, <2>2 DEF MainLoad
  <1>3. CASE MainDefaultId
    BY <1>3 DEF MainDefaultId, ReadInv, Keeping
  <1>4. CASE CmdSetting
    BY <1>4, Loaded DEF CmdSetting, ReadInv
  <1>5. CASE (MainSave \/ CmdSave) /\ SaveKey
    <2>1. /\ UNCHANGED <<s_cfg, unread>> /\ main' = main /\ cmd' = cmd
          /\ main = "save" \/ Saving
      BY <1>5, SaveEndsIsNoSaveKey DEF MainSave, CmdSave, SaveKey, SaveRefused, Keys
    <2>2. Keeping => main = "save" \/ cmd = "save_setting"
      BY <1>1, <2>1 DEF Keeping, Saving
    <2>3. (Keeping' <=> Keeping) /\ Pair(s_cfg)' = Pair(s_cfg)
      BY <2>1 DEF Keeping, Pair
    <2> QED
      BY <1>5, <2>1, <2>2, <2>3, KeepingSaves DEF ReadInv, Pair
  <1>6. CASE (MainSave \/ CmdSave) /\ ~SaveKey
    <2>1. /\ UNCHANGED <<nvs, unread>>
          /\ UNCHANGED <<s_cfg, main, cmd>> \/ ~Keeping'
      BY <1>1, <1>6 DEF MainSave, CmdSave, SaveOpens, SaveEnds, SaveRefused, Keeping, Saving, StoreInv,
                        Order, Early
    <2> QED
      BY <2>1 DEF ReadInv, Keeping, Pair
  <1>7. CASE Reset
    BY <1>7 DEF Reset, ReadInv, Keeping
  <1>8. CASE CmdProvision \/ CmdFactoryReset
    BY <1>8 DEF CmdProvision, CmdFactoryReset, Taken, Serving, ReadInv, Keeping
  <1>9. CASE UNCHANGED storeVars /\ (Keeping' => Keeping)
    BY <1>9 DEF ReadInv, Pair, storeVars
  <1>10. CASE /\ UNCHANGED storeVars
              /\ UNCHANGED cmd \/ cmd' = "idle" \/ cmd' = "set_config"
              /\ UNCHANGED main \/ main' \notin {"default_id", "save"}
    BY <1>9, <1>10 DEF Keeping
  <1> QED
    BY <1>2, <1>3, <1>4, <1>5, <1>6, <1>7, <1>8, <1>10
    DEF Next, MainStep, CmdStep, CmdGoesOn, OtaStepOf, PowerCut, Crash, OtaReboot, MainProfile,
        MainTasks, MainStops, MainWifiInit, MainSsid, MainPass, MainReadSsid, MainReadPass,
        MainSetConfig, MainWait, MainMark, MainGoto, Taken, CmdWifi, CmdSetConfig, CmdOta,
        CmdMarkValid, storeVars, vars

(* A save that is no provisioning and no reset writes the credentials that   *)
(* are there: plt.set_sample_ms, plt.set_cloud and the identity that         *)
(* app_main makes do not touch them, however many nvs_set calls fail, unless *)
(* NVS could not be opened and the copy that is saved is another one.        *)
THEOREM SettingsKeep == Spec => SettingsKeepCredentials
  <1>1. ASSUME TypeOK, StoreInv, ReadInv, [Next]_vars
        PROVE  [\/ Pair(nvs') = Pair(nvs)
                \/ unread /\ Pair(s_cfg) # Pair(nvs)
                \/ main = "load"
                \/ cmd \in {"save_provision", "save_reset"}]_vars
    <2>1. CASE nvs' = nvs
      BY <2>1 DEF Pair
    <2>2. CASE main = "load"
      BY <2>2
    <2>3. CASE (MainSave \/ CmdSave) /\ SaveKey
      <3>1. main = "save" \/ Saving
        BY <2>3 DEF MainSave, CmdSave
      <3>2. SUFFICES ASSUME Pair(s_cfg) = Pair(nvs), main = "save" \/ cmd = "save_setting"
                     PROVE  Pair(nvs') = Pair(nvs)
        BY <1>1, <3>1 DEF ReadInv, Keeping, Saving
      <3> QED
        BY <1>1, <2>3, <3>2, KeepingSaves
    <2> QED
      BY <1>1, <2>1, <2>2, <2>3
      DEF Next, MainStep, CmdStep, CmdGoesOn, OtaStepOf, PowerCut, Crash, OtaReboot, Reset,
          MainLoad,
          MainDefaultId, MainSave, MainProfile, MainTasks, MainStops, MainWifiInit, MainSsid,
          MainPass, MainReadSsid,
          MainReadPass, MainSetConfig, MainWait, MainMark, CmdProvision, CmdSetting,
          CmdFactoryReset,
          CmdSave, CmdWifi, CmdSetConfig, CmdOta, CmdMarkValid, SaveOpens, SaveRefused, SaveEnds,
          storeVars, vars
  <1>2. Init => ReadInv
    BY DEF Init, ReadInv, Keeping
  <1>3. TypeOK /\ StoreInv /\ ReadInv /\ [Next]_vars => ReadInv'
    BY ReadInvKept
  <1> QED
    BY <1>1, <1>2, <1>3, AlwaysStored, PTL DEF Spec, SettingsKeepCredentials

-----------------------------------------------------------------------------
(* The credentials *)

PairOK(c) == c["provisioned"] # 0 /\ c["wifi_ssid"] # 0 => c["wifi_pass"] = c["wifi_ssid"]

Honest == ~failed /\ ~unread /\ ~torn

WholeInv == Honest => PairOK(s_cfg) /\ (main \in Unloaded => PairOK(nvs))

(* In the middle of a save the keys are whole, but for the moment between    *)
(* the two, and on a device that was not provisioned before even then.       *)
LEMMA WholeInside ==
    ASSUME TypeOK, StoreInv, WholeInv, Honest,
           ~(cmd = "save_provision" /\ s_cfg["provisioned"] # 0 /\ key = 3)
    PROVE  PairOK(nvs)
  <1>1. CASE main \in Unloaded
    BY <1>1 DEF WholeInv
  <1>2. CASE main \notin Unloaded
    <2>1. /\ key \in Nat /\ PairOK(s_cfg)
          /\ \A k \in Key : nvs[k] = IF Place[k] < key THEN in[k] ELSE s_cfg[k]
          /\ key > 0 => main = "save" \/ Saving
      BY <1>2, TypeParts DEF StoreInv, Order, Synced, Sync, Known, Honest, WholeInv, StoreType
    <2>2. /\ nvs["wifi_ssid"] = IF 2 < key THEN in["wifi_ssid"] ELSE s_cfg["wifi_ssid"]
          /\ nvs["wifi_pass"] = IF 3 < key THEN in["wifi_pass"] ELSE s_cfg["wifi_pass"]
          /\ nvs["provisioned"] = IF 8 < key THEN in["provisioned"] ELSE s_cfg["provisioned"]
      BY <2>1, PlaceIs
    <2>3. CASE key <= 2
      BY <2>1, <2>2, <2>3 DEF PairOK
    <2>4. CASE key > 2 /\ (main = "save" \/ cmd = "save_setting")
      <3>1. \A k \in Kept : in[k] = s_cfg[k]
        BY <2>4 DEF StoreInv, Record
      <3> QED
        BY <2>1, <2>2, <3>1, PlaceIs DEF PairOK
    <2>5. CASE key > 2 /\ cmd = "save_reset"
      <3>1. in["wifi_ssid"] = 0
        BY <2>5 DEF StoreInv, Record, Defaults, Key
      <3> QED
        BY <2>1, <2>2, <2>5, <3>1 DEF PairOK
    <2>6. CASE key > 2 /\ cmd = "save_provision"
      <3>1. in["wifi_ssid"] = in["wifi_pass"]
        BY <2>6 DEF StoreInv, Record
      <3> QED
        BY <2>1, <2>2, <2>6, <3>1 DEF PairOK
    <2> QED
      BY <2>1, <2>3, <2>4, <2>5, <2>6 DEF Saving
  <1> QED
    BY <1>1, <1>2

LEMMA WholeInit == Init => WholeInv
  BY DEF Init, StoreInit, WholeInv, PairOK, Defaults, Key

LEMMA HonestBefore ==
    ASSUME [Next]_vars, Honest'
    PROVE  Honest
  <1>1. failed => failed'
    BY DEF Next, MainStep, CmdStep, CmdGoesOn, OtaStepOf, PowerCut, Crash, OtaReboot, Reset,
           MainLoad, MainDefaultId, MainSave, MainProfile, MainTasks, MainStops, MainWifiInit,
           MainSsid, MainPass,
           MainReadSsid, MainReadPass, MainSetConfig, MainWait, MainMark, CmdProvision, CmdSetting,
           CmdFactoryReset, CmdSave, CmdWifi, CmdSetConfig, CmdOta, CmdMarkValid,
           SaveOpens, SaveRefused, SaveKey, SaveEnds, storeVars, vars
  <1>2. unread => unread'
    BY DEF Next, MainStep, CmdStep, CmdGoesOn, OtaStepOf, PowerCut, Crash, OtaReboot, Reset,
           MainLoad, MainDefaultId, MainSave, MainProfile, MainTasks, MainStops, MainWifiInit,
           MainSsid, MainPass,
           MainReadSsid, MainReadPass, MainSetConfig, MainWait, MainMark, CmdProvision, CmdSetting,
           CmdFactoryReset, CmdSave, CmdWifi, CmdSetConfig, CmdOta, CmdMarkValid,
           SaveOpens, SaveRefused, SaveKey, SaveEnds, Load, storeVars, vars
  <1>3. torn => torn'
    BY MainLeaves, CmdLeaves DEF Next, OtaStepOf, PowerCut, Crash, OtaReboot, Reset, countVars, vars
  <1> QED
    BY <1>1, <1>2, <1>3 DEF Honest

LEMMA WholeKept ==
    ASSUME TypeOK, TypeOK', StoreInv, WholeInv, [Next]_vars
    PROVE  WholeInv'
  <1> SUFFICES ASSUME Honest' PROVE PairOK(s_cfg') /\ (main' \in Unloaded => PairOK(nvs'))
    BY DEF WholeInv, PairOK
  <1>1. Honest
    BY HonestBefore
  <1>2. CASE UNCHANGED <<nvs, s_cfg>> /\ (main' \in Unloaded => main \in Unloaded)
    BY <1>1, <1>2 DEF WholeInv
  <1>3. CASE MainLoad
    <2>1. (s_cfg' = Defaults \/ s_cfg' = nvs \/ s_cfg' = s_cfg) /\ main' \notin Unloaded
          /\ main \in Unloaded
      BY <1>3, Loaded DEF MainLoad, MainGoto, Unloaded
    <2>2. PairOK(Defaults)
      BY DEF PairOK, Defaults, Key
    <2> QED
      BY <1>1, <2>1, <2>2 DEF WholeInv
  <1>4. CASE MainSave \/ CmdSave
    <2>1. main' \notin Unloaded /\ main \notin Unloaded /\ (main = "save" \/ Saving)
      BY <1>4 DEF MainSave, CmdSave, Saving, StoreInv, Order, Early, Unloaded
    <2>2. s_cfg' = s_cfg \/ s_cfg' = in
      BY <1>4 DEF MainSave, CmdSave, SaveOpens, SaveKey, SaveEnds, SaveRefused
    <2>3. PairOK(in)
      <3>1. CASE main = "save" \/ cmd = "save_setting"
        BY <1>1, <3>1, PlaceIs DEF StoreInv, Record, WholeInv, PairOK
      <3>2. CASE cmd = "save_reset"
        BY <3>2 DEF StoreInv, Record, PairOK, Defaults, Key
      <3>3. CASE cmd = "save_provision"
        BY <3>3 DEF StoreInv, Record, PairOK
      <3> QED
        BY <2>1, <3>1, <3>2, <3>3 DEF Saving
    <2> QED
      BY <1>1, <2>1, <2>2, <2>3 DEF WholeInv
  <1>5. CASE CmdProvision \/ CmdSetting
    <2>1. (s_cfg' = nvs \/ s_cfg' = s_cfg) /\ main' \notin Unloaded /\ cmd = "idle"
      BY <1>5, Loaded DEF CmdProvision, CmdSetting, Taken, Serving, Unloaded
    <2> QED
      BY <1>1, <2>1, WholeInside DEF WholeInv
  <1>6. CASE MainStops
    <2>1. UNCHANGED <<nvs, s_cfg, cmd>> /\ main \in {"load", "profile", "tasks"}
      BY <1>6 DEF MainStops, MainGoto, storeVars
    <2>2. cmd = "idle"
      BY <2>1 DEF StoreInv, Order, Early
    <2> QED
      BY <1>1, <2>1, <2>2, WholeInside DEF WholeInv
  <1>7. CASE Reset
    <2>1. ~(cmd = "save_provision" /\ s_cfg["provisioned"] # 0 /\ key = 3)
      BY <1>7, PlaceIs DEF Reset, Honest
    <2>2. nvs' = nvs /\ s_cfg' = Defaults
      BY <1>7 DEF Reset
    <2>3. PairOK(Defaults)
      BY DEF PairOK, Defaults, Key
    <2> QED
      BY <1>1, <2>1, <2>2, <2>3, WholeInside
  <1> QED
    BY <1>2, <1>3, <1>4, <1>5, <1>6, <1>7
    DEF Next, MainStep, CmdStep, CmdGoesOn, OtaStepOf, PowerCut, Crash, OtaReboot, Unloaded,
        MainDefaultId, MainProfile, MainTasks, MainStops, MainWifiInit, MainSsid, MainPass,
        MainReadSsid,
        MainReadPass, MainSetConfig, MainWait, MainMark, CmdFactoryReset, CmdWifi, CmdSetConfig,
        CmdOta, CmdMarkValid, MainGoto, Taken, storeVars, vars

(* A provisioned device has both credentials of one provisioning, wherever   *)
(* the power failed: iot_config_save writes the flag after them.             *)
THEOREM PairIsWhole == Spec => []WholePair
  <1>1. TypeOK /\ StoreInv /\ WholeInv => WholePair
    BY WholeInside DEF WholePair, Honest, PairOK
  <1>2. (TypeOK /\ StoreInv) /\ (TypeOK /\ StoreInv)' /\ WholeInv /\ [Next]_vars => WholeInv'
    BY WholeKept
  <1> QED
    BY <1>1, <1>2, WholeInit, AlwaysStored, PTL DEF Spec

-----------------------------------------------------------------------------
(* The driver *)

DriverInv ==
    /\ ~failed /\ ~refused /\ cfg["provisioned"] = 0 /\ driver # NoPair /\ nvs["wifi_ssid"] # 0
    /\ cmd \in {"idle", "save_setting"} \/ (Saving /\ key = 0)
    => driver = Pair(nvs)

LEMMA DriverInit == Init => DriverInv
  BY DEF Init, DriverInv

(* A setting that is being saved leaves the pair that the driver has. *)
LEMMA SettingSaved ==
    ASSUME TypeOK, StoreInv, SaveKey, cmd = "save_setting", ~failed, driver # NoPair
    PROVE  Pair(nvs)' = Pair(nvs) /\ nvs'["wifi_ssid"] = nvs["wifi_ssid"]
  <1>1. main \notin Unloaded
    BY DEF StoreInv, Order, Early, Unloaded
  <1>2. \A k \in Kept : in[k] = s_cfg[k]
    BY DEF StoreInv, Record
  <1>3. \A k \in Key : nvs[k] = IF Place[k] < key THEN in[k] ELSE s_cfg[k]
    BY <1>1 DEF StoreInv, Synced, Sync, Known
  <1>4. nvs' = nvs \/ \E k \in Key : nvs' = [nvs EXCEPT ![k] = in[k]]
    BY DEF SaveKey
  <1>5. \A k \in Kept : nvs'[k] = nvs[k]
    BY <1>2, <1>3, <1>4, TypeParts, PlaceIs DEF StoreType, Config
  <1> QED
    BY <1>5, PlaceIs DEF Pair

LEMMA DriverKept ==
    ASSUME TypeOK, StoreInv, StoreInv', DriverInv, [Next]_vars
    PROVE  DriverInv'
  <1>1. CASE main' \in Early
    BY <1>1 DEF StoreInv, Order, DriverInv
  <1>2. CASE UNCHANGED <<nvs, key, failed, cfg, driver, refused, cmd>>
    BY <1>2 DEF DriverInv, Saving, Pair
  <1>3. CASE MainSetConfig
    BY <1>3 DEF MainSetConfig, StoreInv, Order, Starting, DriverInv
  <1>4. CASE CmdProvision \/ CmdSetting \/ CmdFactoryReset
    <2>1. UNCHANGED <<nvs, failed, cfg, driver, refused>> /\ cmd = "idle"
      BY <1>4 DEF CmdProvision, CmdSetting, CmdFactoryReset, Taken, wifiVars
    <2> QED
      BY <2>1 DEF DriverInv, Pair
  <1>5. CASE CmdSave
    <2>1. UNCHANGED <<cfg, driver, refused>> /\ Saving
      BY <1>5 DEF CmdSave, wifiVars
    <2>2. CASE SaveOpens \/ SaveRefused
      <3>1. UNCHANGED <<nvs, failed>> /\ key = 0
        BY <2>2 DEF SaveOpens, SaveRefused
      <3> QED
        BY <2>1, <3>1 DEF DriverInv, Pair
    <2>3. CASE SaveKey
      <3>1. cmd' = cmd /\ key' # 0 /\ (failed => failed')
        <4>1. key' # 0
          BY <2>3, TypeParts DEF SaveKey, StoreType, Keys
        <4>2. cmd' = cmd
          BY <1>5, <2>3, SaveEndsIsNoSaveKey DEF CmdSave, SaveRefused, SaveKey, Keys
        <4>3. failed => failed'
          BY <2>3 DEF SaveKey
        <4> QED
          BY <4>1, <4>2, <4>3
      <3> QED
        BY <2>1, <2>3, <3>1, SettingSaved DEF DriverInv, Saving
    <2>4. CASE SaveEnds
      <3>1. UNCHANGED <<nvs, failed>> /\ key' = 0
            /\ cmd' = IF cmd = "save_provision" THEN "wifi" ELSE "idle"
        BY <1>5, <2>4, SaveEndsIsNoSaveKey DEF CmdSave, SaveEnds
      <3>2. CASE cmd = "save_provision"
        BY <3>1, <3>2 DEF DriverInv, Saving
      <3>3. CASE cmd = "save_setting"
        BY <2>1, <3>1, <3>3 DEF DriverInv, Pair
      <3>4. CASE cmd = "save_reset"
        <4>1. ~failed' => nvs' = Defaults
          BY <2>4, <3>4, SaveEnded DEF StoreInv, Record
        <4> QED
          BY <4>1 DEF DriverInv, Defaults, Key
      <3> QED
        BY <2>1, <3>2, <3>3, <3>4 DEF Saving
    <2> QED
      BY <1>5, <2>2, <2>3, <2>4 DEF CmdSave
  <1>6. CASE CmdWifi
    BY <1>6 DEF CmdWifi, DriverInv, Saving
  <1>7. CASE CmdSetConfig
    <2>1. cmd = "set_config" /\ UNCHANGED nvs /\ UNCHANGED failed /\ (refused' \/ driver' = wc["cmd"])
      BY <1>7 DEF CmdSetConfig, SetConfig, storeVars
    <2>2. main \notin Early /\ ~Saving
      BY <2>1 DEF StoreInv, Order, Saving
    <2>3. key = 0 /\ main \notin Unloaded
      BY <2>2, TypeParts DEF StoreInv, Order, Early, Unloaded, StoreType
    <2>4. ~failed => nvs = s_cfg
      BY <2>1, <2>3, SyncClosed DEF StoreInv, Synced, Known
    <2>5. wc["cmd"] = Pair(in) /\ in = s_cfg
      BY <2>1 DEF StoreInv, Record
    <2> QED
      BY <2>1, <2>4, <2>5 DEF DriverInv, Pair
  <1> QED
    BY <1>1, <1>2, <1>3, <1>4, <1>5, <1>6, <1>7
    DEF Next, MainStep, CmdStep, CmdGoesOn, OtaStepOf, PowerCut, Crash, OtaReboot, Reset, MainLoad,
        MainDefaultId, MainSave, MainProfile, MainTasks, MainStops, MainWifiInit, MainSsid,
        MainPass, MainReadSsid,
        MainReadPass, MainWait, MainMark, CmdOta, CmdMarkValid, MainGoto, Taken, Early, storeVars,
        wifiVars, vars

(* On a device that booted unprovisioned Wi-Fi has the credentials that the  *)
(* next boot will find, or none, whichever commands came since.              *)
THEOREM DriverStored == Spec => []DriverIsStored
  <1>1. TypeOK /\ DriverInv => DriverIsStored
    BY DEF DriverInv, DriverIsStored
  <1>2. (TypeOK /\ StoreInv) /\ (TypeOK /\ StoreInv)' /\ DriverInv /\ [Next]_vars => DriverInv'
    BY DriverKept
  <1> QED
    BY <1>1, <1>2, DriverInit, AlwaysStored, PTL DEF Spec
-----------------------------------------------------------------------------
(* The update, seen from the image to go back to *)

(* Nothing is fetched before app_main has started the tasks. *)
Quiet == main \in Early => \A t \in OtaTask : task[t] = "none"

LEMMA MainLater ==
    ASSUME MainStep
    PROVE  main' # "load" /\ (main' \in Early => main \in Early)
  BY DEF MainStep, MainLoad, MainDefaultId, MainSave, MainProfile, MainTasks, MainStops,
         MainWifiInit, MainSsid, MainPass, MainReadSsid, MainReadPass, MainSetConfig, MainWait,
         MainMark, MainGoto, Early

LEMMA QuietKept == TypeOK /\ Quiet /\ [Next]_vars => Quiet'
  <1> SUFFICES ASSUME TypeOK, Quiet, [Next]_vars PROVE Quiet'
    OBVIOUS
  <1>1. CASE MainStep
    BY <1>1, MainLater, MainLeaves DEF Quiet
  <1>2. CASE CmdStep
    <2>1. main' = main
      BY <1>2, CmdLeaves
    <2>2. CASE UNCHANGED task
      BY <2>1, <2>2 DEF Quiet
    <2>3. CASE CmdOta
      BY <2>1, <2>3 DEF CmdOta, Taken, Serving, Quiet, Early
    <2> QED
      BY <1>2, <2>2, <2>3 DEF CmdStep, CmdGoesOn, CmdProvision, CmdSetting, CmdFactoryReset,
         CmdSave, CmdWifi, CmdSetConfig, CmdMarkValid, otaVars
  <1>3. ASSUME NEW t \in OtaTask, OtaStepOf(t) PROVE Quiet'
    <2>1. main' = main /\ task[t] # "none"
      BY <1>3 DEF OtaStepOf, OtaStep, OtaDownloading, OtaBegin, OtaPerform, OtaFinish
    <2> QED
      BY <2>1 DEF Quiet
  <1>4. CASE Reset
    BY <1>4 DEF Reset, OtaReset, Quiet
  <1>5. CASE UNCHANGED vars
    BY <1>5 DEF vars, otaVars, Quiet
  <1> QED
    BY <1>1, <1>2, <1>3, <1>4, <1>5 DEF Next, PowerCut, Crash, OtaReboot

LEMMA AlwaysSettled == Spec => [](TypeOK /\ SlotInv /\ Quiet)
  <1>1. Init => Quiet
    BY DEF Init, OtaInit, Quiet
  <1>2. TypeOK /\ SlotInv /\ [Next]_vars => SlotInv'
    BY SlotKept
  <1> QED
    BY <1>1, <1>2, TypeCorrect, SlotInit, QuietKept, PTL DEF Spec

LEMMA UpdateStep ==
    ASSUME TypeOK, SlotInv, Quiet, [Next]_vars
    PROVE  [Update!Next]_(Update!vars)
  <1> USE DEF Home, Guest, Phase, OnTrial
  <1>1. OtaType /\ forced \in BOOLEAN
    BY TypeParts DEF FlagType
  <1>2. Other \in Slot /\ Other # running /\ \A s \in Slot : s = running \/ s = Other
    BY <1>1 DEF OtaType, Other, Slot
  <1>3. ASSUME UNCHANGED <<image, standing, running, target, forced>>,
               (main' = "load") = (main = "load")
        PROVE  UNCHANGED Update!vars
    BY <1>3 DEF Update!vars, Other
  <1>4. CASE MainStep /\ ~MainMark
    <2>1. UNCHANGED <<image, standing, running, target, forced>>
      BY <1>4, MainLeaves DEF otaVars
    <2>2. CASE main = "load"
      BY <1>4, <2>1, <2>2, MainLater DEF Update!Next, Update!Start, Other
    <2>3. CASE main # "load"
      <3>1. main' # "load"
        BY <1>4, <2>3, MainLater
      <3> QED
        BY <1>3, <2>1, <2>3, <3>1
    <2> QED
      BY <2>2, <2>3
  <1>5. CASE MainMark
    <2>1. /\ UNCHANGED <<image, running, target, forced>>
          /\ main # "load" /\ main' # "load"
          /\ standing' = [standing EXCEPT ![running] = "valid"]
          /\ image[running] = "good"
      BY <1>5 DEF MainMark, MarkValid
    <2>2. standing'[running] = "valid" /\ Other' = Other
      BY <1>1, <2>1 DEF OtaType, Other
    <2>3. CASE OnTrial
      BY <2>1, <2>2, <2>3 DEF SlotInv, TrialInv, Update!Next, Update!Confirm, Update!Settle
    <2>4. CASE ~OnTrial
      BY <2>1, <2>2, <2>4 DEF Update!vars
    <2> QED
      BY <2>3, <2>4
  <1>6. CASE CmdMarkValid
    <2>1. /\ UNCHANGED <<image, running, target>>
          /\ main # "load" /\ main' = main
          /\ standing' = [standing EXCEPT ![running] = "valid"]
          /\ forced' = (forced \/ OnTrial)
      BY <1>6 DEF CmdMarkValid, MarkValid, Taken, Serving
    <2>2. standing'[running] = "valid" /\ Other' = Other
      BY <1>1, <2>1 DEF OtaType, Other
    <2>3. CASE OnTrial
      BY <2>1, <2>2, <2>3 DEF SlotInv, TrialInv, Update!Next, Update!Force, Update!Settle
    <2>4. CASE ~OnTrial
      BY <1>1, <2>1, <2>2, <2>4 DEF Update!vars
    <2> QED
      BY <2>3, <2>4
  <1>7. CASE CmdStep /\ ~CmdMarkValid
    <2>1. UNCHANGED <<image, standing, running, target, forced>> /\ main' = main
      BY <1>7, CmdLeaves DEF CmdStep, CmdGoesOn, CmdProvision, CmdSetting, CmdFactoryReset,
         CmdSave, CmdWifi, CmdSetConfig, CmdOta, OtaStart, otaVars
    <2> QED
      BY <1>3, <2>1
  <1>8. ASSUME NEW t \in OtaTask, OtaStepOf(t) PROVE [Update!Next]_(Update!vars)
    <2>1. main' = main /\ main # "load"
      BY <1>8 DEF OtaStepOf, OtaStep, OtaDownloading, OtaBegin, OtaPerform, OtaFinish, Quiet, Early
    <2>2. CASE OtaDownloading(t) \/ OtaFails(t)
      BY <1>3, <2>1, <2>2 DEF OtaDownloading, OtaFails
    <2>3. ASSUME NEW i \in Images \union {"partial"}, image' = [image EXCEPT ![Other] = i],
                 UNCHANGED <<standing, running, target, forced>>, ~OnTrial
          PROVE  Update!Write
      BY <1>1, <1>2, <2>1, <2>3 DEF Update!Write, Update!Image, Images, OtaType, Other
    <2>4. CASE OtaBegin(t)
      BY <2>2, <2>3, <2>4 DEF OtaBegin, Overwrite, Update!Next
    <2>5. CASE OtaPerform(t)
      <3>1. ~OnTrial /\ quality[t] \in Images
        BY <1>1, <2>5 DEF OtaPerform, SlotInv, TrialInv, OtaType
      <3> QED
        BY <2>2, <2>3, <2>5, <3>1 DEF OtaPerform, Update!Next
    <2>6. CASE OtaFinish(t)
      <3>1. ~OnTrial
        BY <2>6 DEF OtaFinish, SlotInv, TrialInv
      <3>2. CASE OtaFails(t)
        BY <2>2, <3>2
      <3>3. CASE ~OtaFails(t)
        <4>1. /\ image[Other] # "partial" /\ target' = Other
              /\ standing' = [standing EXCEPT ![Other] = "new"]
              /\ UNCHANGED <<image, running, forced>>
          BY <2>6, <3>3 DEF OtaFinish
        <4>2. standing'[running] = standing[running] /\ Other' = Other
          BY <1>1, <1>2, <4>1 DEF OtaType, Other
        <4>3. Phase' = "ready" /\ Home' = Home /\ Guest' = Guest /\ Guest # "partial"
          BY <1>2, <3>1, <4>1, <4>2
        <4> QED
          BY <2>1, <3>1, <4>1, <4>3 DEF Update!Next, Update!Select, Update!vars
      <3> QED
        BY <3>2, <3>3
    <2> QED
      BY <1>8, <2>2, <2>4, <2>5, <2>6 DEF OtaStepOf, OtaStep
  <1>9. CASE Reset
    <2>1. PICK slot \in Slot :
             /\ slot = IF standing[target] = "pending" \/ image[target] = "partial"
                       THEN 1 - target ELSE target
             /\ running' = slot /\ target' = slot
             /\ standing' = [s \in Slot |->
                               IF s # slot /\ standing[s] = "pending" THEN "aborted"
                               ELSE IF s = slot /\ standing[s] = "new" THEN "pending"
                               ELSE standing[s]]
      BY <1>1, <1>9 DEF Reset, OtaReset, BootLoader, OtaType, Slot
    <2>2. UNCHANGED <<image, forced>> /\ main' = "load"
      BY <1>9 DEF Reset, OtaReset, BootLoader
    <2>3. Other' = 1 - slot
      BY <2>1 DEF Other
    <2>4. CASE OnTrial
      <3>1. slot = Other /\ standing[Other] = "valid"
        BY <1>1, <2>1, <2>4 DEF SlotInv, TrialInv, OtaType, Slot, Other
      <3>2. Other' = running /\ standing'[slot] = "valid"
        BY <1>1, <1>2, <2>1, <2>3, <3>1 DEF OtaType, Other, Slot
      <3> QED
        BY <2>1, <2>2, <2>4, <3>1, <3>2 DEF Update!Next, Update!Boot
    <2>5. CASE ~OnTrial /\ target = running
      <3>1. slot = running /\ Other' = Other /\ standing'[slot] = "valid"
        BY <1>1, <2>1, <2>3, <2>5 DEF SlotInv, OtaType, Slot, Other
      <3> QED
        BY <2>1, <2>2, <2>5, <3>1 DEF Update!Next, Update!Boot
    <2>6. CASE ~OnTrial /\ target # running
      <3>1. target = Other /\ standing[target] = "new" /\ standing[running] = "valid"
        BY <1>1, <1>2, <2>6 DEF SlotInv, OtaType
      <3>2. CASE image[Other] = "partial"
        <4>1. slot = running /\ Other' = Other /\ standing'[slot] = "valid"
          BY <1>1, <2>1, <2>3, <3>1, <3>2 DEF OtaType, Slot, Other
        <4> QED
          BY <2>1, <2>2, <2>6, <3>2, <4>1 DEF Update!Next, Update!Boot
      <3>3. CASE image[Other] # "partial"
        <4>1. slot = Other /\ Other' = running /\ standing'[slot] = "pending"
          BY <1>1, <1>2, <2>1, <2>3, <3>1, <3>3 DEF OtaType, Slot, Other
        <4> QED
          BY <2>1, <2>2, <2>6, <3>3, <4>1 DEF Update!Next, Update!Boot
      <3> QED
        BY <3>2, <3>3
    <2> QED
      BY <2>4, <2>5, <2>6
  <1>10. CASE UNCHANGED vars
    BY <1>3, <1>10 DEF vars, otaVars
  <1> QED
    BY <1>4, <1>5, <1>6, <1>7, <1>8, <1>9, <1>10 DEF Next, PowerCut, Crash, OtaReboot

(* Whatever overlapping updates, power cuts and crashes do to the two slots, *)
(* it is a step of SafeUpdate or none.                                       *)
THEOREM UpdateIsSafe == Spec => UpdateSpec
  <1>1. Init => Update!Init
    BY DEF Init, OtaInit, Update!Init, Home, Guest, Phase, OnTrial, Other, Slot
  <1>2. TypeOK /\ SlotInv /\ Quiet /\ [Next]_vars => [Update!Next]_(Update!vars)
    BY UpdateStep
  <1> QED
    BY <1>1, <1>2, AlwaysSettled, PTL DEF Spec, UpdateSpec, Update!Spec
-----------------------------------------------------------------------------
(* The end of a trial.  app_main goes from place to place on a way without  *)
(* a circle, key by key where it saves the identity; any reset ends the      *)
(* trial at once.  That app_main and the crash of a bad image can happen,    *)
(* BootCanGoOn, speaks of ENABLED, which has no proof rules here: it is an   *)
(* hypothesis of the theorem, and TLC checks it.                             *)

(* The places that follow a place, but for "stopped". *)
After(x) ==
    CASE x = "load" -> {"default_id"}
      [] x = "default_id" -> {"save", "profile"}
      [] x = "profile" -> {"tasks"}
      [] x = "tasks" -> {"wifi_init"}
      [] x = "wifi_init" -> {"ssid", "mark"}
      [] x = "ssid" -> {"pass"}
      [] x = "pass" -> {"read_ssid"}
      [] x = "read_ssid" -> {"read_pass"}
      [] x = "read_pass" -> {"set_config"}
      [] x = "set_config" -> {"wait"}
      [] x = "wait" -> {"mark"}
      [] OTHER -> {}

Ended == standing[running] = "valid" \/ main = "stopped"
Trying(x) == OnTrial /\ main = x
TryingSave(k) == OnTrial /\ main = "save" /\ key = k
TryingMark(i) == OnTrial /\ main = "mark" /\ image[running] = i

TrialSafe == TypeOK /\ SlotInv /\ Order

LEMMA TrialMoves ==
    ASSUME TrialSafe, OnTrial, MainStep
    PROVE  \/ Ended'
           \/ /\ OnTrial' /\ image'[running'] = image[running]
              /\ main # "mark"
              /\ main # "save" => main' \in After(main)
              /\ main = "save" =>
                   \/ main' = "profile" /\ key \in {0, Keys + 1}
                   \/ main' = "save" /\ key \in 0..Keys /\ key' = key + 1
  <1> USE DEF TrialSafe
  <1>1. CASE MainMark
    BY <1>1, TypeParts DEF MainMark, MarkValid, OtaType, Ended
  <1>2. CASE ~MainMark
    <2>1. OnTrial' /\ image'[running'] = image[running] /\ UNCHANGED otaVars
      BY <1>2, MainLeaves DEF otaVars, OnTrial
    <2>2. CASE MainSave
      <3>1. key \in Nat
        BY DEF TypeOK, Keys
      <3>2. main = "save"
        BY <2>2 DEF MainSave
      <3>3. \/ main' = "profile" /\ key \in {0, Keys + 1}
            \/ main' = "save" /\ key \in 0..Keys /\ key' = key + 1
        BY <2>2, <3>1 DEF MainSave, SaveOpens, SaveKey, SaveEnds, SaveRefused, Keys
      <3> QED
        BY <2>1, <3>2, <3>3
    <2>3. CASE MainStops
      BY <2>3 DEF MainStops, MainGoto, Ended
    <2>4. CASE ~MainSave /\ ~MainStops
      BY <1>2, <2>1, <2>4 DEF MainStep, MainLoad, MainDefaultId, MainProfile, MainTasks,
         MainWifiInit, MainSsid, MainPass, MainReadSsid, MainReadPass, MainSetConfig, MainWait,
         MainGoto, After
    <2> QED
      BY <2>2, <2>3, <2>4
  <1> QED
    BY <1>1, <1>2

(* A reset brings back the image that was confirmed. *)
LEMMA ResetEnds ==
    ASSUME TrialSafe, OnTrial, Reset
    PROVE  Ended'
  <1>1. OtaType
    BY TypeParts DEF TrialSafe
  <1>2. target = running /\ standing[running] = "pending" /\ standing[Other] = "valid"
        /\ Other \in Slot /\ Other # running
    BY <1>1 DEF TrialSafe, SlotInv, TrialInv, OnTrial, OtaType, Slot, Other
  <1>3. running' = Other
        /\ standing' = [s \in Slot |->
                          IF s # Other /\ standing[s] = "pending" THEN "aborted"
                          ELSE IF s = Other /\ standing[s] = "new" THEN "pending"
                          ELSE standing[s]]
    BY <1>2 DEF Reset, OtaReset, BootLoader, Other
  <1> QED
    BY <1>2, <1>3 DEF Ended

(* Nobody but app_main, a reset and plt.mark_ota_valid does anything to it. *)
LEMMA TrialSteps ==
    ASSUME TrialSafe, OnTrial, [Next]_vars
    PROVE  \/ Ended'
           \/ MainStep
           \/ /\ OnTrial' /\ image'[running'] = image[running]
              /\ main' = main /\ (main = "save" => key' = key)
  <1> USE DEF TrialSafe
  <1>1. OtaType /\ Other # running
    BY TypeParts DEF OtaType, Slot, Other
  <1>2. CASE CmdMarkValid
    BY <1>1, <1>2 DEF CmdMarkValid, MarkValid, OtaType, Ended
  <1>3. CASE CmdStep /\ ~CmdMarkValid
    <2>1. main' = main /\ UNCHANGED <<image, running, standing>>
      BY <1>3, CmdLeaves DEF CmdStep, CmdGoesOn, CmdProvision, CmdSetting, CmdFactoryReset,
         CmdSave, CmdWifi, CmdSetConfig, CmdOta, OtaStart, otaVars
    <2>2. main # "save"
      BY <1>3 DEF CmdStep, CmdGoesOn, CmdProvision, CmdSetting, CmdFactoryReset,
         CmdSave, CmdWifi, CmdSetConfig, CmdOta, Taken, Serving, Saving, Order, Early
    <2> QED
      BY <2>1, <2>2 DEF OnTrial
  <1>4. ASSUME NEW t \in OtaTask, OtaStepOf(t)
        PROVE  OnTrial' /\ image'[running'] = image[running] /\ main' = main /\ key' = key
    <2>1. OtaDownloading(t) \/ OtaFails(t)
      BY <1>4 DEF OtaStepOf, OtaStep, OtaBegin, OtaPerform, OtaFinish, OnTrial, SlotInv, TrialInv
    <2> QED
      BY <1>4, <2>1 DEF OtaStepOf, OtaDownloading, OtaFails, OnTrial, storeVars
  <1>5. CASE UNCHANGED vars
    BY <1>5 DEF vars, otaVars, storeVars, OnTrial
  <1> QED
    BY <1>2, <1>3, <1>4, <1>5, ResetEnds DEF Next, PowerCut, Crash, OtaReboot

(* app_main, saving or not, gets to the end of its way or ends the trial. *)
LEMMA SaveGoesOn ==
    []TrialSafe /\ [][Next]_vars /\ WF_vars(MainStep) /\ []BootCanGoOn =>
        (Trying("save") ~> Trying("profile") \/ Ended)
  <1>1. TrialSafe /\ [Next]_vars =>
          /\ TryingSave(0) => (TryingSave(0) \/ TryingSave(1) \/ Trying("profile") \/ Ended)'
          /\ TryingSave(1) => (TryingSave(1) \/ TryingSave(2) \/ Ended)'
          /\ TryingSave(2) => (TryingSave(2) \/ TryingSave(3) \/ Ended)'
          /\ TryingSave(3) => (TryingSave(3) \/ TryingSave(4) \/ Ended)'
          /\ TryingSave(4) => (TryingSave(4) \/ TryingSave(5) \/ Ended)'
          /\ TryingSave(5) => (TryingSave(5) \/ TryingSave(6) \/ Ended)'
          /\ TryingSave(6) => (TryingSave(6) \/ TryingSave(7) \/ Ended)'
          /\ TryingSave(7) => (TryingSave(7) \/ TryingSave(8) \/ Ended)'
          /\ TryingSave(8) => (TryingSave(8) \/ TryingSave(9) \/ Ended)'
          /\ TryingSave(9) => (TryingSave(9) \/ TryingSave(10) \/ Ended)'
          /\ TryingSave(10) => (TryingSave(10) \/ Trying("profile") \/ Ended)'
    BY TrialSteps, TrialMoves DEF TryingSave, Trying, Keys
  <1>2. TrialSafe /\ <<MainStep>>_vars =>
          /\ TryingSave(0) => (TryingSave(1) \/ Trying("profile") \/ Ended)'
          /\ TryingSave(1) => (TryingSave(2) \/ Ended)'
          /\ TryingSave(2) => (TryingSave(3) \/ Ended)'
          /\ TryingSave(3) => (TryingSave(4) \/ Ended)'
          /\ TryingSave(4) => (TryingSave(5) \/ Ended)'
          /\ TryingSave(5) => (TryingSave(6) \/ Ended)'
          /\ TryingSave(6) => (TryingSave(7) \/ Ended)'
          /\ TryingSave(7) => (TryingSave(8) \/ Ended)'
          /\ TryingSave(8) => (TryingSave(9) \/ Ended)'
          /\ TryingSave(9) => (TryingSave(10) \/ Ended)'
          /\ TryingSave(10) => (Trying("profile") \/ Ended)'
    BY TrialMoves DEF TryingSave, Trying, Keys
  <1>3. TrialSafe /\ Trying("save") =>
          \/ TryingSave(0) \/ TryingSave(1) \/ TryingSave(2) \/ TryingSave(3)
          \/ TryingSave(4) \/ TryingSave(5) \/ TryingSave(6) \/ TryingSave(7)
          \/ TryingSave(8) \/ TryingSave(9) \/ TryingSave(10)
    BY DEF TrialSafe, TypeOK, TryingSave, Trying, Keys
  <1>4. BootCanGoOn =>
          /\ TryingSave(0) => ENABLED <<MainStep>>_vars
          /\ TryingSave(1) => ENABLED <<MainStep>>_vars
          /\ TryingSave(2) => ENABLED <<MainStep>>_vars
          /\ TryingSave(3) => ENABLED <<MainStep>>_vars
          /\ TryingSave(4) => ENABLED <<MainStep>>_vars
          /\ TryingSave(5) => ENABLED <<MainStep>>_vars
          /\ TryingSave(6) => ENABLED <<MainStep>>_vars
          /\ TryingSave(7) => ENABLED <<MainStep>>_vars
          /\ TryingSave(8) => ENABLED <<MainStep>>_vars
          /\ TryingSave(9) => ENABLED <<MainStep>>_vars
          /\ TryingSave(10) => ENABLED <<MainStep>>_vars
    BY DEF BootCanGoOn, TryingSave
  <1> QED
    BY <1>1, <1>2, <1>3, <1>4, PTL

LEMMA MarkEnds ==
    []TrialSafe /\ [][Next]_vars /\ WF_vars(MainStep) /\ WF_vars(Crash) /\ []BootCanGoOn =>
        (Trying("mark") ~> Ended)
  <1>1. TrialSafe /\ [Next]_vars =>
          /\ TryingMark("good") => (TryingMark("good") \/ Ended)'
          /\ TryingMark("bad") => (TryingMark("bad") \/ Ended)'
    BY TrialSteps, TrialMoves DEF TryingMark
  <1>2. TrialSafe /\ TryingMark("good") /\ <<MainStep>>_vars => Ended'
    BY TrialMoves DEF TryingMark
  <1>3. TrialSafe /\ TryingMark("bad") /\ <<Crash>>_vars => Ended'
    BY ResetEnds DEF TryingMark, Crash
  <1>4. TrialSafe /\ Trying("mark") => TryingMark("good") \/ TryingMark("bad")
    BY DEF TrialSafe, TypeOK, SlotInv, Images, Trying, TryingMark
  <1>5. BootCanGoOn =>
          /\ TryingMark("good") => ENABLED <<MainStep>>_vars
          /\ TryingMark("bad") => ENABLED <<Crash>>_vars
    BY DEF BootCanGoOn, TryingMark
  <1> QED
    BY <1>1, <1>2, <1>3, <1>4, <1>5, PTL

(* app_main is up only with an image that is confirmed. *)
UpInv == main = "up" => ~OnTrial

LEMMA UpKept == TrialSafe /\ UpInv /\ [Next]_vars => UpInv'
  <1> SUFFICES ASSUME TrialSafe, UpInv, [Next]_vars PROVE UpInv'
    OBVIOUS
  <1>1. OtaType /\ Other # running
    BY TypeParts DEF TrialSafe, OtaType, Slot, Other
  <1>2. CASE MainMark \/ CmdMarkValid
    BY <1>1, <1>2 DEF MainMark, CmdMarkValid, MarkValid, OtaType, UpInv, OnTrial
  <1>3. CASE MainStep /\ ~MainMark
    BY <1>3 DEF MainStep, MainLoad, MainDefaultId, MainSave, MainProfile, MainTasks, MainStops,
       MainWifiInit, MainSsid, MainPass, MainReadSsid, MainReadPass, MainSetConfig, MainWait,
       MainGoto, UpInv
  <1>4. CASE CmdStep /\ ~CmdMarkValid
    BY <1>4, CmdLeaves DEF CmdStep, CmdGoesOn, CmdProvision, CmdSetting, CmdFactoryReset,
       CmdSave, CmdWifi, CmdSetConfig, CmdOta, OtaStart, otaVars, UpInv, OnTrial
  <1>5. ASSUME NEW t \in OtaTask, OtaStepOf(t) PROVE UpInv'
    <2>1. main' = main /\ running' = running /\ standing'[running] = standing[running]
      BY <1>1, <1>5 DEF OtaStepOf, OtaStep, OtaDownloading, OtaBegin, OtaPerform, OtaFinish,
         OtaFails, Overwrite, OtaType
    <2> QED
      BY <2>1 DEF UpInv, OnTrial
  <1>6. CASE Reset
    BY <1>6 DEF Reset, UpInv
  <1>7. CASE UNCHANGED vars
    BY <1>7 DEF vars, otaVars, UpInv, OnTrial
  <1> QED
    BY <1>2, <1>3, <1>4, <1>5, <1>6, <1>7 DEF Next, PowerCut, Crash, OtaReboot

(* A trial ends, for any number of update tasks, commands, failures and      *)
(* power cuts: app_main confirms the image or stops, or the old one is back. *)
(* That app_main can go on, and a bad image fails, is BootCanGoOn, an        *)
(* invariant about ENABLED, which TLC checks.                               *)
THEOREM TrialEndsAlways == FairSpec /\ []BootCanGoOn => TrialEnds
  <1>1. FairSpec =>
          /\ []TrialSafe /\ [][Next]_vars
          /\ WF_vars(MainStep) /\ WF_vars(Crash)
          /\ []UpInv
    <2>1. Init => UpInv
      BY DEF Init, UpInv
    <2>2. TypeOK /\ StoreInv /\ SlotInv => TrialSafe
      BY DEF StoreInv, TrialSafe
    <2>3. TypeOK /\ SlotInv /\ [Next]_vars => SlotInv'
      BY SlotKept
    <2> QED
      BY <2>1, <2>2, <2>3, SlotInit, AlwaysStored, UpKept, PTL DEF FairSpec, Spec
  <1>2. TrialSafe /\ [Next]_vars =>
          /\ Trying("load") => (Trying("load") \/ Trying("default_id") \/ Ended)'
          /\ Trying("default_id") => (Trying("default_id") \/ Trying("save") \/ Trying("profile") \/ Ended)'
          /\ Trying("profile") => (Trying("profile") \/ Trying("tasks") \/ Ended)'
          /\ Trying("tasks") => (Trying("tasks") \/ Trying("wifi_init") \/ Ended)'
          /\ Trying("wifi_init") => (Trying("wifi_init") \/ Trying("ssid") \/ Trying("mark") \/ Ended)'
          /\ Trying("ssid") => (Trying("ssid") \/ Trying("pass") \/ Ended)'
          /\ Trying("pass") => (Trying("pass") \/ Trying("read_ssid") \/ Ended)'
          /\ Trying("read_ssid") => (Trying("read_ssid") \/ Trying("read_pass") \/ Ended)'
          /\ Trying("read_pass") => (Trying("read_pass") \/ Trying("set_config") \/ Ended)'
          /\ Trying("set_config") => (Trying("set_config") \/ Trying("wait") \/ Ended)'
          /\ Trying("wait") => (Trying("wait") \/ Trying("mark") \/ Ended)'
    BY TrialSteps, TrialMoves DEF Trying, After
  <1>3. TrialSafe /\ <<MainStep>>_vars =>
          /\ Trying("load") => (Trying("default_id") \/ Ended)'
          /\ Trying("default_id") => (Trying("save") \/ Trying("profile") \/ Ended)'
          /\ Trying("profile") => (Trying("tasks") \/ Ended)'
          /\ Trying("tasks") => (Trying("wifi_init") \/ Ended)'
          /\ Trying("wifi_init") => (Trying("ssid") \/ Trying("mark") \/ Ended)'
          /\ Trying("ssid") => (Trying("pass") \/ Ended)'
          /\ Trying("pass") => (Trying("read_ssid") \/ Ended)'
          /\ Trying("read_ssid") => (Trying("read_pass") \/ Ended)'
          /\ Trying("read_pass") => (Trying("set_config") \/ Ended)'
          /\ Trying("set_config") => (Trying("wait") \/ Ended)'
          /\ Trying("wait") => (Trying("mark") \/ Ended)'
    BY TrialMoves DEF Trying, After
  <1>4. TrialSafe /\ UpInv /\ OnTrial =>
          \/ Ended \/ Trying("save") \/ Trying("mark")
          \/ Trying("load") \/ Trying("default_id") \/ Trying("profile") \/ Trying("tasks")
          \/ Trying("wifi_init") \/ Trying("ssid") \/ Trying("pass") \/ Trying("read_ssid")
          \/ Trying("read_pass") \/ Trying("set_config") \/ Trying("wait")
    BY DEF TrialSafe, TypeOK, UpInv, Trying, Ended
  <1>5. BootCanGoOn =>
          /\ Trying("load") => ENABLED <<MainStep>>_vars
          /\ Trying("default_id") => ENABLED <<MainStep>>_vars
          /\ Trying("profile") => ENABLED <<MainStep>>_vars
          /\ Trying("tasks") => ENABLED <<MainStep>>_vars
          /\ Trying("wifi_init") => ENABLED <<MainStep>>_vars
          /\ Trying("ssid") => ENABLED <<MainStep>>_vars
          /\ Trying("pass") => ENABLED <<MainStep>>_vars
          /\ Trying("read_ssid") => ENABLED <<MainStep>>_vars
          /\ Trying("read_pass") => ENABLED <<MainStep>>_vars
          /\ Trying("set_config") => ENABLED <<MainStep>>_vars
          /\ Trying("wait") => ENABLED <<MainStep>>_vars
    BY DEF BootCanGoOn, Trying
  <1>6. OnTrial <=> standing[running] = "pending"
    BY DEF OnTrial
  <1>7. Ended <=> standing[running] = "valid" \/ main = "stopped"
    BY DEF Ended
  <1> QED
    BY <1>1, <1>2, <1>3, <1>4, <1>5, <1>6, <1>7, SaveGoesOn, MarkEnds, PTL DEF TrialEnds
===============================================================================
