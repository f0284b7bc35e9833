-------------------------------- MODULE Device --------------------------------
(***************************************************************************)
(* The device over its resets: app_main, the command task as far as it       *)
(* changes the configuration or the firmware, and the update tasks.  Power   *)
(* may fail between any two steps.                                           *)
(*                                                                          *)
(* A command is taken as a kind; how it gets to the command task is in       *)
(* Commands, what Wi-Fi and MQTT do with the credentials in Connectivity.     *)
(***************************************************************************)
EXTENDS ConfigStore, Ota

CONSTANTS
    MaxCommands,     \* bounds for model checking: the commands,
    MaxProvisions,   \* how many of them are provisionings,
    MaxCuts          \* how often the power fails

ASSUME MaxCommandsAssumption == MaxCommands \in Nat
ASSUME MaxProvisionsAssumption == MaxProvisions \in Nat
ASSUME MaxCutsAssumption == MaxCuts \in Nat

VARIABLES
    main,      \* where app_main is
    sem,       \* sensor_isr_sem exists
    isr,       \* the interrupt of the pulse input is installed
    cfg,       \* its copy of the configuration
    cmd,       \* where the command task is
    s_ssid,    \* the buffers of iot_wifi_start, which both tasks use,
    s_pass,
    wc,        \* task -> the wifi_config_t that it made of them
    driver,    \* what esp_wifi_set_config was given last
    given,     \* the credentials that iot_wifi_start was called with since the boot
    refused,   \* esp_wifi_set_config failed since the boot
    commands, provisions, cuts,    \* counted
    torn       \* a cut separated a new SSID from its password, on a provisioned device

wifiVars == <<s_ssid, s_pass, wc, driver, given, refused>>
countVars == <<commands, provisions, cuts, torn>>
pulseVars == <<sem, isr>>
vars == <<storeVars, otaVars, pulseVars, main, cfg, cmd, wifiVars, countVars>>

Pair(c) == [ssid |-> c["wifi_ssid"], pass |-> c["wifi_pass"]]
NoPair == Pair(Defaults)

Init ==
    /\ StoreInit
    /\ OtaInit
    /\ main = "load"
    /\ sem = FALSE
    /\ isr = FALSE
    /\ cfg = Defaults
    /\ cmd = "idle"
    /\ s_ssid = 0
    /\ s_pass = 0
    /\ wc = [t \in {"main", "cmd"} |-> NoPair]
    /\ driver = NoPair
    /\ given = {}
    /\ refused = FALSE
    /\ commands = 0
    /\ provisions = 0
    /\ cuts = 0
    /\ torn = FALSE
-----------------------------------------------------------------------------
(* app_main *)

MainGoto(label) == main' = label /\ UNCHANGED <<cmd, countVars, otaVars>>

(* nvs_bootstrap may have erased the keys. *)
MainLoad ==
    /\ main = "load"
    /\ \/ /\ Load(s_cfg')
          /\ UNCHANGED <<nvs, failed>>
       \/ /\ nvs' = Defaults
          /\ s_cfg' = Defaults
          /\ UNCHANGED <<failures, failed, unread>>
    /\ cfg' = s_cfg'
    /\ MainGoto("default_id")
    /\ UNCHANGED <<in, key, pulseVars, wifiVars>>

(* The identity is made when there is none, *)
MainDefaultId ==
    /\ main = "default_id"
    /\ IF cfg["device_id"] # 0
       THEN MainGoto("profile") /\ UNCHANGED <<cfg, in>>
       ELSE /\ cfg' = [cfg EXCEPT !["device_id"] = 1]
            /\ in' = cfg'
            /\ MainGoto("save")
    /\ UNCHANGED <<nvs, s_cfg, key, failures, failed, unread, pulseVars, wifiVars>>

(* and saved, or not. *)
MainSave ==
    /\ main = "save"
    /\ \/ (SaveOpens \/ SaveKey) /\ UNCHANGED main
       \/ (SaveEnds \/ SaveRefused) /\ main' = "profile"
    /\ UNCHANGED <<cfg, cmd, pulseVars, wifiVars, countVars, otaVars>>

(* iot_profile_init installs the interrupt of the pulse input, for which it  *)
(* takes the semaphore of the sensor task, if there is one.                  *)
MainProfile ==
    /\ main = "profile"
    /\ MainGoto("tasks")
    /\ isr' = sem
    /\ UNCHANGED <<storeVars, cfg, sem, wifiVars>>

(* A slip: the image is confirmed before it has done anything. *)
MainTasksMark ==
    /\ main = "tasks"
    /\ main' = "wifi_init"
    /\ sem' = TRUE
    /\ isr' = isr
    /\ MarkValid
    /\ UNCHANGED <<image, running, target, s_state, s_url, task, quality, mixed, forced>>
    /\ UNCHANGED <<storeVars, cfg, cmd, wifiVars, countVars>>

(* iot_tasks_start creates the semaphore, among others; after iot_ble_init   *)
(* commands are taken; then come iot_wifi_init and iot_mqtt_init.            *)
MainTasks ==
    /\ main = "tasks"
    /\ MainGoto("wifi_init")
    /\ sem' = TRUE
    /\ UNCHANGED <<storeVars, cfg, isr, wifiVars>>

(* app_main returns early when NVS, the profile or the tasks cannot be       *)
(* initialised: nothing restarts the device then, and no command comes in.   *)
MainStops ==
    /\ main \in {"load", "profile", "tasks"}
    /\ MainGoto("stopped")
    /\ UNCHANGED <<storeVars, cfg, pulseVars, wifiVars>>

MainWifiInit ==
    /\ main = "wifi_init"
    /\ IF cfg["provisioned"] # 0 /\ cfg["wifi_ssid"] # 0
       THEN given' = given \union {Pair(cfg)} /\ MainGoto("ssid")
       ELSE MainGoto("mark") /\ UNCHANGED given
    /\ UNCHANGED <<storeVars, cfg, pulseVars, s_ssid, s_pass, wc, driver, refused>>

(* iot_wifi_start, between any two accesses to the buffers of which the     *)
(* command task, of a higher priority, may run it too.                       *)
MainSsid ==
    /\ main = "ssid"
    /\ s_ssid' = cfg["wifi_ssid"]
    /\ s_pass' = 0
    /\ MainGoto("pass")
    /\ UNCHANGED <<storeVars, cfg, pulseVars, wc, driver, given, refused>>

MainPass ==
    /\ main = "pass"
    /\ s_pass' = cfg["wifi_pass"]
    /\ MainGoto("read_ssid")
    /\ UNCHANGED <<storeVars, cfg, pulseVars, s_ssid, wc, driver, given, refused>>

MainReadSsid ==
    /\ main = "read_ssid"
    /\ wc' = [wc EXCEPT !["main"].ssid = s_ssid]
    /\ MainGoto("read_pass")
    /\ UNCHANGED <<storeVars, cfg, pulseVars, s_ssid, s_pass, driver, given, refused>>

MainReadPass ==
    /\ main = "read_pass"
    /\ wc' = [wc EXCEPT !["main"].pass = s_pass]
    /\ MainGoto("set_config")
    /\ UNCHANGED <<storeVars, cfg, pulseVars, s_ssid, s_pass, driver, given, refused>>

(* esp_wifi_set_config may fail, which app_main ignores: it waits anyway.   *)
SetConfig(t) ==
    \/ driver' = wc[t] /\ UNCHANGED refused
    \/ refused' = TRUE /\ UNCHANGED driver

MainSetConfig ==
    /\ main = "set_config"
    /\ SetConfig("main")
    /\ MainGoto("wait")
    /\ UNCHANGED <<storeVars, cfg, pulseVars, s_ssid, s_pass, wc, given>>

(* A slip: the wait is for what the driver was given, without a timeout. *)
MainWaitForever ==
    /\ main = "wait"
    /\ driver # NoPair
    /\ MainGoto("mark")
    /\ UNCHANGED <<storeVars, cfg, pulseVars, wifiVars>>

(* 30 s for an address, with or without one. *)
MainWait ==
    /\ main = "wait"
    /\ MainGoto("mark")
    /\ UNCHANGED <<storeVars, cfg, pulseVars, wifiVars>>

(* A slip: an image is confirmed only when the device is on line. *)
MainMarkOnline ==
    /\ main = "mark"
    /\ image[running] = "good"
    /\ main' = "up"
    /\ IF driver = NoPair THEN UNCHANGED standing ELSE MarkValid
    /\ UNCHANGED <<image, running, target, s_state, s_url, task, quality, mixed, forced>>
    /\ UNCHANGED <<storeVars, cfg, cmd, pulseVars, wifiVars, countVars>>

(* A bad image does not get here. *)
MainMark ==
    /\ main = "mark"
    /\ image[running] = "good"
    /\ main' = "up"
    /\ MarkValid
    /\ UNCHANGED <<image, running, target, s_state, s_url, task, quality, mixed, forced>>
    /\ UNCHANGED <<storeVars, cfg, cmd, pulseVars, wifiVars, countVars>>

MainStep ==
    \/ MainLoad \/ MainDefaultId \/ MainSave \/ MainProfile \/ MainTasks \/ MainStops \/ MainWifiInit
    \/ MainSsid \/ MainPass \/ MainReadSsid \/ MainReadPass \/ MainSetConfig \/ MainWait \/ MainMark
-----------------------------------------------------------------------------
(* The command task.  cmd_task, the profile and the services lead it here.  *)

Serving == main \notin {"load", "default_id", "save", "profile", "tasks", "stopped"}

Taken ==
    /\ Serving
    /\ cmd = "idle"
    /\ commands < MaxCommands
    /\ commands' = commands + 1
    /\ UNCHANGED <<main, cfg, pulseVars, wifiVars, cuts, torn>>

(* iot_provision_apply_json, given both credentials, with the MQTT keys or  *)
(* without: what it makes of the record that it loads.  (Without an SSID, in *)
(* the command or in the record, it would save provisioned as false.)        *)
Provisioned(c, n, mqtt) ==
    [k \in Key |->
        IF \/ k \in {"wifi_ssid", "wifi_pass"}
           \/ mqtt /\ k \in {"mqtt_uri", "mqtt_user", "mqtt_pass"} THEN n
        ELSE IF k \in {"device_id", "provisioned"} THEN 1
        ELSE c[k]]

CmdProvision ==
    /\ Taken
    /\ provisions < MaxProvisions
    /\ provisions' = provisions + 1
    /\ Load(s_cfg')
    /\ \E mqtt \in BOOLEAN : in' = Provisioned(s_cfg', provisions', mqtt)
    /\ cmd' = "save_provision"
    /\ UNCHANGED <<nvs, key, failed, otaVars>>

(* plt.set_sample_ms, plt.set_cloud. *)
CmdSetting ==
    /\ Taken
    /\ Load(s_cfg')
    /\ \E k \in {"sample_ms", "cloud"}, v \in 0..1 : in' = [s_cfg' EXCEPT ![k] = v]
    /\ cmd' = "save_setting"
    /\ UNCHANGED <<nvs, key, failed, provisions, otaVars>>

(* plt.factory_reset: the driver keeps what it has. *)
CmdFactoryReset ==
    /\ Taken
    /\ in' = Defaults
    /\ cmd' = "save_reset"
    /\ UNCHANGED <<nvs, s_cfg, key, failures, failed, unread, provisions, otaVars>>

Saving == cmd \in {"save_provision", "save_setting", "save_reset"}

(* A slip: Wi-Fi is started although nothing was saved. *)
CmdSaveIgnored ==
    /\ Saving
    /\ \/ (SaveOpens \/ SaveKey) /\ UNCHANGED cmd
       \/ (SaveEnds \/ SaveRefused) /\ cmd' = IF cmd = "save_provision" THEN "wifi" ELSE "idle"
    /\ UNCHANGED <<main, cfg, pulseVars, wifiVars, countVars, otaVars>>

(* A command whose save gives up goes no further.  Wi-Fi is started after a *)
(* provisioning.                                                             *)
CmdSave ==
    /\ Saving
    /\ \/ (SaveOpens \/ SaveKey) /\ UNCHANGED cmd
       \/ SaveEnds /\ cmd' = IF cmd = "save_provision" THEN "wifi" ELSE "idle"
       \/ SaveRefused /\ cmd' = "idle"
    /\ UNCHANGED <<main, cfg, pulseVars, wifiVars, countVars, otaVars>>

(* iot_wifi_start, which app_main does not interrupt before it waits for    *)
(* the driver.                                                               *)
CmdWifi ==
    /\ cmd = "wifi"
    /\ cmd' = "set_config"
    /\ s_ssid' = in["wifi_ssid"]
    /\ s_pass' = in["wifi_pass"]
    /\ wc' = [wc EXCEPT !["cmd"] = Pair(in)]
    /\ given' = given \union {Pair(in)}
    /\ UNCHANGED <<storeVars, otaVars, pulseVars, main, cfg, driver, refused, countVars>>

(* There is no driver to set before iot_wifi_init. *)
CmdSetConfig ==
    /\ cmd = "set_config"
    /\ cmd' = "idle"
    /\ SetConfig("cmd")
    /\ driver' # driver => main # "wifi_init"
    /\ UNCHANGED <<storeVars, otaVars, pulseVars, main, cfg, s_ssid, s_pass, wc, given, countVars>>

(* {"ota_url": ...} and plt.ota; plt.mark_ota_valid. *)
CmdOta ==
    /\ Taken
    /\ \E url \in Images : OtaStart(url)
    /\ UNCHANGED <<storeVars, cmd, provisions>>

CmdMarkValid ==
    /\ Taken
    /\ MarkValid
    /\ forced' = (forced \/ standing[running] = "pending")
    /\ UNCHANGED <<image, running, target, s_state, s_url, task, quality, mixed>>
    /\ UNCHANGED <<storeVars, cmd, provisions>>

CmdGoesOn == CmdSave \/ CmdWifi \/ CmdSetConfig

CmdStep == CmdProvision \/ CmdSetting \/ CmdFactoryReset \/ CmdOta \/ CmdMarkValid \/ CmdGoesOn
-----------------------------------------------------------------------------
(* Resets *)

(* Everything in RAM is as at the start. *)
Reset ==
    /\ OtaReset
    /\ s_cfg' = Defaults
    /\ in' = Defaults
    /\ key' = 0
    /\ main' = "load"
    /\ sem' = FALSE
    /\ isr' = FALSE
    /\ cfg' = Defaults
    /\ cmd' = "idle"
    /\ s_ssid' = 0
    /\ s_pass' = 0
    /\ wc' = [t \in {"main", "cmd"} |-> NoPair]
    /\ driver' = NoPair
    /\ given' = {}
    /\ refused' = FALSE
    /\ torn' = \/ torn
               \/ /\ cmd = "save_provision"
                  /\ s_cfg["provisioned"] # 0
                  /\ Place["wifi_ssid"] < key /\ key <= Place["wifi_pass"]
    /\ UNCHANGED <<nvs, failures, failed, unread, commands, provisions>>

PowerCut == cuts < MaxCuts /\ cuts' = cuts + 1 /\ Reset

(* A bad image fails once the tasks run. *)
Crash == image[running] = "bad" /\ main = "mark" /\ Reset /\ UNCHANGED cuts

(* ota_task restarts the device, whatever the other tasks are doing. *)
OtaReboot == (\E t \in OtaTask : task[t] = "reboot") /\ Reset /\ UNCHANGED cuts

OtaStepOf(t) ==
    /\ OtaStep(t)
    /\ UNCHANGED <<storeVars, pulseVars, main, cfg, cmd, wifiVars, countVars>>

Next == MainStep \/ CmdStep \/ (\E t \in OtaTask : OtaStepOf(t)) \/ PowerCut \/ Crash \/ OtaReboot

Spec == Init /\ [][Next]_vars

(* app_main runs on and a bad image fails.  A power cut never has to happen. *)
FairSpec == Spec /\ WF_vars(MainStep) /\ WF_vars(Crash)
-----------------------------------------------------------------------------
TypeOK ==
    /\ nvs \in Config /\ s_cfg \in Config /\ in \in Config /\ cfg \in Config
    /\ key \in 0..Keys + 1
    /\ failures \in 0..MaxFailures
    /\ failed \in BOOLEAN /\ unread \in BOOLEAN
    /\ image \in [Slot -> Images \union {"partial"}]
    /\ standing \in [Slot -> {"valid", "new", "pending", "aborted"}]
    /\ running \in Slot /\ target \in Slot
    /\ s_state \in {"IDLE", "DOWNLOADING", "VERIFY", "REBOOT", "FAIL"}
    /\ s_url \in Images
    /\ task \in [OtaTask -> {"none", "start", "begin", "perform", "finish", "reboot"}]
    /\ quality \in [OtaTask -> Images]
    /\ mixed \in [OtaTask -> BOOLEAN]
    /\ forced \in BOOLEAN
    /\ sem \in BOOLEAN /\ isr \in BOOLEAN
    /\ main \in {"load", "default_id", "save", "profile", "tasks", "wifi_init", "ssid", "pass",
                 "read_ssid", "read_pass", "set_config", "wait", "mark", "up", "stopped"}
    /\ cmd \in {"idle", "save_provision", "save_setting", "save_reset", "wifi", "set_config"}
    /\ s_ssid \in Nat /\ s_pass \in Nat
    /\ wc \in [{"main", "cmd"} -> [ssid: Nat, pass: Nat]]
    /\ driver \in [ssid: Nat, pass: Nat]
    /\ \A p \in given : p \in [ssid: Nat, pass: Nat]
    /\ refused \in BOOLEAN
    /\ commands \in 0..MaxCommands /\ provisions \in 0..MaxProvisions /\ cuts \in 0..MaxCuts
    /\ torn \in BOOLEAN

(* iot_config_get and NVS agree between two saves: what a task sees is what *)
(* the next boot will see.  (iot_config_save writes the keys first and       *)
(* replaces the copy when it is through.)  It takes an nvs_set that failed   *)
(* unnoticed, or a load that went on without NVS, to part them.              *)
CacheIsStored ==
    key = 0 /\ main \notin {"load", "stopped"} /\ ~failed /\ ~unread => s_cfg = nvs

(* A provisioned device has an SSID and a password of one provisioning in   *)
(* NVS, whenever the power may have failed: the flag is written after them.  *)
(* The exceptions: a device that was provisioned already, where a cut        *)
(* between the two keys leaves the new SSID with the old password, also when *)
(* it does not know because NVS could not be opened (unread), and an nvs_set *)
(* that failed unnoticed (failed).                                           *)
WholePair ==
    nvs["provisioned"] # 0 /\ nvs["wifi_ssid"] # 0 /\ nvs["wifi_pass"] # nvs["wifi_ssid"]
        => \/ failed \/ unread \/ torn
           \/ cmd = "save_provision" /\ s_cfg["provisioned"] # 0

(* What Wi-Fi was given is what the next boot will give it: on a device that *)
(* app_main left to be provisioned, the driver never has credentials that    *)
(* are not the stored ones.                                                  *)
DriverIsStored ==
    cmd = "idle" /\ cfg["provisioned"] = 0 /\ nvs["wifi_ssid"] # 0 /\ ~failed /\ ~refused
        => driver \in {NoPair, Pair(nvs)}

(* A command that changes a setting leaves the credentials alone, and so     *)
(* does the boot: a provisioning, a factory reset and nvs_bootstrap change   *)
(* them, and nvs_set calls that fail do not matter.  There is one way more,  *)
(* which iot_config_load opens: NVS cannot be opened (unread), and the boot  *)
(* saves its identity, or a command its setting, with the credentials of a   *)
(* copy that is not the stored one.                                          *)
SettingsKeepCredentials ==
    [][\/ Pair(nvs') = Pair(nvs)
       \/ unread /\ Pair(s_cfg) # Pair(nvs)
       \/ main = "load"
       \/ cmd \in {"save_provision", "save_reset"}]_vars

(* There is an image to go back to: while the one that runs is not confirmed *)
(* the other slot has a good one, and none was confirmed that does not get   *)
(* through app_main, unless plt.mark_ota_valid was used too early.           *)
Recoverable ==
    /\ image[running] # "partial"
    /\ \/ forced
       \/ standing[running] = "pending" /\ image[Other] = "good" /\ standing[Other] = "valid"
       \/ standing[running] = "valid" /\ image[running] = "good"

(* The two slots, seen from the image to go back to. *)
OnTrial == standing[running] = "pending"
Home == image[IF OnTrial THEN Other ELSE running]
Guest == image[IF OnTrial THEN running ELSE Other]
Phase == IF OnTrial THEN "trial" ELSE IF target = running THEN "aside" ELSE "ready"

Update == INSTANCE SafeUpdate
            WITH home <- Home, guest <- Guest, phase <- Phase, started <- main # "load"

(* Overlapping updates, cuts and crashes never do more than SafeUpdate: the  *)
(* image to go back to is not written, what is tried is tried for one start, *)
(* and only an image that got through app_main takes its place, unless       *)
(* plt.mark_ota_valid was used too early.                                    *)
UpdateSpec == Update!Spec

(* Nothing holds app_main up for good: no missing network, no refused call,  *)
(* no failure of NVS and no command; it goes on until it is up or has given  *)
(* up, and where it cannot, at the end of a bad image, that image fails.     *)
BootCanGoOn ==
    /\ main \notin {"up", "stopped"} /\ (main = "mark" => image[running] = "good")
         => ENABLED <<MainStep>>_vars
    /\ main = "mark" /\ image[running] = "bad" => ENABLED <<Crash>>_vars

(* iot_wifi.h calls the manager thread-safe: what the driver gets is a pair  *)
(* that somebody called iot_wifi_start with.                                 *)
WifiIsThreadSafe == driver = NoPair \/ driver \in given

(* What the review of the integration traces: a pulse on the GPIO raises the *)
(* interrupt, which wakes sensor_task, on the products with a pulse input.   *)
PulsesAreCounted == Serving => isr

(* A new image does not stay on trial: app_main confirms it, with or without *)
(* a network, or a reset brings back the old one.  Only the early returns of *)
(* app_main leave it there, on a device that does nothing any more.          *)
TrialEnds ==
    standing[running] = "pending" ~> standing[running] = "valid" \/ main = "stopped"
===============================================================================
