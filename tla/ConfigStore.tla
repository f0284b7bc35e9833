----------------------------- MODULE ConfigStore -----------------------------
(***************************************************************************)
(* The runtime configuration (iot_config.c): the copy in RAM and the keys   *)
(* of the NVS namespace, which a save writes one after another.              *)
(*                                                                          *)
(* A value is a number: 0 is the default, which a load also gives to a key   *)
(* that was never written, and n the value that the nth provisioning gave.   *)
(* NVS itself is external; a write is durable when it returns.               *)
(***************************************************************************)
EXTENDS Naturals

CONSTANT MaxFailures     \* how many NVS calls fail, for model checking

ASSUME MaxFailuresAssumption == MaxFailures \in Nat

VARIABLES
    nvs,       \* the keys of the namespace
    s_cfg,     \* the copy in RAM
    in,        \* the record that a task has changed, and saves
    key,       \* the place of the key to be written next, 0 while the namespace is closed
    failures,  \* how many calls failed
    failed,    \* a key was not written, and nobody was told
    unread     \* a load went on with the copy in RAM instead of the keys

storeVars == <<nvs, s_cfg, in, key, failures, failed, unread>>

(* A slip: the flag is written before the credentials. *)
PlaceFlagFirst ==
    [device_id |-> 1, provisioned |-> 2, wifi_ssid |-> 3, wifi_pass |-> 4, mqtt_uri |-> 5,
     mqtt_user |-> 6, mqtt_pass |-> 7, sample_ms |-> 8, cloud |-> 9]

(* The order in which the keys are written. *)
Place ==
    [device_id |-> 1, wifi_ssid |-> 2, wifi_pass |-> 3, mqtt_uri |-> 4, mqtt_user |-> 5,
     mqtt_pass |-> 6, sample_ms |-> 7, provisioned |-> 8, cloud |-> 9]

Key == {"device_id", "wifi_ssid", "wifi_pass", "mqtt_uri", "mqtt_user", "mqtt_pass",
        "sample_ms", "provisioned", "cloud"}

Keys == 9

Config == [Key -> Nat]

Defaults == [k \in Key |-> 0]

StoreInit ==
    /\ nvs = Defaults
    /\ s_cfg = Defaults
    /\ in = Defaults
    /\ key = 0
    /\ failures = 0
    /\ failed = FALSE
    /\ unread = FALSE
-----------------------------------------------------------------------------
(* A slip: a namespace that cannot be opened is taken for an empty one. *)
LoadDefaults(c) ==
    \/ /\ c = nvs
       /\ UNCHANGED <<failures, unread>>
    \/ /\ failures < MaxFailures
       /\ c = Defaults
       /\ failures' = failures + 1
       /\ unread' = (unread \/ nvs # s_cfg)

(* iot_config_load: what it returns becomes the copy.  When the namespace   *)
(* cannot be opened the copy stays, and is returned.                         *)
Load(c) ==
    \/ /\ c = nvs
       /\ UNCHANGED <<failures, unread>>
    \/ /\ failures < MaxFailures
       /\ c = s_cfg
       /\ failures' = failures + 1
       /\ unread' = (unread \/ nvs # s_cfg)

(* iot_config_save opens the namespace, or gives up. *)
SaveOpens ==
    /\ key = 0
    /\ key' = 1
    /\ UNCHANGED <<nvs, s_cfg, in, failures, failed, unread>>

SaveRefused ==
    /\ key = 0
    /\ failures < MaxFailures
    /\ failures' = failures + 1
    /\ UNCHANGED <<nvs, s_cfg, in, key, failed, unread>>

(* A slip: there is one key more. *)
SaveKeyMore ==
    /\ key \in 1..Keys + 1
    /\ key' = key + 1
    /\ \/ /\ \E k \in Key : Place[k] = key /\ nvs' = [nvs EXCEPT ![k] = in[k]]
          /\ UNCHANGED <<failures, failed>>
       \/ /\ failures < MaxFailures
          /\ failures' = failures + 1
          /\ failed' = TRUE
          /\ UNCHANGED nvs
    /\ UNCHANGED <<s_cfg, in, unread>>

(* One nvs_set, whose error is ignored. *)
SaveKey ==
    /\ key \in 1..Keys
    /\ key' = key + 1
    /\ \/ /\ \E k \in Key : Place[k] = key /\ nvs' = [nvs EXCEPT ![k] = in[k]]
          /\ UNCHANGED <<failures, failed>>
       \/ /\ failures < MaxFailures
          /\ failures' = failures + 1
          /\ failed' = TRUE
          /\ UNCHANGED nvs
    /\ UNCHANGED <<s_cfg, in, unread>>

(* A slip: the copy is not renewed. *)
SaveEndsOldCopy ==
    /\ key = Keys + 1
    /\ key' = 0
    /\ UNCHANGED <<nvs, s_cfg, in, failures, failed, unread>>

(* After the last key the copy follows. *)
SaveEnds ==
    /\ key = Keys + 1
    /\ key' = 0
    /\ s_cfg' = in
    /\ UNCHANGED <<nvs, in, failures, failed, unread>>
===============================================================================
