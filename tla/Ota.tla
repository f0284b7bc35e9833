--------------------------------- MODULE Ota ---------------------------------
(***************************************************************************)
(* The update of the firmware (iot_ota.c): start requests, the tasks they    *)
(* create, the two slots and the confirmation of an image.                   *)
(*                                                                          *)
(* iot_ota_start turns a request away only while s_state is DOWNLOADING,     *)
(* which the new task sets, so that several tasks can be at work: all of     *)
(* them write the slot that does not run.  esp_https_ota and the boot loader *)
(* are external: an image that is not whole is never selected, and one that  *)
(* was started once and not confirmed is not started again.                  *)
(***************************************************************************)
EXTENDS Naturals

CONSTANT OtaTask         \* the tasks that there can be at once

VARIABLES
    image,      \* slot -> what it holds
    standing,   \* slot -> what the boot loader knows of it
    running,    \* the slot that runs
    target,     \* the slot that the boot loader tries first
    s_state,    \* what iot_ota_start looks at
    s_url,      \* the image that was asked for last
    task,       \* task -> where ota_task is
    quality,    \* task -> the image it fetches
    mixed,      \* task -> another task has written the slot since it began
    forced      \* plt.mark_ota_valid confirmed an image that had not started up

otaVars == <<image, standing, running, target, s_state, s_url, task, quality, mixed, forced>>

Slot == {0, 1}
Images == {"good", "bad"}       \* a bad one fails before the end of app_main
Other == 1 - running

OtaInit ==
    /\ image = [s \in Slot |-> "good"]
    /\ standing = [s \in Slot |-> "valid"]
    /\ running = 0
    /\ target = 0
    /\ s_state = "IDLE"
    /\ s_url = "good"
    /\ task = [t \in OtaTask |-> "none"]
    /\ quality = [t \in OtaTask |-> "good"]
    /\ mixed = [t \in OtaTask |-> FALSE]
    /\ forced = FALSE
-----------------------------------------------------------------------------
(* iot_ota_start, called by the command task *)

(* The URL is kept and the task created, unless there is no memory for it. *)
OtaStart(url) ==
    /\ s_state # "DOWNLOADING"
    /\ s_url' = url
    /\ \/ \E t \in OtaTask : task[t] = "none" /\ task' = [task EXCEPT ![t] = "start"]
       \/ UNCHANGED task
    /\ UNCHANGED <<image, standing, running, target, s_state, quality, mixed, forced>>

(* ota_task *)

OtaGoto(t, label) == task' = [task EXCEPT ![t] = label]

OtaDownloading(t) ==
    /\ task[t] = "start"
    /\ s_state' = "DOWNLOADING"
    /\ OtaGoto(t, "begin")
    /\ UNCHANGED <<image, standing, running, target, s_url, quality, mixed, forced>>

OtaFails(t) ==
    /\ s_state' = "FAIL"
    /\ OtaGoto(t, "none")
    /\ UNCHANGED <<image, standing, running, target, s_url, quality, mixed, forced>>

(* Whoever else writes the slot has it no longer for itself. *)
Overwrite(t) ==
    /\ image' = [image EXCEPT ![Other] = "partial"]
    /\ mixed' = [u \in OtaTask |-> u # t /\ (mixed[u] \/ task[u] = "perform")]

(* esp_https_ota_begin refuses while the running image is not confirmed.   *)
OtaBegin(t) ==
    /\ task[t] = "begin"
    /\ \/ OtaFails(t)
       \/ /\ standing[running] # "pending"
          /\ quality' = [quality EXCEPT ![t] = s_url]
          /\ Overwrite(t)
          /\ OtaGoto(t, "perform")
          /\ UNCHANGED <<standing, running, target, s_state, s_url, forced>>

(* esp_https_ota_perform has all of the image, or fails.  What two tasks   *)
(* have written at once is no image.                                        *)
OtaPerform(t) ==
    /\ task[t] = "perform"
    /\ \/ OtaFails(t)
       \/ /\ image' = [image EXCEPT ![Other] = IF mixed[t] THEN "partial" ELSE quality[t]]
          /\ mixed' = [u \in OtaTask |-> mixed[u] \/ (u # t /\ task[u] = "perform")]
          /\ s_state' = "VERIFY"
          /\ OtaGoto(t, "finish")
          /\ UNCHANGED <<standing, running, target, s_url, quality, forced>>

(* esp_https_ota_finish checks the slot and selects it. *)
OtaFinish(t) ==
    /\ task[t] = "finish"
    /\ \/ OtaFails(t)
       \/ /\ image[Other] # "partial"
          /\ standing' = [standing EXCEPT ![Other] = "new"]
          /\ target' = Other
          /\ s_state' = "REBOOT"
          /\ OtaGoto(t, "reboot")
          /\ UNCHANGED <<image, running, s_url, quality, mixed, forced>>

OtaStep(t) == OtaDownloading(t) \/ OtaBegin(t) \/ OtaPerform(t) \/ OtaFinish(t)

(* iot_ota_mark_valid *)
MarkValid == standing' = [standing EXCEPT ![running] = "valid"]
-----------------------------------------------------------------------------
(* The boot loader (external) *)
BootLoader ==
    LET refused == standing[target] = "pending" \/ image[target] = "partial"
        slot == IF refused THEN 1 - target ELSE target
    IN  /\ running' = slot
        /\ target' = slot
        /\ standing' = [s \in Slot |->
                          IF s # slot /\ standing[s] = "pending" THEN "aborted"
                          ELSE IF s = slot /\ standing[s] = "new" THEN "pending"
                          ELSE standing[s]]
        /\ UNCHANGED <<image, forced>>

(* A reset ends the tasks, wherever they are. *)
OtaReset ==
    /\ BootLoader
    /\ s_state' = "IDLE"
    /\ s_url' = "good"
    /\ task' = [t \in OtaTask |-> "none"]
    /\ quality' = [t \in OtaTask |-> "good"]
    /\ mixed' = [t \in OtaTask |-> FALSE]
===============================================================================
