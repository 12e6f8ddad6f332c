---------------------------- MODULE BootControl ----------------------------
(***************************************************************************)
(* boot_ctrl/1.1: the boot control HAL. It keeps the A/B metadata of the   *)
(* slots in the misc partition, copies the bootloader image of a slot that *)
(* becomes active, and asks the bootloader, through its environment, to    *)
(* try that image. The bootloader, which is not part of the repository,    *)
(* reads all three at power on.                                            *)
(*                                                                         *)
(* The HAL serves one call at a time. Power may be lost, or the process    *)
(* die, between any two steps of a call and in the middle of a write; a    *)
(* write may also fail.                                                    *)
(* The misc partition also holds how far the merge of a snapshot is. The   *)
(* verity bit, which is set and never read, is left out.                   *)
(***************************************************************************)
EXTENDS Integers

CONSTANTS
  NumSlots,    \* nb_slot
  CanCorrupt   \* whether the metadata may be damaged

kMaxNumSlots         == 4
kDefaultBootAttempts == 7
kActivePriority      == 15
kActiveTries         == 6

ASSUME SlotsAssumption == NumSlots \in 1..kMaxNumSlots /\ CanCorrupt \in BOOLEAN

Slot == 0..NumSlots - 1
None == -1
Torn == -2                   \* a bootloader image that was written in part

EnvNames == {"reboot_status", "expect_index", "update_env"}

(* The steps of a real SetActiveBootSlot once misc is written, in order. *)
Following == [image         |-> "reboot_status",
              reboot_status |-> "expect_index",
              expect_index  |-> "update_env",
              update_env    |-> "none"]

(* What is set; NONE, UNKNOWN and CANCELLED are kept the way MERGING is. *)
MergeStatus == {"SNAPSHOTTED", "MERGING"}

(* misc_virtual_ab_message: Blank without its magic number and version. *)
Message == [merge_status : MergeStatus \union {"NONE"}, source_slot : Slot]
Blank   == [merge_status |-> "NONE", source_slot |-> None]
Fresh   == [merge_status |-> "NONE", source_slot |-> 0]

VARIABLES
  message,     \* the virtual A/B message in misc
  priority,    \* slot_info[s].priority in misc
  tries,       \* slot_info[s].tries_remaining
  successful,  \* slot_info[s].successful_boot
  valid,       \* whether crc32_le matches
  image,       \* the slot whose image is in the partition "bootloader"
  env,         \* the variables of EnvNames set since the last boot
  booted,      \* current_slot_: the running slot, None while the power is off
  service,     \* whether Init has succeeded since
  call,        \* the step a SetActiveBootSlot is at, past its write of misc
  target,      \* the slot of that call
  reply,       \* what the last call that set a slot active returned
  active,      \* the slot set active last, unless it was given up since
  attempts     \* how often the bootloader has chosen it since

misc    == <<priority, tries, successful, valid>>
calls   == <<call, target, reply>>
history == <<active, attempts>>
vars == <<message, misc, image, env, booted, service, calls, history>>

(* Metadata, image, environment and call are what the source's types hold. *)
DeviceTypes ==
  /\ priority \in [Slot -> 0..15]
  /\ tries \in [Slot -> 0..7]
  /\ successful \in [Slot -> BOOLEAN]
  /\ valid \in BOOLEAN
  /\ image \in Slot \union {Torn}
  /\ env \subseteq EnvNames
  /\ booted \in Slot \union {None}
  /\ service \in {"down", "up"}
  /\ call \in {"none", "image"} \union EnvNames
  /\ target \in Slot
  /\ reply \in {"none", "success", "failure"}
  /\ active \in Slot \union {None}
  /\ attempts \in 0..kActiveTries

(* The types of the device's state, and of the message. *)
TypeOK == DeviceTypes /\ message \in Message \union {Blank}

(* InitDefaultBootloaderControl: every slot may be tried, and the running   *)
(* one is taken to be successful.                                           *)
DefaultPriority       == [s \in Slot |-> 7]
DefaultTries          == [s \in Slot |-> kDefaultBootAttempts]
DefaultSuccessful(on) == [s \in Slot |-> s = on]

Init ==
  /\ message = Blank
  /\ priority = DefaultPriority
  /\ tries = DefaultTries
  /\ successful = DefaultSuccessful(0)
  /\ valid = TRUE
  /\ image = 0
  /\ env = {}
  /\ booted = None
  /\ service = "down"
  /\ call = "none"
  /\ target = 0
  /\ reply = "none"
  /\ active = None
  /\ attempts = 0

-----------------------------------------------------------------------------
(* The bootloader and the power. *)

Bootable == {s \in Slot : tries[s] > 0 /\ priority[s] > 0}
Best     == {s \in Bootable : \A r \in Bootable : priority[r] <= priority[s]}

(* The bootloader takes the slot of the highest priority that has attempts  *)
(* left, and uses one up unless the slot has been successful before.        *)
PowerOn(s) ==
  /\ booted = None
  /\ valid
  /\ s \in Best
  /\ booted' = s
  /\ tries' = [tries EXCEPT ![s] = IF successful[s] THEN @ ELSE @ - 1]
  /\ attempts' = IF s = active /\ ~successful[s] THEN attempts + 1 ELSE attempts
  /\ env' = {}
  /\ UNCHANGED <<message, priority, successful, valid, image, service, calls, active>>

(* Damaged metadata: the bootloader repairs it first. *)
Repair == /\ booted = None
          /\ ~valid
          /\ priority' = DefaultPriority
          /\ tries' = DefaultTries
          /\ successful' = DefaultSuccessful(None)
          /\ valid' = TRUE
          /\ UNCHANGED <<message, image, env, booted, service, calls, history>>

(* The HAL stops, wherever it is in a call or in the middle of a write. *)
Interrupted == /\ service' = "down"
               /\ call' = "none"
               /\ reply' = "none"
               /\ \/ image' = image
                  \/ call = "image" /\ image' = Torn
               /\ UNCHANGED <<priority, tries, successful, env, target, attempts>>

(* The process dies; init starts the service again. *)
Crash == /\ service = "up"
         /\ Interrupted
         /\ UNCHANGED <<message, valid, booted, active>>

(* The metadata in misc is damaged, and the message perhaps too. *)
Damage == /\ valid' = FALSE
          /\ active' = None
          /\ message' \in {message, Blank}

(* Power is lost or the device reboots. *)
PowerLoss ==
  /\ booted # None
  /\ booted' = None
  /\ Interrupted
  /\ \/ UNCHANGED <<message, valid, active>>
     \/ CanCorrupt /\ Damage

(* Metadata damaged since boot, before the HAL has looked at it. *)
Corrupt == /\ CanCorrupt
           /\ booted # None
           /\ service = "down"
           /\ valid
           /\ Damage
           /\ priority' \in [Slot -> {0, kActivePriority}]
           /\ tries' \in [Slot -> {0, kDefaultBootAttempts}]
           /\ successful' \in [Slot -> BOOLEAN]
           /\ UNCHANGED <<image, env, booted, service, calls, attempts>>

-----------------------------------------------------------------------------
(* The HAL. *)

(* Metadata whose checksum is wrong is initialised anew; whether that could *)
(* be saved is not looked at.                                               *)
LoadMetadata ==
  \/ valid /\ UNCHANGED misc
  \/ /\ ~valid
     /\ priority' = DefaultPriority
     /\ tries' = DefaultTries
     /\ successful' = DefaultSuccessful(booted)
     /\ valid' = TRUE
  \/ ~valid /\ UNCHANGED misc

(* Faulty variants of definitions, such as InitAgain, show that the         *)
(* properties notice a slip in the code; the model does not use them.       *)
InitAgain == message' = Fresh

InitMiscVirtualAbMessageIfNeeded ==
  message' = IF message = Blank THEN Fresh ELSE message

(* Init; without the message the service ends, and is started again. *)
Start == /\ booted # None
         /\ service = "down"
         /\ LoadMetadata
         /\ \/ InitMiscVirtualAbMessageIfNeeded /\ service' = "up"
            \/ UNCHANGED <<message, service>>
         /\ UNCHANGED <<image, env, booted, calls, history>>

Ready == service = "up" /\ call = "none"

(* LoadBootloaderControl does not look at the checksum, and                *)
(* UpdateAndSaveBootloaderControl makes it right. A call whose load or     *)
(* save fails has changed nothing and is not modelled, except where it     *)
(* replies.                                                                *)
MarkTriesOnly ==
  /\ Ready
  /\ tries' = [tries EXCEPT ![booted] = 1]
  /\ valid' = TRUE
  /\ UNCHANGED <<message, priority, successful, image, env, booted, service, calls, history>>

MarkWithoutTries ==
  /\ Ready
  /\ successful' = [successful EXCEPT ![booted] = TRUE]
  /\ UNCHANGED tries
  /\ valid' = TRUE
  /\ UNCHANGED <<message, priority, image, env, booted, service, calls, history>>

MarkBootSuccessful ==
  /\ Ready
  /\ successful' = [successful EXCEPT ![booted] = TRUE]
  /\ tries' = [tries EXCEPT ![booted] = 1]
  /\ valid' = TRUE
  /\ UNCHANGED <<message, priority, image, env, booted, service, calls, history>>

SetSlotAsUnbootable(s) ==
  /\ Ready
  /\ successful' = [successful EXCEPT ![s] = FALSE]
  /\ tries' = [tries EXCEPT ![s] = 0]
  /\ valid' = TRUE
  /\ active' = IF active = s THEN None ELSE active
  /\ UNCHANGED <<message, priority, image, env, booted, service, calls, attempts>>

RaisedOnly(s)  == [priority EXCEPT ![s] = kActivePriority]

(* Every other slot gets a lower priority than the new active one. *)
Raised(s) == [r \in Slot |-> IF r = s THEN kActivePriority
                             ELSE IF priority[r] >= kActivePriority THEN kActivePriority - 1
                             ELSE priority[r]]

(* SetActiveBootSlot saves the metadata; for a real update it goes on to    *)
(* the bootloader image and the environment, for tests and fastbootd it     *)
(* returns.                                                                 *)
SetActiveBootSlot(s) ==
  /\ Ready
  /\ priority' = Raised(s)
  /\ tries' = [tries EXCEPT ![s] = kActiveTries]
  /\ valid' = TRUE
  /\ active' = s
  /\ attempts' = 0
  /\ target' = s
  /\ \/ call' = "image" /\ reply' = "none"
     \/ call' = "none" /\ reply' = "success"
  /\ UNCHANGED <<message, successful, image, env, booted, service>>

SetActiveFailed == /\ Ready
                   /\ reply' = "failure"
                   /\ UNCHANGED <<message, misc, image, env, booted, service, call, target, history>>

(* write_bootloader_img *)
ImageWritten == /\ call = "image"
                /\ image' = target
                /\ call' = Following[call]
                /\ UNCHANGED <<message, misc, env, booted, service, target, reply, history>>

ImageFailedIgnored == /\ call = "image"
                      /\ image' \in {image, Torn}
                      /\ call' = Following[call]
                      /\ UNCHANGED <<message, misc, env, booted, service, target, reply, history>>

(* It fails before it has written anything, or with a short write. *)
ImageFailed == /\ call = "image"
               /\ image' \in {image, Torn}
               /\ call' = "none"
               /\ reply' = "failure"
               /\ UNCHANGED <<message, misc, env, booted, service, target, history>>

(* SetBootloaderIndex: three variables, one by one; whether a variable      *)
(* could be set is not looked at.                                           *)
SetBootloaderIndex ==
  /\ call \in EnvNames
  /\ env' \in {env, env \union {call}}
  /\ call' = Following[call]
  /\ reply' = IF call' = "none" THEN "success" ELSE reply
  /\ UNCHANGED <<message, misc, image, booted, service, target, history>>

(* The status of a merge, and the slot that was running when it was set. *)
SetSnapshotMergeStatus(status) ==
  /\ Ready
  /\ message' = [merge_status |-> status, source_slot |-> booted]
  /\ UNCHANGED <<misc, image, env, booted, service, calls, history>>

Next == \/ \E s \in Slot : PowerOn(s) \/ SetSlotAsUnbootable(s) \/ SetActiveBootSlot(s)
        \/ Repair \/ PowerLoss \/ Corrupt \/ Crash
        \/ Start \/ MarkBootSuccessful
        \/ \E status \in MergeStatus : SetSnapshotMergeStatus(status)
        \/ SetActiveFailed \/ ImageWritten \/ ImageFailed \/ SetBootloaderIndex

Spec == Init /\ [][Next]_vars
-----------------------------------------------------------------------------
(* Properties. *)

Trusted(s) == valid /\ successful[s] /\ s \in Bootable

Succeeds(s) == valid /\ priority[s] > 0 /\ ~successful[s] /\ successful'[s]

(* The way back stays open: a slot that boots successfully, be it in its    *)
(* last attempt, is bootable from then on, through updates, failed          *)
(* attempts, power losses and failing calls, until it is declared           *)
(* unbootable or the metadata is damaged. (MarkBootSuccessful's reset of    *)
(* tries_remaining, SetActiveBootSlot's care for the other slots, the       *)
(* bootloader's counting.)                                                  *)
FallbackRemains ==
  [][\A s \in Slot : (Trusted(s) \/ Succeeds(s)) /\ ~Trusted(s)'
                     => SetSlotAsUnbootable(s) \/ ~valid']_vars

(* The slot set active last is the one the bootloader tries next, as long   *)
(* as it has attempts left, however the slots were ranked before.           *)
ActivatedSlotBoots ==
  active # None /\ tries[active] > 0 => Best = {active}

(* A slot set active gets kActiveTries attempts, neither more nor fewer,     *)
(* until it boots successfully or is declared unbootable: what was used up  *)
(* and what is left add up, however calls, failures and power losses        *)
(* interleave. (The number is SetActiveBootSlot's own. The comment at       *)
(* libboot_control.cpp:47-49 says that kDefaultBootAttempts, 7, "should be  *)
(* made from a new slot before rolling back", but only the default metadata *)
(* gives a slot as many, :297; a slot an update has made active gets 6,     *)
(* :417. The property states what the code does.)                           *)
GivenUpAfterTries ==
  active # None /\ ~successful[active] => attempts + tries[active] = kActiveTries

(* A real update that is reported as a success has both switched the slot   *)
(* and put the bootloader image of that slot in place, whatever happened    *)
(* between the two.                                                         *)
SuccessMeansSwitched ==
  [][call # "none" /\ call' = "none" /\ reply' = "success"
       => image = active /\ Best = {active}]_vars

(* What slot s is told: a snapshot that was taken while s itself was        *)
(* running is thrown away when s boots again.                               *)
GetSnapshotMergeStatus(s) ==
  IF message.merge_status = "SNAPSHOTTED" /\ message.source_slot = s
  THEN "NONE" ELSE message.merge_status

(* A merge under way is not forgotten: from the first start on, no crash,   *)
(* restart, failed Init, power loss or change of slots alters what a slot   *)
(* is told about it, only a call that sets the status or damage does.       *)
MergeIsRemembered ==
  [][\A s \in Slot :
       GetSnapshotMergeStatus(s)' # GetSnapshotMergeStatus(s) =>
         (\E status \in MergeStatus : SetSnapshotMergeStatus(status)) \/ ~valid']_vars

=============================================================================
