------------------------- MODULE BootControl_proofs -------------------------
(***************************************************************************)
(* The safety of the boot control HAL, for any number of slots.            *)
(***************************************************************************)
EXTENDS BootControl, TLAPS

(* What the properties rest on: the slot set active last is alone at the    *)
(* top, its attempts are accounted for, damaged metadata has no such slot,  *)
(* and a call in progress is about that slot.                               *)
ActiveOnTop ==
  active # None => /\ priority[active] = kActivePriority
                   /\ \A r \in Slot \ {active} : priority[r] < kActivePriority

DamageForgets == ~valid => active = None

CallInProgress ==
  /\ service = "up" => booted # None
  /\ call # "none" => /\ service = "up"
                      /\ active = target
                      /\ tries[active] > 0
  /\ call \in EnvNames => image = target

IInv == DeviceTypes /\ ActiveOnTop /\ DamageForgets /\ GivenUpAfterTries /\ CallInProgress

(* No slot, None, is not a slot. *)
LEMMA NoneIsNoSlot == None \notin Slot
BY SlotsAssumption DEF None, Slot, kMaxNumSlots

(* A device as it leaves the factory satisfies the invariant. *)
LEMMA InitIInv == Init => IInv
<1> SUFFICES ASSUME Init PROVE IInv
  OBVIOUS
<1> USE SlotsAssumption DEF Init, kMaxNumSlots
<1>1. 0 \in Slot
  BY DEF Slot
<1>2. DeviceTypes
  <2>1. priority \in [Slot -> 0..15] /\ tries \in [Slot -> 0..7]
    BY DEF DefaultPriority, DefaultTries, kDefaultBootAttempts
  <2>2. successful \in [Slot -> BOOLEAN] /\ valid \in BOOLEAN
    BY DEF DefaultSuccessful
  <2> QED BY <1>1, <2>1, <2>2 DEF DeviceTypes, kActiveTries
<1> QED BY <1>2 DEF IInv, ActiveOnTop, DamageForgets, GivenUpAfterTries, CallInProgress, EnvNames

-----------------------------------------------------------------------------
(* The power. *)

(* The bootloader's choice uses up an attempt for every one it counts. *)
LEMMA PowerOnIInv ==
  ASSUME IInv, NEW s \in Slot, PowerOn(s)
  PROVE  IInv'
<1> USE DEF PowerOn
<1>1. DeviceTypes /\ tries[s] \in 1..7 /\ UNCHANGED <<priority, successful, active, valid>>
  BY DEF IInv, DeviceTypes, Best, Bootable
<1>2. /\ tries' \in [Slot -> 0..7]
      /\ tries'[s] = IF successful[s] THEN tries[s] ELSE tries[s] - 1
      /\ \A r \in Slot \ {s} : tries'[r] = tries[r]
  <2>1. CASE successful[s]
    BY <2>1, <1>1 DEF DeviceTypes
  <2>2. CASE ~ successful[s]
    BY <2>2, <1>1 DEF DeviceTypes
  <2> QED BY <2>1, <2>2
<1>3. GivenUpAfterTries' /\ attempts' \in 0..kActiveTries
  <2>1. active \in Slot \union {None} /\ attempts \in 0..kActiveTries
    BY <1>1 DEF DeviceTypes
  <2>2. CASE s = active /\ ~ successful[s]
    <3>1. attempts + tries[s] = kActiveTries /\ active # None
      BY <2>2, NoneIsNoSlot DEF IInv, GivenUpAfterTries
    <3>2. attempts' = attempts + 1 /\ tries'[s] = tries[s] - 1
      BY <2>2, <1>2
    <3>3. attempts' + tries'[active'] = kActiveTries /\ attempts' \in 0..kActiveTries
      BY <3>1, <3>2, <2>1, <2>2, <1>1 DEF kActiveTries
    <3> QED BY <3>3 DEF GivenUpAfterTries
  <2>3. CASE s # active \/ successful[s]
    <3>1. attempts' = attempts
      BY <2>3
    <3>2. ASSUME active # None, ~ successful[active]
          PROVE  tries'[active] = tries[active]
      BY <3>2, <2>1, <2>3, <1>2
    <3>3. UNCHANGED <<active, successful>>
      BY <1>1
    <3> QED BY <2>1, <3>1, <3>2, <3>3 DEF IInv, GivenUpAfterTries
  <2> QED BY <2>2, <2>3
<1>4. CallInProgress'
  <2>1. call = "none" /\ service # "up"
    BY DEF IInv, CallInProgress
  <2> QED BY <2>1 DEF CallInProgress, calls, EnvNames
<1>5. DeviceTypes'
  BY <1>1, <1>2, <1>3 DEF DeviceTypes, calls
<1> QED BY <1>1, <1>3, <1>4, <1>5 DEF IInv, ActiveOnTop, DamageForgets

(* Metadata the bootloader has repaired has no slot set active. *)
LEMMA RepairIInv ==
  ASSUME IInv, Repair
  PROVE  IInv'
<1> USE DEF Repair
<1>1. active = None /\ UNCHANGED <<active, attempts, call, target, service, booted, image>>
  BY DEF IInv, DamageForgets, calls, history
<1>2. priority' \in [Slot -> 0..15] /\ tries' \in [Slot -> 0..7]
  BY DEF DefaultPriority, DefaultTries, kDefaultBootAttempts
<1>3. successful' \in [Slot -> BOOLEAN] /\ valid' \in BOOLEAN
  BY DEF DefaultSuccessful
<1>4. CallInProgress'
  BY <1>1 DEF IInv, CallInProgress, EnvNames
<1>5. DeviceTypes'
  BY <1>2, <1>3 DEF IInv, DeviceTypes, calls, history
<1> QED BY <1>1, <1>4, <1>5 DEF IInv, ActiveOnTop, DamageForgets, GivenUpAfterTries

(* Power losses and crashes keep it, the damage they may do included. *)
LEMMA PowerLossIInv ==
  ASSUME IInv, PowerLoss \/ Crash
  PROVE  IInv'
<1>1. /\ UNCHANGED <<priority, tries, successful, target, attempts>>
      /\ image' = image \/ image' = Torn
      /\ service' = "down" /\ call' = "none" /\ reply' = "none"
      /\ booted' = booted \/ booted' = None
      /\ UNCHANGED <<valid, active>> \/ (valid' = FALSE /\ active' = None)
      /\ env' = env
  BY DEF PowerLoss, Crash, Interrupted, Damage
<1>2. valid' \in BOOLEAN
  BY <1>1 DEF IInv, DeviceTypes
<1>3. DeviceTypes'
  BY <1>1, <1>2 DEF IInv, DeviceTypes
<1>4. CallInProgress'
  BY <1>1 DEF CallInProgress, EnvNames
<1>5. CASE UNCHANGED <<valid, active>>
  BY <1>1, <1>3, <1>4, <1>5 DEF IInv, ActiveOnTop, DamageForgets, GivenUpAfterTries
<1>6. CASE valid' = FALSE /\ active' = None
  BY <1>3, <1>4, <1>6 DEF IInv, ActiveOnTop, DamageForgets, GivenUpAfterTries
<1> QED BY <1>1, <1>5, <1>6

(* Metadata damaged behind the HAL's back has no slot set active. *)
LEMMA CorruptIInv ==
  ASSUME IInv, Corrupt
  PROVE  IInv'
<1> USE DEF Corrupt, Damage
<1>1. priority' \in [Slot -> 0..15] /\ tries' \in [Slot -> 0..7]
  BY DEF kActivePriority, kDefaultBootAttempts
<1>2. valid' \in BOOLEAN
  OBVIOUS
<1>3. DeviceTypes'
  BY <1>1, <1>2 DEF IInv, DeviceTypes, calls
<1>4. CallInProgress'
  BY DEF IInv, CallInProgress, calls, EnvNames
<1> QED BY <1>3, <1>4 DEF IInv, ActiveOnTop, DamageForgets, GivenUpAfterTries

-----------------------------------------------------------------------------
(* The HAL. *)

(* Init keeps valid metadata as it is, and replaces damaged metadata, which
   has no slot set active. *)
LEMMA StartIInv ==
  ASSUME IInv, Start
  PROVE  IInv'
<1> USE DEF Start, LoadMetadata
<1>1. UNCHANGED <<image, env, booted, call, target, reply, active, attempts>>
  BY DEF calls, history
<1>2. CallInProgress'
  BY <1>1 DEF IInv, CallInProgress, EnvNames
<1>3. CASE UNCHANGED misc
  <2>1. DeviceTypes'
    BY <1>1, <1>3 DEF IInv, DeviceTypes, misc
  <2> QED BY <1>1, <1>2, <1>3, <2>1 DEF IInv, misc, ActiveOnTop, DamageForgets, GivenUpAfterTries
<1>4. CASE ~ UNCHANGED misc
  <2>1. active = None
    BY <1>4 DEF IInv, DamageForgets
  <2>2. priority' \in [Slot -> 0..15] /\ tries' \in [Slot -> 0..7]
    BY <1>4 DEF DefaultPriority, DefaultTries, kDefaultBootAttempts
  <2>3. successful' \in [Slot -> BOOLEAN] /\ valid' \in BOOLEAN
    BY <1>4 DEF DefaultSuccessful
  <2>4. DeviceTypes'
    BY <1>1, <2>2, <2>3 DEF IInv, DeviceTypes
  <2> QED BY <1>1, <1>2, <2>1, <2>4 DEF IInv, ActiveOnTop, DamageForgets, GivenUpAfterTries
<1> QED BY <1>3, <1>4

(* A slot marked successful is no longer counted. *)
LEMMA MarkIInv ==
  ASSUME IInv, MarkBootSuccessful
  PROVE  IInv'
<1> USE DEF MarkBootSuccessful
<1>1. UNCHANGED <<priority, image, booted, service, call, target, reply, active, attempts>>
  BY DEF calls, history
<1>2. booted \in Slot /\ call = "none"
  BY DEF Ready, IInv, CallInProgress, DeviceTypes
<1>3. successful' \in [Slot -> BOOLEAN] /\ valid' \in BOOLEAN /\ valid' = TRUE
  BY <1>2 DEF IInv, DeviceTypes
<1>4. tries' \in [Slot -> 0..7]
  BY <1>2 DEF IInv, DeviceTypes
<1>5. DeviceTypes'
  BY <1>1, <1>3, <1>4 DEF IInv, DeviceTypes
<1>6. GivenUpAfterTries'
  <2>1. successful'[booted]
    BY <1>2 DEF IInv, DeviceTypes
  <2>2. ASSUME active # None, ~ successful'[active]
        PROVE  attempts + tries'[active] = kActiveTries
    <3>1. active # booted /\ active \in Slot
      BY <2>1, <2>2 DEF IInv, DeviceTypes
    <3>2. ~ successful[active] /\ tries'[active] = tries[active]
      BY <2>2, <3>1 DEF IInv, DeviceTypes
    <3> QED BY <2>2, <3>2 DEF IInv, GivenUpAfterTries
  <2> QED BY <1>1, <2>2 DEF GivenUpAfterTries
<1>7. CallInProgress'
  BY <1>1, <1>2 DEF IInv, CallInProgress, EnvNames
<1> QED BY <1>1, <1>3, <1>5, <1>6, <1>7 DEF IInv, ActiveOnTop, DamageForgets

(* A slot declared unbootable is given up. *)
LEMMA UnbootableIInv ==
  ASSUME IInv, NEW s \in Slot, SetSlotAsUnbootable(s)
  PROVE  IInv'
<1> USE DEF SetSlotAsUnbootable
<1>1. /\ UNCHANGED <<priority, image, booted, service, call, target, reply, attempts>>
      /\ (active' = active /\ active # s) \/ active' = None
  BY DEF calls
<1>2. successful' \in [Slot -> BOOLEAN] /\ valid' \in BOOLEAN /\ valid' = TRUE
  BY DEF IInv, DeviceTypes
<1>3. tries' \in [Slot -> 0..7]
  BY DEF IInv, DeviceTypes
<1>4. DeviceTypes'
  BY <1>1, <1>2, <1>3 DEF IInv, DeviceTypes
<1>5. GivenUpAfterTries'
  <2>1. ASSUME active' # None, ~ successful'[active']
        PROVE  attempts' + tries'[active'] = kActiveTries
    <3>1. active' = active /\ active # s /\ active \in Slot
      BY <1>1, <2>1 DEF IInv, DeviceTypes
    <3>2. tries'[active] = tries[active]
      BY <3>1 DEF IInv, DeviceTypes
    <3>3. ~ successful[active]
      BY <3>1, <2>1 DEF IInv, DeviceTypes
    <3> QED BY <1>1, <2>1, <3>1, <3>2, <3>3 DEF IInv, GivenUpAfterTries
  <2> QED BY <2>1 DEF GivenUpAfterTries
<1>6. CallInProgress'
  BY <1>1 DEF IInv, CallInProgress, Ready, EnvNames
<1> QED BY <1>1, <1>2, <1>4, <1>5, <1>6 DEF IInv, ActiveOnTop, DamageForgets

(* The slot set active is put alone at the top, with all its attempts. *)
LEMMA SetActiveIInv ==
  ASSUME IInv, NEW s \in Slot, SetActiveBootSlot(s)
  PROVE  IInv'
<1> USE DEF SetActiveBootSlot
<1>1. priority' \in [Slot -> 0..15]
  BY DEF IInv, DeviceTypes, Raised, kActivePriority
<1>2. tries' \in [Slot -> 0..7] /\ tries'[s] = kActiveTries /\ attempts' \in 0..kActiveTries
  BY DEF IInv, DeviceTypes, kActiveTries
<1>3. valid' \in BOOLEAN /\ valid' = TRUE
  OBVIOUS
<1>4. DeviceTypes'
  BY <1>1, <1>2, <1>3 DEF IInv, DeviceTypes
<1>5. ActiveOnTop'
  <2>1. priority'[s] = kActivePriority
    BY DEF Raised
  <2>2. \A r \in Slot \ {s} : priority'[r] < kActivePriority
    BY DEF IInv, DeviceTypes, Raised, kActivePriority
  <2> QED BY <2>1, <2>2 DEF ActiveOnTop
<1>6. GivenUpAfterTries'
  BY <1>2 DEF GivenUpAfterTries, kActiveTries
<1>7. CallInProgress'
  <2>1. active' = s /\ target' = s /\ tries'[s] > 0 /\ service' = "up" /\ booted' # None
    BY <1>2 DEF Ready, IInv, CallInProgress, kActiveTries
  <2>2. call' \notin EnvNames
    BY DEF EnvNames
  <2> QED BY <2>1, <2>2 DEF CallInProgress
<1> QED BY <1>3, <1>4, <1>5, <1>6, <1>7 DEF IInv, DamageForgets

(* The merge status is apart from everything else.                          *)
LEMMA MergeIInv ==
  ASSUME IInv, NEW status, SetSnapshotMergeStatus(status)
  PROVE  IInv'
<1>1. UNCHANGED <<misc, image, env, booted, service, calls, history>>
  BY DEF SetSnapshotMergeStatus
<1> QED BY <1>1 DEF IInv, DeviceTypes, ActiveOnTop, DamageForgets, GivenUpAfterTries,
                    CallInProgress, misc, calls, history

(* The rest of a call leaves the metadata alone.                            *)
LEMMA CallIInv ==
  ASSUME IInv, SetActiveFailed \/ ImageWritten \/ ImageFailed \/ SetBootloaderIndex
  PROVE  IInv'
<1>1. UNCHANGED <<misc, booted, service, target, history>>
  BY DEF SetActiveFailed, ImageWritten, ImageFailed, SetBootloaderIndex
<1>2. DeviceTypes'
  <2>1. CASE SetActiveFailed
    BY <2>1 DEF SetActiveFailed, IInv, DeviceTypes, misc, history
  <2>2. CASE ImageWritten
    BY <2>2 DEF ImageWritten, Following, EnvNames, IInv, DeviceTypes, misc, history
  <2>3. CASE ImageFailed
    BY <2>3 DEF ImageFailed, IInv, DeviceTypes, misc, history
  <2>4. CASE SetBootloaderIndex
    BY <2>4 DEF SetBootloaderIndex, Following, EnvNames, IInv, DeviceTypes, misc, history
  <2> QED BY <2>1, <2>2, <2>3, <2>4
<1>3. CallInProgress'
  <2>1. /\ call' # "none" => call # "none"
        /\ call' \in EnvNames => (call \in EnvNames /\ image' = image) \/ image' = target
    BY DEF SetActiveFailed, ImageWritten, ImageFailed, SetBootloaderIndex, Following, EnvNames, Ready
  <2> QED BY <1>1, <2>1 DEF IInv, CallInProgress, misc, history
<1> QED BY <1>1, <1>2, <1>3 DEF IInv, ActiveOnTop, DamageForgets, GivenUpAfterTries, misc, history

(* Every step of the device keeps the invariant. *)
LEMMA NextIInv == IInv /\ [Next]_vars => IInv'
<1> SUFFICES ASSUME IInv, [Next]_vars PROVE IInv'
  OBVIOUS
<1>1. CASE UNCHANGED vars
  BY <1>1 DEF vars, misc, calls, history, IInv, DeviceTypes, ActiveOnTop, DamageForgets,
              GivenUpAfterTries, CallInProgress
<1> QED BY <1>1, PowerOnIInv, RepairIInv, PowerLossIInv, CorruptIInv, StartIInv, MarkIInv,
           UnbootableIInv, SetActiveIInv, MergeIInv, CallIInv DEF Next

-----------------------------------------------------------------------------
(* The slot at the top is the bootloader's only choice. *)
LEMMA TopIsBest == IInv => ActivatedSlotBoots
<1> SUFFICES ASSUME IInv, active # None, tries[active] > 0 PROVE Best = {active}
  BY DEF ActivatedSlotBoots
<1>1. /\ active \in Slot
      /\ \A s \in Slot : priority[s] \in 0..15
      /\ priority[active] = 15
      /\ \A r \in Slot \ {active} : priority[r] < 15
  BY DEF IInv, DeviceTypes, ActiveOnTop, kActivePriority
<1>2. active \in Bootable
  BY <1>1 DEF Bootable
<1>3. active \in Best
  BY <1>1, <1>2 DEF Best, Bootable
<1>4. ASSUME NEW s \in Best, s # active
      PROVE  FALSE
  <2>1. s \in Slot /\ priority[active] <= priority[s]
    BY <1>2 DEF Best, Bootable
  <2> QED BY <1>1, <1>4, <2>1
<1> QED BY <1>3, <1>4

(* The slot set active last is the bootloader's next choice while it has    *)
(* attempts left, for any number of slots: ActivatedSlotBoots.              *)
THEOREM ActivatedSlotIsTried == Spec => []ActivatedSlotBoots
BY InitIInv, NextIInv, TopIsBest, PTL DEF Spec

(* A slot set active that never boots successfully gets exactly             *)
(* kActiveTries attempts, 6 and not the 7 of kDefaultBootAttempts:          *)
(* GivenUpAfterTries.                                                       *)
THEOREM FailingSlotIsGivenUp == Spec => []GivenUpAfterTries
<1>1. IInv => GivenUpAfterTries
  BY DEF IInv
<1> QED BY <1>1, InitIInv, NextIInv, PTL DEF Spec

(* A real update reported as a success has switched both the slot and the   *)
(* image, whatever power losses and failures there were: nothing but the    *)
(* call itself can have moved on from its first step.                       *)
THEOREM SuccessIsComplete == Spec => SuccessMeansSwitched
<1>1. ASSUME IInv, [Next]_vars, call # "none", call' = "none", reply' = "success"
      PROVE  image = active /\ Best = {active}
  <2>1. service = "up" /\ booted # None /\ active = target /\ tries[active] > 0
    BY <1>1 DEF IInv, CallInProgress
  <2>2. call \in EnvNames
    BY <1>1, <2>1 DEF Next, vars, calls, PowerOn, Repair, PowerLoss, Crash, Interrupted, Damage, Corrupt, Start,
       LoadMetadata, SetSnapshotMergeStatus,
       MarkBootSuccessful, SetSlotAsUnbootable, SetActiveBootSlot, SetActiveFailed, Ready,
       ImageWritten, ImageFailed, SetBootloaderIndex, Following
  <2>3. image = active
    BY <1>1, <2>1, <2>2 DEF IInv, CallInProgress
  <2>4. active # None
    BY <1>1, <2>1, NoneIsNoSlot DEF IInv, DeviceTypes
  <2> QED BY <1>1, <2>1, <2>3, <2>4, TopIsBest DEF ActivatedSlotBoots
<1>2. IInv /\ [Next]_vars =>
        [call # "none" /\ call' = "none" /\ reply' = "success"
           => image = active /\ Best = {active}]_vars
  BY <1>1
<1> QED BY <1>2, InitIInv, NextIInv, PTL DEF Spec, SuccessMeansSwitched

(* Only MarkBootSuccessful makes a slot successful whose metadata is sound. *)
LEMMA SuccessIsMarked ==
  ASSUME IInv, [Next]_vars, NEW s \in Slot, Succeeds(s), valid'
  PROVE  MarkBootSuccessful /\ s = booted
<1>1. valid /\ successful[s] = FALSE /\ successful'[s] /\ successful' # successful
  BY DEF Succeeds, IInv, DeviceTypes
<1>2. ASSUME NEW r \in Slot, PowerOn(r) \/ SetSlotAsUnbootable(r) \/ SetActiveBootSlot(r)
      PROVE  FALSE
  <2>1. CASE PowerOn(r)
    BY <1>1, <2>1 DEF PowerOn
  <2>2. CASE SetSlotAsUnbootable(r)
    <3>1. successful' = [successful EXCEPT ![r] = FALSE]
      BY <2>2 DEF SetSlotAsUnbootable
    <3> QED BY <1>1, <3>1 DEF IInv, DeviceTypes
  <2>3. CASE SetActiveBootSlot(r)
    BY <1>1, <2>3 DEF SetActiveBootSlot
  <2> QED BY <1>2, <2>1, <2>2, <2>3
<1>3. ~(Repair \/ Corrupt)
  BY <1>1 DEF Repair, Corrupt, Damage
<1>4. ~(Start \/ PowerLoss \/ Crash)
  BY <1>1 DEF Start, LoadMetadata, PowerLoss, Crash, Interrupted, misc
<1>5. ~(\/ \E status \in MergeStatus : SetSnapshotMergeStatus(status)
        \/ SetActiveFailed \/ ImageWritten \/ ImageFailed \/ SetBootloaderIndex
        \/ UNCHANGED vars)
  BY <1>1 DEF SetSnapshotMergeStatus, SetActiveFailed, ImageWritten, ImageFailed,
              SetBootloaderIndex, misc, vars
<1>6. MarkBootSuccessful
  BY <1>2, <1>3, <1>4, <1>5 DEF Next
<1>7. successful' = [successful EXCEPT ![booted] = TRUE]
  BY <1>6 DEF MarkBootSuccessful
<1> QED BY <1>1, <1>6, <1>7 DEF IInv, DeviceTypes

(* The way back stays open: a slot that succeeds is trusted, and only a     *)
(* call to SetSlotAsUnbootable, or damage, takes the trust away.            *)
THEOREM FallbackIsKept == Spec => FallbackRemains
<1>1. ASSUME IInv, [Next]_vars, NEW s \in Slot, Trusted(s), valid', ~ SetSlotAsUnbootable(s)
      PROVE  Trusted(s)'
  <2>1. /\ tries[s] > 0 /\ priority[s] > 0 /\ successful[s] /\ valid
        /\ tries[s] \in 0..7 /\ priority[s] \in 0..15
    BY <1>1 DEF Trusted, Bootable, IInv, DeviceTypes
  <2>2. DeviceTypes
    BY <1>1 DEF IInv
  <2>3. tries'[s] > 0 /\ priority'[s] > 0 /\ successful'[s]
    <3>1. CASE UNCHANGED misc
      BY <2>1, <3>1 DEF misc
    <3>2. ASSUME NEW r \in Slot, PowerOn(r)
          PROVE  tries'[s] > 0 /\ priority'[s] > 0 /\ successful'[s]
      <4>1. tries'[s] = tries[s]
        BY <2>1, <2>2, <3>2 DEF PowerOn, DeviceTypes
      <4> QED BY <2>1, <3>2, <4>1 DEF PowerOn
    <3>3. CASE MarkBootSuccessful
      <4>1. tries'[s] = tries[s] \/ tries'[s] = 1
        BY <2>2, <3>3 DEF MarkBootSuccessful, DeviceTypes
      <4>2. successful'[s]
        BY <2>1, <2>2, <3>3 DEF MarkBootSuccessful, DeviceTypes
      <4> QED BY <2>1, <3>3, <4>1, <4>2 DEF MarkBootSuccessful
    <3>4. ASSUME NEW r \in Slot, SetSlotAsUnbootable(r)
          PROVE  tries'[s] > 0 /\ priority'[s] > 0 /\ successful'[s]
      <4>1. r # s
        BY <1>1, <3>4
      <4>2. successful'[s]
        BY <2>1, <2>2, <3>4, <4>1 DEF SetSlotAsUnbootable, DeviceTypes
      <4> QED BY <2>1, <2>2, <3>4, <4>1, <4>2 DEF SetSlotAsUnbootable, DeviceTypes
    <3>5. ASSUME NEW r \in Slot, SetActiveBootSlot(r)
          PROVE  tries'[s] > 0 /\ priority'[s] > 0 /\ successful'[s]
      <4>1. tries'[s] = tries[s] \/ tries'[s] = kActiveTries
        BY <2>2, <3>5 DEF SetActiveBootSlot, DeviceTypes
      <4>2. priority'[s] > 0
        BY <2>1, <3>5 DEF SetActiveBootSlot, Raised, kActivePriority
      <4> QED BY <2>1, <3>5, <4>1, <4>2 DEF SetActiveBootSlot, kActiveTries
    <3>6. CASE Start \/ PowerLoss \/ Crash
      BY <1>1, <2>1, <3>1, <3>6 DEF Start, LoadMetadata, PowerLoss, Crash, Interrupted, Damage, misc
    <3>7. CASE Repair \/ Corrupt
      BY <1>1, <2>1, <3>7 DEF Repair, Corrupt, Damage
    <3>8. CASE \/ \E status \in MergeStatus : SetSnapshotMergeStatus(status)
               \/ SetActiveFailed \/ ImageWritten \/ ImageFailed \/ SetBootloaderIndex \/ UNCHANGED vars
      BY <3>1, <3>8 DEF SetSnapshotMergeStatus, SetActiveFailed, ImageWritten, ImageFailed, SetBootloaderIndex, vars
    <3> QED BY <1>1, <3>2, <3>3, <3>4, <3>5, <3>6, <3>7, <3>8 DEF Next
  <2> QED BY <1>1, <2>3 DEF Trusted, Bootable
<1>2. ASSUME IInv, [Next]_vars, NEW s \in Slot, Succeeds(s), valid'
      PROVE  Trusted(s)'
  <2>1. MarkBootSuccessful /\ s = booted
    BY <1>2, SuccessIsMarked
  <2>2. tries'[s] = 1
    BY <1>2, <2>1 DEF MarkBootSuccessful, IInv, DeviceTypes
  <2>3. priority'[s] > 0 /\ successful'[s]
    BY <1>2, <2>1 DEF MarkBootSuccessful, Succeeds
  <2> QED BY <1>2, <2>2, <2>3 DEF Trusted, Bootable
<1>3. IInv /\ [Next]_vars =>
        [\A s \in Slot : (Trusted(s) \/ Succeeds(s)) /\ ~Trusted(s)'
                         => SetSlotAsUnbootable(s) \/ ~valid']_vars
  BY <1>1, <1>2
<1> QED BY <1>3, InitIInv, NextIInv, PTL DEF Spec, FallbackRemains

(* What a step does to the message: nothing, unless it initialises it, sets *)
(* the status or damages it.                                                *)
LEMMA MessageSteps ==
  ASSUME [Next]_vars
  PROVE  \/ message' = message
         \/ message = Blank /\ message' = Fresh
         \/ \E status \in MergeStatus : SetSnapshotMergeStatus(status)
         \/ ~valid' /\ message' = Blank
<1>1. CASE UNCHANGED vars
  BY <1>1 DEF vars
<1>2. CASE PowerLoss \/ Corrupt
  BY <1>2 DEF PowerLoss, Corrupt, Damage
<1>3. CASE Start
  BY <1>3 DEF Start, InitMiscVirtualAbMessageIfNeeded
<1>4. CASE Repair \/ Crash \/ MarkBootSuccessful
  BY <1>4 DEF Repair, Crash, MarkBootSuccessful
<1>5. CASE \E s \in Slot : PowerOn(s) \/ SetSlotAsUnbootable(s) \/ SetActiveBootSlot(s)
  BY <1>5 DEF PowerOn, SetSlotAsUnbootable, SetActiveBootSlot
<1>6. CASE SetActiveFailed \/ ImageWritten \/ ImageFailed \/ SetBootloaderIndex
  BY <1>6 DEF SetActiveFailed, ImageWritten, ImageFailed, SetBootloaderIndex
<1> QED BY <1>1, <1>2, <1>3, <1>4, <1>5, <1>6 DEF Next

(* No crash, restart, failed Init, power loss or change of slots alters     *)
(* what a slot is told about a merge: MergeIsRemembered.                    *)
THEOREM MergeIsKept == Spec => MergeIsRemembered
<1>1. ASSUME [Next]_vars, NEW s \in Slot,
             GetSnapshotMergeStatus(s)' # GetSnapshotMergeStatus(s), valid'
      PROVE  \E status \in MergeStatus : SetSnapshotMergeStatus(status)
  <2>1. message' # message
    BY <1>1 DEF GetSnapshotMergeStatus
  <2>2. ~(message = Blank /\ message' = Fresh)
    BY <1>1 DEF GetSnapshotMergeStatus, Blank, Fresh
  <2> QED BY <1>1, <2>1, <2>2, MessageSteps
<1>2. [Next]_vars =>
        [\A s \in Slot :
           GetSnapshotMergeStatus(s)' # GetSnapshotMergeStatus(s) =>
             (\E status \in MergeStatus : SetSnapshotMergeStatus(status)) \/ ~valid']_vars
  BY <1>1
<1> QED BY <1>2, PTL DEF Spec, MergeIsRemembered

(* The metadata fits its bit fields, three bits of tries and four of        *)
(* priority, and the message names a slot once it is there: TypeOK.         *)
THEOREM TypeCorrect == Spec => []TypeOK
<1> DEFINE MessageType == message \in Message \union {Blank}
<1>1. Init => MessageType
  BY DEF Init
<1>2. IInv /\ MessageType /\ [Next]_vars => MessageType'
  <2> SUFFICES ASSUME IInv, MessageType, [Next]_vars PROVE MessageType'
    OBVIOUS
  <2>1. Fresh \in Message
    BY SlotsAssumption DEF Fresh, Message, MergeStatus, Slot, kMaxNumSlots
  <2>2. ASSUME NEW status \in MergeStatus, SetSnapshotMergeStatus(status)
        PROVE  message' \in Message
    <3>1. booted \in Slot
      BY <2>2 DEF SetSnapshotMergeStatus, Ready, IInv, DeviceTypes, CallInProgress
    <3> QED BY <2>2, <3>1 DEF SetSnapshotMergeStatus, Message
  <2> QED BY <2>1, <2>2, MessageSteps
<1>3. IInv /\ MessageType => TypeOK
  BY DEF IInv, TypeOK
<1> QED BY <1>1, <1>2, <1>3, InitIInv, NextIInv, PTL DEF Spec
=============================================================================
