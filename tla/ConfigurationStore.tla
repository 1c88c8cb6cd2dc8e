---- MODULE ConfigurationStore ----
(***************************************************************************)
(* services/util/ConfigurationStore.cpp: a configuration kept in one of    *)
(* two flash blobs, written alternately, with a third blob for the         *)
(* factory default. A write goes to the blob that is erased, and the other *)
(* one is erased after it; the device may lose power at any moment.        *)
(*                                                                         *)
(* Everything runs on the dispatching thread. Flash operations take time:  *)
(* `operation' is the one in progress, its action is its completion        *)
(* together with the callbacks that follow, and Crash interrupts it.       *)
(* A configuration is a version number; a blob that holds one has a        *)
(* matching hash (ConfigurationBlobFlash::BlobIsValid).                    *)
(***************************************************************************)
EXTENDS Integers, FiniteSetsExt

CONSTANTS MaxVersion,    \* bound on the number of changes to the configuration
          MaxOperations, \* bound on operationId
          MaxLocks,      \* bound on lockCount
          MaxCrashes     \* bound on the number of power failures

ASSUME BoundsAssumption == {MaxVersion, MaxOperations, MaxLocks, MaxCrashes} \subseteq Nat

VARIABLES
    flash,              \* contents of the flash of each blob
    operation,          \* the flash operation in progress
    blob,               \* the RAM buffer that all blobs share
    activeBlob,         \* the blob that is written next; the other one is inactiveBlob
    configuration,      \* the configuration in RAM
    success,            \* whether recovery found a valid blob
    factoryDefaultRead, \* whether the factory default was valid
    recovered,          \* onRecovered was called: with TRUE for a factory default
    writeRequested, lockCount, operationId,
    writeId,            \* thisId of the write in progress
    crashes,            \* number of power failures
    latest,             \* history: the newest version
    requests,           \* history: identifiers returned by Write, with the version at the time
    acknowledged        \* history: the newest version of which the write was reported done

ramVars == <<blob, activeBlob, configuration, success, factoryDefaultRead, recovered>>
writeVars == <<writeRequested, lockCount, operationId, writeId>>
vars == <<flash, operation, ramVars, writeVars, crashes, latest, requests, acknowledged>>

Default == 0       \* the factory default blob, and the version in it
Blobs == {Default, 1, 2}
Versions == 0 .. MaxVersion
Erased == -1       \* contents of a flash
Torn == -2         \* contents after an interrupted operation: no matching hash
Valid(contents) == contents \in Versions

inactiveBlob == 3 - activeBlob

Erasing == [eraseDefault |-> Default, eraseInactive |-> inactiveBlob, eraseOld |-> inactiveBlob,
            eraseBoth |-> inactiveBlob, eraseBothActive |-> activeBlob]
Writing == [writeDefault |-> Default, writeBlob |-> activeBlob]
Operations == DOMAIN Erasing \cup DOMAIN Writing \cup
              {"none", "readDefault", "readFirst", "readSecond", "checkInactive"}

TypeOK ==
    /\ flash \in [Blobs -> Versions \cup {Erased, Torn}]
    /\ operation \in Operations
    /\ blob \in Versions \cup {Erased, Torn}
    /\ activeBlob \in {1, 2}
    /\ configuration \in Versions
    /\ success \in BOOLEAN /\ factoryDefaultRead \in BOOLEAN
    /\ recovered \in {"no", "stored", "default"}
    /\ writeRequested \in BOOLEAN
    /\ lockCount \in 0 .. MaxLocks
    /\ operationId \in 0 .. MaxOperations + 1
    /\ writeId \in 0 .. MaxOperations
    /\ crashes \in 0 .. MaxCrashes
    /\ latest \in Versions /\ acknowledged \in Versions
    /\ requests \subseteq [id : Nat, version : Versions]

\* The store is constructed, and Recover is called
Init ==
    /\ flash = [b \in Blobs |-> Erased]
    /\ operation = "readDefault"
    /\ blob = Erased
    /\ activeBlob = 1
    /\ configuration = Default
    /\ success = FALSE
    /\ factoryDefaultRead = FALSE
    /\ recovered = "no"
    /\ writeRequested = FALSE
    /\ lockCount = 0
    /\ operationId = 0
    /\ writeId = 0
    /\ crashes = 0
    /\ latest = Default
    /\ requests = {}
    /\ acknowledged = Default

----------------------------------------------------------------------------
(* ConfigurationBlobFlash *)

EraseFlash(b) == flash' = [flash EXCEPT ![b] = Erased]

\* Writing requires an erased flash; otherwise the verification stops the program
WriteFlash(b) == /\ flash[b] = Erased
                 /\ flash' = [flash EXCEPT ![b] = blob]

----------------------------------------------------------------------------
(* FactoryDefaultConfigurationStoreBase::Recover *)

DefaultRead ==
    /\ operation = "readDefault"
    /\ blob' = flash[Default]
    /\ factoryDefaultRead' = Valid(flash[Default])
    /\ configuration' = Default
    /\ operation' = IF Valid(flash[Default]) THEN "readFirst" ELSE "eraseDefault"
    /\ UNCHANGED <<flash, activeBlob, success, recovered, writeVars, crashes, latest, requests, acknowledged>>

DefaultErased ==
    /\ operation = "eraseDefault"
    /\ EraseFlash(Default)
    /\ blob' = configuration
    /\ operation' = "writeDefault"
    /\ UNCHANGED <<activeBlob, configuration, success, factoryDefaultRead, recovered, writeVars, crashes, latest, requests, acknowledged>>

DefaultWritten ==
    /\ operation = "writeDefault"
    /\ WriteFlash(Default)
    /\ operation' = "readFirst"
    /\ UNCHANGED <<ramVars, writeVars, crashes, latest, requests, acknowledged>>

----------------------------------------------------------------------------
(* ConfigurationStoreBase::Recover *)

FirstRead ==
    /\ operation = "readFirst"
    /\ blob' = flash[activeBlob]
    /\ success' = Valid(flash[activeBlob])
    /\ IF Valid(flash[activeBlob]) THEN operation' = "checkInactive" /\ UNCHANGED activeBlob
                                   ELSE operation' = "readSecond" /\ activeBlob' = inactiveBlob
    /\ UNCHANGED <<flash, configuration, factoryDefaultRead, recovered, writeVars, crashes, latest, requests, acknowledged>>

SecondRead ==
    /\ operation = "readSecond"
    /\ blob' = flash[activeBlob]
    /\ success' = Valid(flash[activeBlob])
    /\ operation' = "checkInactive"
    /\ UNCHANGED <<flash, activeBlob, configuration, factoryDefaultRead, recovered, writeVars, crashes, latest, requests, acknowledged>>

\* A variant with a mistake: the stored configuration is not used
DeserializeNever == configuration

\* Deserialize: the configuration in the RAM buffer, which was read last
Deserialize == IF success THEN blob ELSE configuration

\* OnBlobLoaded, and what FactoryDefaultConfigurationStoreBase does when it is told.
\* With neither a factory default nor a stored configuration, the store is erased.
OnBlobLoaded ==
    /\ activeBlob' = inactiveBlob
    /\ configuration' = Deserialize
    /\ UNCHANGED <<writeRequested, lockCount, writeId>>
    /\ IF success \/ factoryDefaultRead
       THEN /\ recovered' = IF success THEN "stored" ELSE "default"
            /\ operation' = "none"
            /\ UNCHANGED operationId
       ELSE /\ operation' = "eraseBoth"
            /\ operationId' = operationId + 1
            /\ UNCHANGED recovered

\* A variant with a mistake: the inactive blob is left as it is
InactiveIgnored ==
    /\ operation = "checkInactive"
    /\ OnBlobLoaded
    /\ UNCHANGED <<flash, blob, success, factoryDefaultRead, crashes, latest, requests, acknowledged>>

InactiveChecked ==
    /\ operation = "checkInactive"
    /\ \/ flash[inactiveBlob] = Erased /\ OnBlobLoaded
       \/ /\ flash[inactiveBlob] # Erased
          /\ operation' = "eraseInactive"
          /\ UNCHANGED <<activeBlob, configuration, recovered, writeVars>>
    /\ UNCHANGED <<flash, blob, success, factoryDefaultRead, crashes, latest, requests, acknowledged>>

InactiveErased ==
    /\ operation = "eraseInactive"
    /\ EraseFlash(inactiveBlob)
    /\ OnBlobLoaded
    /\ UNCHANGED <<blob, success, factoryDefaultRead, crashes, latest, requests, acknowledged>>

\* ConfigurationStoreBase::Erase: the inactive blob, then the active one
BothErasedInactive ==
    /\ operation = "eraseBoth"
    /\ EraseFlash(inactiveBlob)
    /\ operation' = "eraseBothActive"
    /\ UNCHANGED <<ramVars, writeVars, crashes, latest, requests, acknowledged>>

\* ... after which OperationDone reports the recovery
BothErased ==
    /\ operation = "eraseBothActive"
    /\ EraseFlash(activeBlob)
    /\ operation' = "none"
    /\ recovered' = "default"
    /\ UNCHANGED <<blob, activeBlob, configuration, success, factoryDefaultRead, writeVars, crashes, latest, requests, acknowledged>>

----------------------------------------------------------------------------
(* ConfigurationStoreBase::Write *)

WritingBlob == operation \in {"writeBlob", "eraseOld"}

\* Write, when writingBlob has this value and there are this many locks: the blob is
\* filled with the configuration as it is now, or the request is remembered
Write(writingBlob, locks) ==
    IF ~writingBlob /\ locks = 0
    THEN /\ operationId' = operationId + 1
         /\ writeRequested' = FALSE
         /\ operation' = "writeBlob"
         /\ writeId' = operationId
         /\ blob' = configuration
    ELSE /\ writeRequested' = TRUE
         /\ operation' = IF writingBlob THEN operation ELSE "none"
         /\ UNCHANGED <<operationId, writeId, blob>>

CallWrite ==
    /\ recovered # "no"
    /\ operationId <= MaxOperations
    /\ requests' = requests \cup {[id |-> operationId, version |-> configuration]}
    /\ Write(WritingBlob, lockCount)
    /\ UNCHANGED <<flash, activeBlob, configuration, success, factoryDefaultRead, recovered, lockCount, crashes, latest, acknowledged>>

\* A variant with a mistake: the write is reported before the old blob is erased
BlobWrittenAndReported ==
    /\ operation = "writeBlob"
    /\ WriteFlash(activeBlob)
    /\ operation' = "eraseOld"
    /\ acknowledged' = blob
    /\ UNCHANGED <<ramVars, writeVars, crashes, latest, requests>>

BlobWritten ==
    /\ operation = "writeBlob"
    /\ WriteFlash(activeBlob)
    /\ operation' = "eraseOld"
    /\ UNCHANGED <<ramVars, writeVars, crashes, latest, requests, acknowledged>>

Done(id) == {r \in requests : r.id <= id}

\* OperationDone tells whoever called Write that its version is stored
OperationDone(id) ==
    /\ acknowledged' = Max({r.version : r \in Done(id)} \cup {acknowledged})
    /\ requests' = requests \ Done(id)

\* BlobWriteDone, and OperationDone after it
OldErased ==
    /\ operation = "eraseOld"
    /\ EraseFlash(inactiveBlob)
    /\ activeBlob' = inactiveBlob
    /\ IF writeRequested THEN Write(FALSE, lockCount)
       ELSE operation' = "none" /\ UNCHANGED <<operationId, writeRequested, writeId, blob>>
    /\ OperationDone(writeId)
    /\ UNCHANGED <<configuration, success, factoryDefaultRead, recovered, lockCount, crashes, latest>>

Lock ==
    /\ recovered # "no"
    /\ lockCount < MaxLocks
    /\ lockCount' = lockCount + 1
    /\ UNCHANGED <<flash, operation, ramVars, writeRequested, operationId, writeId, crashes, latest, requests, acknowledged>>

\* A variant with a mistake: Unlocked is not called
UnlockSilently ==
    /\ lockCount > 0
    /\ lockCount' = lockCount - 1
    /\ UNCHANGED <<flash, operation, ramVars, writeRequested, operationId, writeId, crashes, latest, requests, acknowledged>>

\* The destructor of LockGuard, and Unlocked
Unlock ==
    /\ lockCount > 0
    /\ lockCount' = lockCount - 1
    /\ IF lockCount = 1 /\ writeRequested THEN Write(WritingBlob, 0)
       ELSE UNCHANGED <<operation, writeRequested, operationId, writeId, blob>>
    /\ UNCHANGED <<flash, activeBlob, configuration, success, factoryDefaultRead, recovered, crashes, latest, requests, acknowledged>>

\* The application changes the configuration, whatever the store is doing
Change ==
    /\ recovered # "no"
    /\ latest < MaxVersion
    /\ latest' = latest + 1
    /\ configuration' = latest + 1
    /\ UNCHANGED <<flash, operation, blob, activeBlob, success, factoryDefaultRead, recovered, writeVars, crashes, requests, acknowledged>>

----------------------------------------------------------------------------
\* What power failure may leave of the flash operation in progress
Interrupted ==
    IF operation \in DOMAIN Erasing
    THEN {[flash EXCEPT ![Erasing[operation]] = contents] : contents \in {flash[Erasing[operation]], Torn, Erased}}
    ELSE IF operation \in DOMAIN Writing
    THEN {[flash EXCEPT ![Writing[operation]] = contents] : contents \in {flash[Writing[operation]], Torn, blob}}
    ELSE {flash}

\* Power returns: only the flash is left, and the store is constructed again
Crash ==
    /\ crashes < MaxCrashes
    /\ crashes' = crashes + 1
    /\ flash' \in Interrupted
    /\ operation' = "readDefault"
    /\ blob' = Erased
    /\ activeBlob' = 1
    /\ configuration' = Default
    /\ success' = FALSE
    /\ factoryDefaultRead' = FALSE
    /\ recovered' = "no"
    /\ writeRequested' = FALSE
    /\ lockCount' = 0
    /\ operationId' = 0
    /\ writeId' = 0
    /\ requests' = {}
    /\ UNCHANGED <<latest, acknowledged>>

Completion == \/ DefaultRead \/ DefaultErased \/ DefaultWritten
              \/ FirstRead \/ SecondRead \/ InactiveChecked \/ InactiveErased
              \/ BothErasedInactive \/ BothErased
              \/ BlobWritten \/ OldErased

Next == Completion \/ CallWrite \/ Lock \/ Unlock \/ Change \/ Crash

\* Flash operations complete, and locks are held for a while only
Fairness == WF_vars(Completion) /\ WF_vars(Unlock)

Spec == Init /\ [][Next]_vars
FairSpec == Spec /\ Fairness

----------------------------------------------------------------------------
(* Properties *)

\* What recovery will find: the first blob is preferred
Stored == IF Valid(flash[1]) THEN flash[1] ELSE IF Valid(flash[2]) THEN flash[2] ELSE Default

\* A write always finds its flash erased, whatever earlier crashes left behind: the
\* verification after it never stops the program. In between writes, the next
\* one's blob is erased already.
WriteTargetErased ==
    /\ operation \in DOMAIN Writing => flash[Writing[operation]] = Erased
    /\ operation = "none" => flash[activeBlob] = Erased

\* What OperationDone reported as written is never lost: at any moment, and after
\* a crash at any moment, recovery finds that version or a newer one.
AcknowledgedNotLost == Stored >= acknowledged

\* Recovery delivers what is stored, or else the factory default, and tells which.
RecoversStored ==
    [][recovered = "no" /\ recovered' # "no" =>
          /\ configuration' = Stored
          /\ recovered' = "stored" <=> Valid(flash[1]) \/ Valid(flash[2])]_vars

\* Every requested write is reported done, unless power fails or the store is kept
\* locked: a request made during a write or under a lock is not forgotten.
WriteEventuallyDone ==
    []<>(lockCount = 0) => \A v \in Versions :
        (\E r \in requests : r.version = v) ~> ~\E r \in requests : r.version = v
====
