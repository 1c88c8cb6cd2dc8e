---- MODULE ConfigurationStoreProofs ----
(***************************************************************************)
(* Proofs about ConfigurationStore, for any number of changes, writes,     *)
(* locks and power failures.                                               *)
(***************************************************************************)
EXTENDS ConfigurationStore, FiniteSetsExt, WellFoundedInduction, TLAPS

----------------------------------------------------------------------------
(* Integers *)

\* Every nonempty set of natural numbers has a least element.
LEMMA LeastNatural ==
    ASSUME NEW T, T \subseteq Nat, T # {}
    PROVE  \E x \in T : \A y \in T : x <= y
<1> DEFINE R == OpToRel(<, Nat)
           Less(x, y) == <<x, y>> \in R
<1>1. IsWellFoundedOn(R, Nat)
  BY NatLessThanWellFounded
<1>2. \A x, y \in Nat : x < y => Less(x, y)
  BY DEF OpToRel
<1> HIDE DEF R
<1>3. \E x \in T : \A y \in T : ~Less(y, x)
  BY <1>1, WFMin
<1> HIDE DEF Less
<1>4. PICK x \in T : \A y \in T : ~Less(y, x)
  BY <1>3
<1>5. ASSUME NEW y \in T PROVE x <= y
  <2>1. ~(y < x)
    BY <1>2, <1>4
  <2> QED
    BY <2>1
<1> QED
  BY <1>5

\* Max of a nonempty set of naturals that has an upper bound is its greatest element.
LEMMA MaxOfBounded ==
    ASSUME NEW n \in Nat, NEW S, S \subseteq 0 .. n, S # {}
    PROVE  Max(S) \in S /\ \A x \in S : x <= Max(S)
<1> DEFINE T == {n - x : x \in S}
<1>1. T \subseteq Nat /\ T # {}
  <2>1. \A x \in S : n - x \in Nat
    OBVIOUS
  <2> QED
    BY <2>1
<1>2. PICK t \in T : \A y \in T : t <= y
  BY <1>1, LeastNatural
<1>3. PICK m \in S : t = n - m
  OBVIOUS
<1>4. \A x \in S : m >= x
  BY <1>2, <1>3
<1> QED
  BY <1>4 DEF Max

----------------------------------------------------------------------------
(* The inductive invariant *)

Recovering == {"readDefault", "eraseDefault", "writeDefault", "readFirst", "readSecond",
               "checkInactive", "eraseInactive", "eraseBoth", "eraseBothActive"}

\* Until onRecovered is called, the store has its initial state and nobody uses it.
RecoveryInv ==
    IF recovered = "no"
    THEN /\ operation \in Recovering
         /\ configuration = Default /\ lockCount = 0 /\ ~writeRequested /\ requests = {}
         /\ operation \in {"eraseBoth", "eraseBothActive"} \/ operationId = 0
    ELSE operation \in {"none", "writeBlob", "eraseOld"}

\* What each flash operation knows of the flash.
PhaseInv ==
    /\ operation \in {"readDefault", "eraseDefault", "writeDefault", "readFirst"} => activeBlob = 1
    /\ operation = "writeDefault" => flash[Default] = Erased /\ blob = configuration
    /\ operation = "readSecond" => activeBlob = 2 /\ ~Valid(flash[1])
    /\ operation \in {"checkInactive", "eraseInactive"} =>
          /\ success <=> Valid(flash[activeBlob])
          /\ blob = flash[activeBlob]
          /\ activeBlob = 2 => ~Valid(flash[1])
          /\ ~success => activeBlob = 2
    /\ operation \in {"eraseBoth", "eraseBothActive"} => ~Valid(flash[1]) /\ ~Valid(flash[2])
    /\ operation \in {"none", "writeBlob"} => flash[activeBlob] = Erased
    /\ operation = "eraseOld" => flash[activeBlob] = blob

\* A write in progress writes what was configured when it began: everything that was
\* requested before it, and nothing that will be asked for later on is reported with it.
WriteInv ==
    /\ writeRequested => operationId <= MaxOperations
    /\ WritingBlob =>
          /\ writeId < operationId
          /\ Valid(blob) /\ acknowledged <= blob
          /\ \A r \in requests : r.id <= writeId => r.version <= blob

\* Versions only grow: whatever recovery could find is at least as new as what was
\* reported, and there is something to find.
VersionInv ==
    /\ configuration <= latest /\ blob <= latest
    /\ \A b \in Blobs : flash[b] <= latest
    /\ recovered # "no" => acknowledged <= configuration
    /\ WritingBlob => blob <= configuration
    /\ \A r \in requests : r.version <= configuration
    /\ \A b \in {1, 2} : Valid(flash[b]) => flash[b] >= acknowledged
    /\ acknowledged = Default \/ Valid(flash[1]) \/ Valid(flash[2])

IInv == TypeOK /\ RecoveryInv /\ PhaseInv /\ WriteInv /\ VersionInv

----------------------------------------------------------------------------
(* Lemmas about the operators *)

\* The operations that erase and the ones that write a flash.
LEMMA OperationSets ==
    /\ DOMAIN Erasing = {"eraseDefault", "eraseInactive", "eraseOld", "eraseBoth", "eraseBothActive"}
    /\ DOMAIN Writing = {"writeDefault", "writeBlob"}
    /\ Operations = Recovering \cup {"none", "writeBlob", "eraseOld"}
    /\ Operations' = Operations
  BY DEF Erasing, Writing, Operations, Recovering

\* The two blobs alternate, and neither of them is the factory default.
LEMMA OtherBlob ==
    ASSUME activeBlob \in {1, 2}
    PROVE  /\ inactiveBlob \in {1, 2} /\ inactiveBlob # activeBlob
           /\ Default \notin {activeBlob, inactiveBlob}
           /\ {activeBlob, inactiveBlob} = {1, 2}
  BY DEF inactiveBlob, Default

\* The constants, one by one.
LEMMA Bounds == MaxVersion \in Nat /\ MaxOperations \in Nat /\ MaxLocks \in Nat /\ MaxCrashes \in Nat
  BY BoundsAssumption

\* Initially nothing is stored.
LEMMA InvInit == Init => IInv
<1> SUFFICES ASSUME Init PROVE IInv
  OBVIOUS
<1> USE Bounds DEF Init
<1>1. TypeOK
  <2>1. operation \in Operations
    BY OperationSets DEF Recovering
  <2>2. {success, factoryDefaultRead, writeRequested} \subseteq BOOLEAN
    OBVIOUS
  <2> QED
    BY <2>1, <2>2 DEF TypeOK, Versions, Erased, Default
<1>2. RecoveryInv
  BY DEF RecoveryInv, Recovering
<1>3. PhaseInv
  BY DEF PhaseInv
<1>4. WriteInv
  BY DEF WriteInv, WritingBlob
<1>5. VersionInv
  BY DEF VersionInv, WritingBlob, Default, Erased, Blobs, Valid, Versions
<1> QED
  BY <1>1, <1>2, <1>3, <1>4, <1>5 DEF IInv

\* Reading the factory default tells whether it is valid and changes nothing in flash.
LEMMA DefaultReadStep ==
    ASSUME IInv, DefaultRead
    PROVE  IInv'
<1> USE Bounds, OperationSets, OtherBlob
    DEF IInv, DefaultRead, ramVars, writeVars,
        Recovering, WritingBlob, Blobs, Default, Versions, Valid, Erased, Torn
<1>1. TypeOK'
  BY DEF TypeOK, RecoveryInv, PhaseInv, WriteInv
<1>2. RecoveryInv'
  BY DEF TypeOK, RecoveryInv, PhaseInv
<1>3. PhaseInv'
  BY DEF TypeOK, RecoveryInv, PhaseInv, inactiveBlob
<1>4. WriteInv'
  BY DEF TypeOK, RecoveryInv, PhaseInv, WriteInv, VersionInv
<1>5. VersionInv'
  BY DEF TypeOK, RecoveryInv, PhaseInv, WriteInv, VersionInv
<1> QED
  BY <1>1, <1>2, <1>3, <1>4, <1>5

\* The factory default is about to be written to an erased flash.
LEMMA DefaultErasedStep ==
    ASSUME IInv, DefaultErased
    PROVE  IInv'
<1> USE Bounds, OperationSets, OtherBlob
    DEF IInv, DefaultErased, EraseFlash, ramVars, writeVars,
        Recovering, WritingBlob, Blobs, Default, Versions, Valid, Erased, Torn
<1>1. TypeOK'
  BY DEF TypeOK, RecoveryInv, PhaseInv, WriteInv
<1>2. RecoveryInv'
  BY DEF TypeOK, RecoveryInv, PhaseInv
<1>3. PhaseInv'
  BY DEF TypeOK, RecoveryInv, PhaseInv, inactiveBlob
<1>4. WriteInv'
  BY DEF TypeOK, RecoveryInv, PhaseInv, WriteInv, VersionInv
<1>5. VersionInv'
  BY DEF TypeOK, RecoveryInv, PhaseInv, WriteInv, VersionInv
<1> QED
  BY <1>1, <1>2, <1>3, <1>4, <1>5

\* The factory default is written, without touching the two blobs.
LEMMA DefaultWrittenStep ==
    ASSUME IInv, DefaultWritten
    PROVE  IInv'
<1> USE Bounds, OperationSets, OtherBlob
    DEF IInv, DefaultWritten, WriteFlash, ramVars, writeVars,
        Recovering, WritingBlob, Blobs, Default, Versions, Valid, Erased, Torn
<1>1. TypeOK'
  BY DEF TypeOK, RecoveryInv, PhaseInv, WriteInv
<1>2. RecoveryInv'
  BY DEF TypeOK, RecoveryInv, PhaseInv
<1>3. PhaseInv'
  BY DEF TypeOK, RecoveryInv, PhaseInv, inactiveBlob
<1>4. WriteInv'
  BY DEF TypeOK, RecoveryInv, PhaseInv, WriteInv, VersionInv
<1>5. VersionInv'
  BY DEF TypeOK, RecoveryInv, PhaseInv, WriteInv, VersionInv
<1> QED
  BY <1>1, <1>2, <1>3, <1>4, <1>5

\* Recovery reads the first blob.
LEMMA FirstReadStep ==
    ASSUME IInv, FirstRead
    PROVE  IInv'
<1> USE Bounds, OperationSets, OtherBlob
    DEF IInv, FirstRead, ramVars, writeVars,
        Recovering, WritingBlob, Blobs, Default, Versions, Valid, Erased, Torn
<1>1. TypeOK'
  BY DEF TypeOK, RecoveryInv, PhaseInv, WriteInv
<1>2. RecoveryInv'
  BY DEF TypeOK, RecoveryInv, PhaseInv
<1>3. PhaseInv'
  BY DEF TypeOK, RecoveryInv, PhaseInv, inactiveBlob
<1>4. WriteInv'
  BY DEF TypeOK, RecoveryInv, PhaseInv, WriteInv, VersionInv
<1>5. VersionInv'
  BY DEF TypeOK, RecoveryInv, PhaseInv, WriteInv, VersionInv
<1> QED
  BY <1>1, <1>2, <1>3, <1>4, <1>5

\* Recovery reads the second blob, when the first one is not valid.
LEMMA SecondReadStep ==
    ASSUME IInv, SecondRead
    PROVE  IInv'
<1> USE Bounds, OperationSets, OtherBlob
    DEF IInv, SecondRead, ramVars, writeVars,
        Recovering, WritingBlob, Blobs, Default, Versions, Valid, Erased, Torn
<1>1. TypeOK'
  BY DEF TypeOK, RecoveryInv, PhaseInv, WriteInv
<1>2. RecoveryInv'
  BY DEF TypeOK, RecoveryInv, PhaseInv
<1>3. PhaseInv'
  BY DEF TypeOK, RecoveryInv, PhaseInv, inactiveBlob
<1>4. WriteInv'
  BY DEF TypeOK, RecoveryInv, PhaseInv, WriteInv, VersionInv
<1>5. VersionInv'
  BY DEF TypeOK, RecoveryInv, PhaseInv, WriteInv, VersionInv
<1> QED
  BY <1>1, <1>2, <1>3, <1>4, <1>5

\* The blob that will be written next is found to be erased, or is to be erased.
LEMMA InactiveCheckedStep ==
    ASSUME IInv, InactiveChecked
    PROVE  IInv'
<1> USE Bounds, OperationSets, OtherBlob
    DEF IInv, InactiveChecked, OnBlobLoaded, Deserialize, ramVars, writeVars,
        Recovering, WritingBlob, Blobs, Default, Versions, Valid, Erased, Torn
<1>1. TypeOK'
  BY DEF TypeOK, RecoveryInv, PhaseInv, WriteInv
<1>2. RecoveryInv'
  BY DEF TypeOK, RecoveryInv, PhaseInv
<1>3. PhaseInv'
  BY DEF TypeOK, RecoveryInv, PhaseInv, inactiveBlob
<1>4. WriteInv'
  BY DEF TypeOK, RecoveryInv, PhaseInv, WriteInv, VersionInv
<1>5. VersionInv'
  BY DEF TypeOK, RecoveryInv, PhaseInv, WriteInv, VersionInv
<1> QED
  BY <1>1, <1>2, <1>3, <1>4, <1>5

\* Erasing the blob that will be written next loses nothing that recovery would find.
LEMMA InactiveErasedStep ==
    ASSUME IInv, InactiveErased
    PROVE  IInv'
<1> USE Bounds, OperationSets, OtherBlob
    DEF IInv, InactiveErased, OnBlobLoaded, Deserialize, EraseFlash, ramVars, writeVars,
        Recovering, WritingBlob, Blobs, Default, Versions, Valid, Erased, Torn
<1>1. TypeOK'
  BY DEF TypeOK, RecoveryInv, PhaseInv, WriteInv
<1>2. RecoveryInv'
  BY DEF TypeOK, RecoveryInv, PhaseInv
<1>3. PhaseInv'
  BY DEF TypeOK, RecoveryInv, PhaseInv, inactiveBlob
<1>4. WriteInv'
  BY DEF TypeOK, RecoveryInv, PhaseInv, WriteInv, VersionInv
<1>5. VersionInv'
  BY DEF TypeOK, RecoveryInv, PhaseInv, WriteInv, VersionInv
<1> QED
  BY <1>1, <1>2, <1>3, <1>4, <1>5

\* With nothing valid in flash, erasing a blob loses nothing.
LEMMA BothErasedInactiveStep ==
    ASSUME IInv, BothErasedInactive
    PROVE  IInv'
<1> USE Bounds, OperationSets, OtherBlob
    DEF IInv, BothErasedInactive, EraseFlash, ramVars, writeVars,
        Recovering, WritingBlob, Blobs, Default, Versions, Valid, Erased, Torn
<1>1. TypeOK'
  BY DEF TypeOK, RecoveryInv, PhaseInv, WriteInv
<1>2. RecoveryInv'
  BY DEF TypeOK, RecoveryInv, PhaseInv
<1>3. PhaseInv'
  BY DEF TypeOK, RecoveryInv, PhaseInv, inactiveBlob
<1>4. WriteInv'
  BY DEF TypeOK, RecoveryInv, PhaseInv, WriteInv, VersionInv
<1>5. VersionInv'
  BY DEF TypeOK, RecoveryInv, PhaseInv, WriteInv, VersionInv
<1> QED
  BY <1>1, <1>2, <1>3, <1>4, <1>5

\* With nothing valid in flash, erasing the other blob loses nothing either.
LEMMA BothErasedStep ==
    ASSUME IInv, BothErased
    PROVE  IInv'
<1> USE Bounds, OperationSets, OtherBlob
    DEF IInv, BothErased, EraseFlash, ramVars, writeVars,
        Recovering, WritingBlob, Blobs, Default, Versions, Valid, Erased, Torn
<1>1. TypeOK'
  BY DEF TypeOK, RecoveryInv, PhaseInv, WriteInv
<1>2. RecoveryInv'
  BY DEF TypeOK, RecoveryInv, PhaseInv
<1>3. PhaseInv'
  BY DEF TypeOK, RecoveryInv, PhaseInv, inactiveBlob
<1>4. WriteInv'
  BY DEF TypeOK, RecoveryInv, PhaseInv, WriteInv, VersionInv
<1>5. VersionInv'
  BY DEF TypeOK, RecoveryInv, PhaseInv, WriteInv, VersionInv
<1> QED
  BY <1>1, <1>2, <1>3, <1>4, <1>5

\* A write begins with the configuration as it is, or is remembered.
LEMMA CallWriteStep ==
    ASSUME IInv, CallWrite
    PROVE  IInv'
<1> USE Bounds, OperationSets, OtherBlob
    DEF IInv, CallWrite, Write, ramVars, writeVars,
        Recovering, WritingBlob, Blobs, Default, Versions, Valid, Erased, Torn
<1>1. TypeOK'
  <2>1. writeId' \in 0 .. MaxOperations /\ operationId' \in 0 .. MaxOperations + 1
    BY DEF TypeOK
  <2>2. [id |-> operationId, version |-> configuration] \in [id : Nat, version : Versions]
    BY DEF TypeOK
  <2>3. requests' \subseteq [id : Nat, version : Versions]
    BY <2>2 DEF TypeOK
  <2>4. blob' \in Versions \cup {Erased, Torn} /\ operation' \in Operations /\ writeRequested' \in BOOLEAN
    BY DEF TypeOK, RecoveryInv
  <2> QED
    BY <2>1, <2>3, <2>4 DEF TypeOK
<1>2. RecoveryInv'
  BY DEF TypeOK, RecoveryInv, PhaseInv
<1>3. PhaseInv'
  BY DEF TypeOK, RecoveryInv, PhaseInv, inactiveBlob
<1>4. WriteInv'
  BY DEF TypeOK, RecoveryInv, PhaseInv, WriteInv, VersionInv
<1>5. VersionInv'
  BY DEF TypeOK, RecoveryInv, PhaseInv, WriteInv, VersionInv
<1> QED
  BY <1>1, <1>2, <1>3, <1>4, <1>5

\* The new version is in flash, beside the old one.
LEMMA BlobWrittenStep ==
    ASSUME IInv, BlobWritten
    PROVE  IInv'
<1> USE Bounds, OperationSets, OtherBlob
    DEF IInv, BlobWritten, WriteFlash, ramVars, writeVars,
        Recovering, WritingBlob, Blobs, Default, Versions, Valid, Erased, Torn
<1>1. TypeOK'
  BY DEF TypeOK, RecoveryInv, PhaseInv, WriteInv
<1>2. RecoveryInv'
  BY DEF TypeOK, RecoveryInv, PhaseInv
<1>3. PhaseInv'
  BY DEF TypeOK, RecoveryInv, PhaseInv, inactiveBlob
<1>4. WriteInv'
  BY DEF TypeOK, RecoveryInv, PhaseInv, WriteInv, VersionInv
<1>5. VersionInv'
  BY DEF TypeOK, RecoveryInv, PhaseInv, WriteInv, VersionInv
<1> QED
  BY <1>1, <1>2, <1>3, <1>4, <1>5

\* OperationDone reports the newest of the versions that were waited for.
LEMMA OperationDoneFacts ==
    ASSUME TypeOK, NEW id \in Nat, OperationDone(id)
    PROVE  /\ acknowledged' \in Versions /\ acknowledged' >= acknowledged
           /\ acknowledged' = acknowledged \/ \E r \in requests : r.id <= id /\ acknowledged' = r.version
           /\ requests' \subseteq requests
<1> DEFINE S == {r.version : r \in Done(id)} \cup {acknowledged}
<1>1. S \subseteq 0 .. MaxVersion /\ acknowledged \in S
  BY DEF TypeOK, Done, Versions
<1>2. acknowledged' = Max(S) /\ requests' = requests \ Done(id)
  BY DEF OperationDone
<1> HIDE DEF S
<1>3. Max(S) \in S /\ \A x \in S : x <= Max(S)
  BY <1>1, Bounds, MaxOfBounded
<1>4. acknowledged' \in S /\ acknowledged <= acknowledged'
  BY <1>1, <1>2, <1>3
<1>5. acknowledged' = acknowledged \/ \E r \in requests : r.id <= id /\ acknowledged' = r.version
  BY <1>4 DEF S, Done
<1>6. acknowledged' \in Versions /\ acknowledged' >= acknowledged
  BY <1>1, <1>4 DEF Versions, TypeOK
<1> QED
  BY <1>2, <1>5, <1>6 DEF Done

\* The old version is erased when the new one is in flash, and only then is the write
\* reported: what is reported is not newer than what is left.
LEMMA OldErasedStep ==
    ASSUME IInv, OldErased
    PROVE  IInv'
<1> USE Bounds, OtherBlob DEF Recovering, WritingBlob, Blobs, Default, Versions, Valid, Erased, Torn
<1>1. TypeOK /\ RecoveryInv /\ PhaseInv /\ WriteInv /\ VersionInv
  BY DEF IInv
<1>2. /\ operation = "eraseOld" /\ recovered # "no"
      /\ activeBlob' = inactiveBlob
      /\ flash' = [flash EXCEPT ![inactiveBlob] = Erased]
      /\ UNCHANGED <<configuration, success, factoryDefaultRead, recovered, lockCount, crashes, latest>>
  BY <1>1 DEF OldErased, EraseFlash, RecoveryInv
<1>3. /\ acknowledged' \in Versions /\ acknowledged' >= acknowledged
      /\ acknowledged' = acknowledged
           \/ \E r \in requests : r.id <= writeId /\ acknowledged' = r.version
      /\ requests' \subseteq requests
  <2>1. writeId \in Nat /\ OperationDone(writeId)
    BY <1>1 DEF TypeOK, OldErased
  <2> QED
    BY <1>1, <2>1, OperationDoneFacts
<1>4. /\ acknowledged' <= blob /\ blob \in Versions /\ blob <= configuration
      /\ flash'[activeBlob] = blob /\ flash'[inactiveBlob] = Erased /\ flash'[Default] = flash[Default]
      /\ activeBlob \in {1, 2}
  BY <1>1, <1>2, <1>3 DEF TypeOK, PhaseInv, WriteInv, VersionInv
<1>5. \/ /\ operation' = "none" /\ UNCHANGED <<operationId, writeId, blob>>
         /\ writeRequested' \in BOOLEAN /\ (writeRequested' => writeRequested)
      \/ /\ operation' = "writeBlob" /\ operationId' = operationId + 1 /\ writeId' = operationId
         /\ operationId <= MaxOperations /\ writeRequested' = FALSE /\ blob' = configuration
  BY <1>1 DEF TypeOK, WriteInv, OldErased, Write
<1>6. TypeOK'
  <2>1. operation' \in Operations'
    BY <1>5, OperationSets
  <2>2. requests' \subseteq [id : Nat, version : Versions]
    BY <1>1, <1>3 DEF TypeOK
  <2>3. activeBlob' \in {1, 2} /\ flash' \in [Blobs -> Versions \cup {Erased, Torn}]
    BY <1>1, <1>2 DEF TypeOK
  <2>4. /\ operationId' \in 0 .. MaxOperations + 1 /\ writeId' \in 0 .. MaxOperations
        /\ blob' \in Versions \cup {Erased, Torn}
    BY <1>1, <1>5 DEF TypeOK
  <2>5. writeRequested' \in BOOLEAN
    BY <1>5
  <2> QED
    BY <1>1, <1>2, <1>3, <2>1, <2>2, <2>3, <2>4, <2>5 DEF TypeOK
<1>7. RecoveryInv'
  BY <1>2, <1>5 DEF RecoveryInv
<1>8. PhaseInv'
  BY <1>2, <1>4, <1>5 DEF PhaseInv
<1>9. WriteInv'
  <2>1. \A r \in requests' : r.version \in Versions /\ r.version <= configuration
    BY <1>1, <1>3 DEF TypeOK, VersionInv
  <2>2. writeRequested' => operationId' <= MaxOperations
    BY <1>1, <1>5 DEF WriteInv
  <2>3. acknowledged' <= configuration
    BY <1>1, <1>3, <1>4 DEF TypeOK
  <2> QED
    BY <1>1, <1>2, <1>5, <2>1, <2>2, <2>3 DEF TypeOK, WriteInv
<1>10. VersionInv'
  <2>1. \A r \in requests' : r.version <= configuration'
    BY <1>1, <1>2, <1>3 DEF VersionInv
  <2>2. \A b \in Blobs : flash'[b] <= latest'
    BY <1>1, <1>2, <1>4 DEF TypeOK, VersionInv
  <2>3. acknowledged' <= configuration'
    BY <1>1, <1>2, <1>3, <1>4 DEF TypeOK
  <2>4. \A b \in {1, 2} : Valid(flash'[b]) => flash'[b] >= acknowledged'
    BY <1>1, <1>3, <1>4 DEF TypeOK
  <2>5. Valid(flash'[1]) \/ Valid(flash'[2])
    BY <1>4
  <2>6. configuration' <= latest' /\ blob' <= latest'
    BY <1>1, <1>2, <1>5 DEF VersionInv
  <2>7. WritingBlob' => blob' <= configuration'
    BY <1>1, <1>2, <1>5 DEF TypeOK
  <2> QED
    BY <2>1, <2>2, <2>3, <2>4, <2>5, <2>6, <2>7 DEF VersionInv
<1> QED
  BY <1>6, <1>7, <1>8, <1>9, <1>10 DEF IInv

\* Locking postpones writes only.
LEMMA LockStep ==
    ASSUME IInv, Lock
    PROVE  IInv'
<1> USE Bounds, OperationSets, OtherBlob
    DEF IInv, Lock, ramVars, writeVars,
        Recovering, WritingBlob, Blobs, Default, Versions, Valid, Erased, Torn
<1>1. TypeOK'
  BY DEF TypeOK, RecoveryInv, PhaseInv, WriteInv
<1>2. RecoveryInv'
  BY DEF TypeOK, RecoveryInv, PhaseInv
<1>3. PhaseInv'
  BY DEF TypeOK, RecoveryInv, PhaseInv, inactiveBlob
<1>4. WriteInv'
  BY DEF TypeOK, RecoveryInv, PhaseInv, WriteInv, VersionInv
<1>5. VersionInv'
  BY DEF TypeOK, RecoveryInv, PhaseInv, WriteInv, VersionInv
<1> QED
  BY <1>1, <1>2, <1>3, <1>4, <1>5

\* The last unlock begins the write that was remembered.
LEMMA UnlockStep ==
    ASSUME IInv, Unlock
    PROVE  IInv'
<1> USE Bounds, OperationSets, OtherBlob
    DEF IInv, Unlock, Write, ramVars, writeVars,
        Recovering, WritingBlob, Blobs, Default, Versions, Valid, Erased, Torn
<1>1. TypeOK'
  <2>1. lockCount' \in 0 .. MaxLocks
    BY DEF TypeOK
  <2>2. writeId' \in 0 .. MaxOperations /\ operationId' \in 0 .. MaxOperations + 1
    BY DEF TypeOK, WriteInv
  <2>3. blob' \in Versions \cup {Erased, Torn} /\ operation' \in Operations /\ writeRequested' \in BOOLEAN
    BY DEF TypeOK, RecoveryInv
  <2> QED
    BY <2>1, <2>2, <2>3 DEF TypeOK
<1>2. RecoveryInv'
  BY DEF TypeOK, RecoveryInv, PhaseInv
<1>3. PhaseInv'
  BY DEF TypeOK, RecoveryInv, PhaseInv, inactiveBlob
<1>4. WriteInv'
  BY DEF TypeOK, RecoveryInv, PhaseInv, WriteInv, VersionInv
<1>5. VersionInv'
  BY DEF TypeOK, RecoveryInv, PhaseInv, WriteInv, VersionInv
<1> QED
  BY <1>1, <1>2, <1>3, <1>4, <1>5

\* A change makes the configuration newer than anything before.
LEMMA ChangeStep ==
    ASSUME IInv, Change
    PROVE  IInv'
<1> USE Bounds, OperationSets, OtherBlob
    DEF IInv, Change, ramVars, writeVars,
        Recovering, WritingBlob, Blobs, Default, Versions, Valid, Erased, Torn
<1>1. TypeOK'
  BY DEF TypeOK, RecoveryInv, PhaseInv, WriteInv
<1>2. RecoveryInv'
  BY DEF TypeOK, RecoveryInv, PhaseInv
<1>3. PhaseInv'
  BY DEF TypeOK, RecoveryInv, PhaseInv, inactiveBlob
<1>4. WriteInv'
  BY DEF TypeOK, RecoveryInv, PhaseInv, WriteInv, VersionInv
<1>5. VersionInv'
  BY DEF TypeOK, RecoveryInv, PhaseInv, WriteInv, VersionInv
<1> QED
  BY <1>1, <1>2, <1>3, <1>4, <1>5

\* What power failure leaves of one flash: what was in it, something that is not valid, or
\* what was being written to it, which is at least as new as what was reported.
LEMMA InterruptedFacts ==
    ASSUME IInv, NEW f \in Interrupted
    PROVE  /\ f \in [Blobs -> Versions \cup {Erased, Torn}]
           /\ \A b \in Blobs : f[b] <= latest
           /\ \A b \in {1, 2} : Valid(f[b]) => f[b] >= acknowledged
           /\ acknowledged = Default \/ Valid(f[1]) \/ Valid(f[2])
<1> USE Bounds, OtherBlob DEF Recovering, WritingBlob, Blobs, Default, Versions, Valid, Erased, Torn
<1>1. TypeOK /\ RecoveryInv /\ PhaseInv /\ WriteInv /\ VersionInv
  BY DEF IInv
<1>2. CASE operation \in DOMAIN Erasing
  <2>1. PICK x \in {flash[Erasing[operation]], Torn, Erased} : f = [flash EXCEPT ![Erasing[operation]] = x]
    BY <1>2 DEF Interrupted
  <2>2. operation \in {"eraseDefault", "eraseInactive", "eraseOld", "eraseBoth", "eraseBothActive"}
    BY <1>2, OperationSets
  <2>3. CASE operation = "eraseDefault"
    BY <1>1, <2>1, <2>3 DEF Erasing, TypeOK, VersionInv
  <2>4. CASE operation = "eraseInactive"
    BY <1>1, <2>1, <2>4 DEF Erasing, TypeOK, PhaseInv, VersionInv
  <2>5. CASE operation = "eraseOld"
    BY <1>1, <2>1, <2>5 DEF Erasing, TypeOK, PhaseInv, WriteInv, VersionInv
  <2>6. CASE operation = "eraseBoth"
    BY <1>1, <2>1, <2>6 DEF Erasing, TypeOK, PhaseInv, VersionInv
  <2>7. CASE operation = "eraseBothActive"
    BY <1>1, <2>1, <2>7 DEF Erasing, TypeOK, PhaseInv, VersionInv
  <2> QED
    BY <2>2, <2>3, <2>4, <2>5, <2>6, <2>7
<1>3. CASE operation \notin DOMAIN Erasing /\ operation \in DOMAIN Writing
  <2>1. PICK x \in {flash[Writing[operation]], Torn, blob} : f = [flash EXCEPT ![Writing[operation]] = x]
    BY <1>3 DEF Interrupted
  <2>2. operation \in {"writeDefault", "writeBlob"}
    BY <1>3, OperationSets
  <2>3. CASE operation = "writeDefault"
    BY <1>1, <2>1, <2>3 DEF Writing, TypeOK, VersionInv
  <2>4. CASE operation = "writeBlob"
    BY <1>1, <2>1, <2>4 DEF Writing, TypeOK, PhaseInv, WriteInv, VersionInv
  <2> QED
    BY <2>2, <2>3, <2>4
<1>4. CASE operation \notin DOMAIN Erasing /\ operation \notin DOMAIN Writing
  <2>1. f = flash
    BY <1>4 DEF Interrupted
  <2> QED
    BY <1>1, <2>1 DEF TypeOK, VersionInv
<1> QED
  BY <1>2, <1>3, <1>4

\* Power fails in the middle of whatever was going on.
LEMMA CrashStep ==
    ASSUME IInv, Crash
    PROVE  IInv'
<1>1. TypeOK /\ VersionInv
  BY DEF IInv
<1>2. /\ flash' \in [Blobs -> Versions \cup {Erased, Torn}]
      /\ \A b \in Blobs : flash'[b] <= latest
      /\ \A b \in {1, 2} : Valid(flash'[b]) => flash'[b] >= acknowledged
      /\ acknowledged = Default \/ Valid(flash'[1]) \/ Valid(flash'[2])
  BY InterruptedFacts DEF Crash
<1> USE Bounds DEF Crash, Recovering, WritingBlob, Blobs, Default, Versions, Valid, Erased, Torn
<1>3. TypeOK'
  <2>1. operation' \in Operations'
    BY OperationSets
  <2>2. {success', factoryDefaultRead', writeRequested'} \subseteq BOOLEAN
    OBVIOUS
  <2> QED
    BY <1>1, <1>2, <2>1, <2>2 DEF TypeOK
<1>4. RecoveryInv'
  BY DEF RecoveryInv
<1>5. PhaseInv'
  BY DEF PhaseInv
<1>6. WriteInv'
  BY DEF WriteInv
<1>7. VersionInv'
  BY <1>1, <1>2 DEF TypeOK, VersionInv
<1> QED
  BY <1>3, <1>4, <1>5, <1>6, <1>7 DEF IInv

----------------------------------------------------------------------------
(* The theorems *)

\* Every step keeps the invariant.
LEMMA InvStep == IInv /\ [Next]_vars => IInv'
<1> SUFFICES ASSUME IInv, [Next]_vars PROVE IInv'
  OBVIOUS
<1>1. CASE DefaultRead
  BY <1>1, DefaultReadStep
<1>2. CASE DefaultErased
  BY <1>2, DefaultErasedStep
<1>3. CASE DefaultWritten
  BY <1>3, DefaultWrittenStep
<1>4. CASE FirstRead
  BY <1>4, FirstReadStep
<1>5. CASE SecondRead
  BY <1>5, SecondReadStep
<1>6. CASE InactiveChecked
  BY <1>6, InactiveCheckedStep
<1>7. CASE InactiveErased
  BY <1>7, InactiveErasedStep
<1>8. CASE BothErasedInactive
  BY <1>8, BothErasedInactiveStep
<1>9. CASE BothErased
  BY <1>9, BothErasedStep
<1>10. CASE BlobWritten
  BY <1>10, BlobWrittenStep
<1>11. CASE OldErased
  BY <1>11, OldErasedStep
<1>12. CASE CallWrite
  BY <1>12, CallWriteStep
<1>13. CASE Lock
  BY <1>13, LockStep
<1>14. CASE Unlock
  BY <1>14, UnlockStep
<1>15. CASE Change
  BY <1>15, ChangeStep
<1>16. CASE Crash
  BY <1>16, CrashStep
<1>17. CASE UNCHANGED vars
  BY <1>17 DEF vars, ramVars, writeVars, IInv, TypeOK, RecoveryInv, PhaseInv, WriteInv, VersionInv,
        WritingBlob, Operations, Erasing, Writing, inactiveBlob
<1> QED
  BY <1>1, <1>2, <1>3, <1>4, <1>5, <1>6, <1>7, <1>8, <1>9, <1>10, <1>11, <1>12, <1>13, <1>14, <1>15, <1>16, <1>17 DEF Next, Completion

\* The invariant holds always.
LEMMA InvAlways == Spec => []IInv
  BY InvInit, InvStep, PTL DEF Spec

\* Every variable keeps its type: the identifiers of writes stay within their bounds.
THEOREM TypeCorrect == Spec => []TypeOK
<1>1. IInv => TypeOK
  BY DEF IInv
<1> QED
  BY <1>1, InvAlways, PTL

\* Every write, of the factory default and of the configuration, finds its flash erased,
\* whatever the crashes before it left behind.
THEOREM WritesToErased == Spec => []WriteTargetErased
<1>1. IInv => WriteTargetErased
  BY OperationSets DEF IInv, PhaseInv, WriteTargetErased, Writing
<1> QED
  BY <1>1, InvAlways, PTL

\* A version that was reported as written is found by recovery, or a newer one is, after
\* any number of crashes at any moment.
THEOREM NothingLost == Spec => []AcknowledgedNotLost
<1>1. IInv => AcknowledgedNotLost
  BY Bounds DEF IInv, TypeOK, VersionInv, AcknowledgedNotLost, Stored, Valid, Versions, Default, Blobs
<1> QED
  BY <1>1, InvAlways, PTL

\* A step that calls onRecovered delivers what is stored, or else the factory default.
LEMMA RecoveredStep ==
    ASSUME IInv, [Next]_vars, recovered = "no", recovered' # "no"
    PROVE  /\ configuration' = Stored
           /\ recovered' = "stored" <=> Valid(flash[1]) \/ Valid(flash[2])
<1>1. TypeOK /\ RecoveryInv /\ PhaseInv
  BY DEF IInv
<1>2. operation \in Recovering /\ configuration = Default /\ lockCount = 0
  BY <1>1 DEF RecoveryInv
<1>3. ASSUME operation \in {"checkInactive", "eraseInactive"}, OnBlobLoaded
      PROVE  /\ configuration' = Stored
             /\ recovered' = "stored" <=> Valid(flash[1]) \/ Valid(flash[2])
  <2>1. /\ success <=> Valid(flash[activeBlob])
        /\ blob = flash[activeBlob] /\ activeBlob \in {1, 2}
        /\ activeBlob = 2 => ~Valid(flash[1])
        /\ ~success => activeBlob = 2
    BY <1>1, <1>3 DEF TypeOK, PhaseInv
  <2>2. configuration' = IF success THEN blob ELSE Default
    BY <1>2, <1>3 DEF OnBlobLoaded, Deserialize
  <2>3. recovered' = IF success THEN "stored" ELSE "default"
    BY <1>3 DEF OnBlobLoaded
  <2> QED
    BY <2>1, <2>2, <2>3 DEF Stored
<1>4. CASE InactiveChecked
  BY <1>3, <1>4 DEF InactiveChecked
<1>5. CASE InactiveErased
  BY <1>3, <1>5 DEF InactiveErased
<1>6. CASE BothErased
  BY <1>1, <1>2, <1>6 DEF BothErased, PhaseInv, Stored
<1>7. CASE DefaultRead \/ DefaultErased \/ DefaultWritten \/ FirstRead \/ SecondRead
           \/ BothErasedInactive \/ BlobWritten \/ OldErased
  BY <1>7 DEF DefaultRead, DefaultErased, DefaultWritten, FirstRead, SecondRead, BothErasedInactive,
              BlobWritten, OldErased, ramVars
<1>8. CASE CallWrite \/ Lock \/ Unlock \/ Change \/ Crash \/ UNCHANGED vars
  BY <1>8 DEF CallWrite, Lock, Unlock, Change, Crash, ramVars, vars
<1> QED
  BY <1>4, <1>5, <1>6, <1>7, <1>8 DEF Next, Completion

\* Recovery delivers what is stored and tells so, or else delivers the factory default.
THEOREM RecoveryDelivers == Spec => RecoversStored
<1>1. IInv /\ [Next]_vars =>
        [recovered = "no" /\ recovered' # "no" =>
            /\ configuration' = Stored
            /\ recovered' = "stored" <=> Valid(flash[1]) \/ Valid(flash[2])]_vars
  BY RecoveredStep
<1> QED
  BY <1>1, InvAlways, PTL DEF Spec, RecoversStored

====
