---------------------------- MODULE ThreadsProofs ----------------------------
(***************************************************************************)
(* Proofs about StdLock, for any number of threads and mutexes, and about  *)
(* SharedPtr, which threads share objects with, for any number of          *)
(* pointers, objects and scheduled actions, as long as no SharedPtr is     *)
(* assigned from a WeakPtr; and about StdThread on FreeRTOS, for any       *)
(* number of threads that are joined or detached.                          *)
(***************************************************************************)
EXTENDS StdLock, FiniteSetTheorems, SequenceTheorems, TLAPS

---------------------------------------------------------------------------
(* The inductive invariant *)

Record == [pc: {"idle", "first", "try", "return", "backOut", "use"}, call: {"none", "lock", "try_lock"},
           args: Seq(Mutexes), first: Nat, owned: Seq(Mutexes), crash: BOOLEAN]

HeldIn(h, t) == {m \in Mutexes : h[m] = t}

\* Several mutexes, all of them different
Different(args) == /\ args \in Seq(Mutexes) /\ Len(args) > 1
                   /\ \A i, j \in 1 .. Len(args) : args[i] = args[j] => i = j

\* The places in args of the mutexes that the thread has: those of its unique_locks, and, once
\* they are released, all of try_lock and all but the first of lock
Places(r) == IF r.pc \in {"return", "use"}
             THEN {i \in 1 .. Len(r.args) : i <= Len(r.owned) \/ r.call = "try_lock" \/ i # 1}
             ELSE 1 .. Len(r.owned)

\* The unique_locks own the first of args, in their order, and the thread has what they own.
Sound(r, held) ==
    /\ r \in Record
    /\ r.pc # "idle" => r.call # "none" /\ Different(r.args)
    /\ Len(r.owned) <= Len(r.args)
    /\ \A i \in 1 .. Len(r.owned) : r.owned[i] = r.args[i]
    /\ r.pc \in {"idle", "first", "use"} => r.owned = <<>>
    /\ r.pc = "first" => r.call = "lock"
    /\ r.pc = "backOut" => r.first < Len(r.args)
    /\ held = {r.args[i] : i \in Places(r)}

IInv ==
    /\ holder \in [Mutexes -> Threads \cup {None}]
    /\ DOMAIN threads = Threads
    /\ \A t \in Threads : Sound(threads[t], HeldIn(holder, t))

---------------------------------------------------------------------------
(* Lemmas *)

\* The arguments of a call are different mutexes.
LEMMA OrdersDifferent ==
    ASSUME Assumptions, NEW args \in Orders
    PROVE  Different(args)
<1>1. PICK S \in SUBSET Mutexes : args \in SetToSeqs(S)
  BY DEF Orders, SetToAllKPermutations
<1>2. Cardinality(S) \in Nat
  BY <1>1, FS_Subset, FS_CardinalityType DEF Assumptions
<1>3. args \in [1 .. Cardinality(S) -> S] /\ \A i, j \in 1 .. Cardinality(S) : i # j => args[i] # args[j]
  BY <1>1 DEF SetToSeqs
<1>4. args \in Seq(Mutexes) /\ Len(args) = Cardinality(S)
  BY <1>1, <1>2, <1>3
<1>5. Len(args) > 1
  BY DEF Orders
<1> QED
  BY <1>3, <1>4, <1>5 DEF Different

\* A step of a thread that leaves the others what they have.
LEMMA ThreadStep ==
    ASSUME IInv, NEW t \in Threads, NEW r, threads' = [threads EXCEPT ![t] = r],
           holder' \in [Mutexes -> Threads \cup {None}],
           \A u \in Threads \ {t} : HeldIn(holder', u) = HeldIn(holder, u),
           Sound(r, HeldIn(holder', t))
    PROVE  IInv'
<1>1. DOMAIN threads' = Threads /\ threads'[t] = r /\ \A u \in Threads \ {t} : threads'[u] = threads[u]
  BY DEF IInv
<1>2. \A u \in Threads : Sound(threads'[u], HeldIn(holder', u))
  BY <1>1 DEF IInv
<1>3. \A u \in Threads : Sound(threads[u], HeldIn(holder, u))'
  BY <1>2 DEF Sound, Record, HeldIn, Places, Different
<1> QED
  BY <1>1, <1>3 DEF IInv

\* A mutex that was free is taken.
LEMMA Take ==
    ASSUME Assumptions, IInv, NEW t \in Threads, NEW m \in Mutexes, holder[m] = None,
           holder' = [holder EXCEPT ![m] = t]
    PROVE  /\ holder' \in [Mutexes -> Threads \cup {None}]
           /\ \A u \in Threads \ {t} : HeldIn(holder', u) = HeldIn(holder, u)
           /\ HeldIn(holder', t) = HeldIn(holder, t) \cup {m}
  BY DEF Assumptions, IInv, HeldIn

\* A mutex is unlocked by the thread that has it.
LEMMA Drop ==
    ASSUME Assumptions, IInv, NEW t \in Threads, NEW m \in HeldIn(holder, t),
           holder' = [holder EXCEPT ![m] = None]
    PROVE  /\ holder' \in [Mutexes -> Threads \cup {None}]
           /\ \A u \in Threads \ {t} : HeldIn(holder', u) = HeldIn(holder, u)
           /\ HeldIn(holder', t) = HeldIn(holder, t) \ {m}
  BY DEF Assumptions, IInv, HeldIn

\* Taking mutexes in another order, beginning with one that was not free.
LEMMA RotatedDifferent ==
    ASSUME NEW args, Different(args), NEW first \in Nat, first < Len(args)
    PROVE  Different(Rotated(args, first))
<1> DEFINE n == Len(args)
           a == SubSeq(args, first + 1, n)
           b == SubSeq(args, 1, first)
           c == Rotated(args, first)
<1>1. args \in Seq(Mutexes) /\ n \in Nat /\ n > 1 /\ \A i, j \in 1 .. n : args[i] = args[j] => i = j
  BY DEF Different
<1>2. a \in Seq(Mutexes) /\ Len(a) = n - first /\ \A i \in 1 .. n - first : a[i] = args[first + i]
  BY <1>1, SubSeqProperties
<1>3. b \in Seq(Mutexes) /\ Len(b) = first /\ \A i \in 1 .. first : b[i] = args[i]
  BY <1>1, SubSeqProperties
<1>4. c = a \o b
  BY DEF Rotated
<1> HIDE DEF a, b, c
<1>5. c \in Seq(Mutexes) /\ Len(c) = n /\ \A i \in 1 .. n : c[i] = IF i <= n - first THEN a[i] ELSE b[i - (n - first)]
  BY <1>1, <1>2, <1>3, <1>4, ConcatProperties
<1>6. \A i \in 1 .. n : c[i] = args[IF i <= n - first THEN first + i ELSE i - (n - first)]
  BY <1>1, <1>2, <1>3, <1>5
<1>7. ASSUME NEW i \in 1 .. n, NEW j \in 1 .. n, c[i] = c[j] PROVE i = j
  <2> DEFINE place(k) == IF k <= n - first THEN first + k ELSE k - (n - first)
  <2>1. \A k \in 1 .. n : place(k) \in 1 .. n
    BY <1>1
  <2>2. args[place(i)] = args[place(j)]
    BY <1>6, <1>7
  <2>3. place(i) = place(j)
    <3> HIDE DEF place
    <3> QED
      BY <1>1, <2>1, <2>2
  <2> QED
    BY <1>1, <2>3
<1> QED
  BY <1>1, <1>5, <1>7 DEF Different, c

---------------------------------------------------------------------------
(* The steps *)

\* lock and try_lock are called by a thread that has nothing.
LEMMA CallStep ==
    ASSUME Assumptions, IInv, NEW t \in Threads, Lock(t) \/ TryLock(t)
    PROVE  IInv'
<1>1. /\ threads[t].pc = "idle" /\ Sound(threads[t], HeldIn(holder, t)) /\ holder' = holder
      /\ holder \in [Mutexes -> Threads \cup {None}]
  BY DEF Lock, TryLock, IInv
<1>2. HeldIn(holder, t) = {}
  <2>1. threads[t].owned = <<>> /\ HeldIn(holder, t) = {threads[t].args[i] : i \in 1 .. Len(threads[t].owned)}
    BY <1>1, SMTT(40) DEF Sound, Places
  <2> QED
    BY <2>1, EmptySeq
<1>3. PICK args \in Orders, pc \in {"first", "try"}, call \in {"lock", "try_lock"} :
            /\ pc = "first" => call = "lock"
            /\ threads' = [threads EXCEPT ![t] = [Idle EXCEPT !.pc = pc, !.call = call, !.args = args]]
  BY ZenonT(60) DEF Lock, TryLock
<1> DEFINE r == [Idle EXCEPT !.pc = pc, !.call = call, !.args = args]
<1>4. Different(args)
  BY OrdersDifferent
<1>5. Idle \in Record /\ Idle.owned = <<>>
  BY EmptySeq DEF Idle, Record
<1>6. r \in Record /\ r.pc = pc /\ r.call = call /\ r.args = args /\ r.owned = <<>>
  BY <1>4, <1>5 DEF Record, Different
<1> HIDE DEF r
<1>7. Places(r) = {}
  BY <1>6, EmptySeq DEF Places
<1>8. Len(r.owned) = 0 /\ Len(r.args) \in Nat
  BY <1>4, <1>6, EmptySeq, LenProperties DEF Different
<1>9. Sound(r, HeldIn(holder', t))
  BY <1>1, <1>2, <1>3, <1>4, <1>6, <1>7, <1>8 DEF Sound
<1> QED
  BY <1>1, <1>3, <1>9, ThreadStep DEF r

\* What the invariant says of a thread, in terms of lengths and places.
LEMMA ThreadFacts ==
    ASSUME IInv, NEW t \in Threads
    PROVE  /\ Sound(threads[t], HeldIn(holder, t)) /\ threads[t] \in Record
           /\ threads[t].args \in Seq(Mutexes) /\ threads[t].owned \in Seq(Mutexes)
           /\ Len(threads[t].args) \in Nat /\ Len(threads[t].owned) \in Nat
           /\ Len(threads[t].owned) <= Len(threads[t].args)
           /\ \A i \in 1 .. Len(threads[t].owned) : threads[t].owned[i] = threads[t].args[i]
           /\ holder \in [Mutexes -> Threads \cup {None}]
           /\ HeldIn(holder, t) = {threads[t].args[i] : i \in Places(threads[t])}
<1>1. Sound(threads[t], HeldIn(holder, t)) /\ holder \in [Mutexes -> Threads \cup {None}]
  BY DEF IInv
<1>2. threads[t] \in Record
  BY <1>1 DEF Sound
<1>3. threads[t].args \in Seq(Mutexes) /\ threads[t].owned \in Seq(Mutexes)
  BY <1>2 DEF Record
<1>4. Len(threads[t].args) \in Nat /\ Len(threads[t].owned) \in Nat
  BY <1>3, LenProperties
<1> QED
  BY <1>1, <1>2, <1>3, <1>4 DEF Sound

\* lock_helper has its first mutex.
LEMMA LockFirstStep ==
    ASSUME Assumptions, IInv, NEW t \in Threads, LockFirst(t)
    PROVE  IInv'
<1> DEFINE old == threads[t]
           m == Head(old.args)
           r == [old EXCEPT !.pc = "try", !.owned = <<m>>]
<1>1. old.pc = "first" /\ holder[m] = None /\ holder' = [holder EXCEPT ![m] = t] /\ threads' = [threads EXCEPT ![t] = r]
  BY DEF LockFirst
<1>2. Different(old.args) /\ old.owned = <<>> /\ old.call = "lock" /\ old \in Record
  BY <1>1, ThreadFacts DEF Sound
<1>3. m = old.args[1] /\ m \in Mutexes /\ Len(old.args) \in Nat /\ Len(old.args) > 1
  BY <1>2, ElementOfSeq, LenProperties, HeadTailProperties, EmptySeq DEF Different
<1>4. HeldIn(holder, t) = {}
  BY <1>1, <1>2, ThreadFacts, EmptySeq DEF Places
<1>5. Len(<<m>>) = 1 /\ <<m>>[1] = m /\ <<m>> \in Seq(Mutexes)
  BY <1>3
<1>6. r \in Record /\ r.pc = "try" /\ r.call = "lock" /\ r.args = old.args /\ r.owned = <<m>>
  BY <1>2, <1>5 DEF Record
<1> HIDE DEF r, old
<1>7. Places(r) = {1}
  BY <1>6, <1>5 DEF Places
<1>8. /\ holder' \in [Mutexes -> Threads \cup {None}]
      /\ \A u \in Threads \ {t} : HeldIn(holder', u) = HeldIn(holder, u)
      /\ HeldIn(holder', t) = HeldIn(holder, t) \cup {m}
  BY <1>1, <1>3, Take
<1>9. Sound(r, HeldIn(holder', t))
  BY <1>2, <1>3, <1>4, <1>6, <1>5, <1>7, <1>8 DEF Sound
<1> QED
  BY <1>1, <1>8, <1>9, ThreadStep

\* The next mutex is tried; it is taken when it is free.
LEMMA TryStep ==
    ASSUME Assumptions, IInv, NEW t \in Threads, Try(t)
    PROVE  IInv'
<1> DEFINE old == threads[t]
           n == Len(old.owned)
           m == old.args[n + 1]
<1>1. /\ old.pc = "try" /\ old.call # "none" /\ Different(old.args) /\ old \in Record
      /\ old.owned \in Seq(Mutexes) /\ old.args \in Seq(Mutexes)
      /\ n \in Nat /\ Len(old.args) \in Nat /\ n <= Len(old.args) /\ \A i \in 1 .. n : old.owned[i] = old.args[i]
  BY ThreadFacts DEF Sound, Try
<1>2. HeldIn(holder, t) = {old.args[i] : i \in 1 .. n}
  BY <1>1, ThreadFacts DEF Places
<1>3. holder \in [Mutexes -> Threads \cup {None}]
  BY DEF IInv
<1>4. CASE n = Len(old.args) /\ threads' = [threads EXCEPT ![t] = [@ EXCEPT !.pc = "return"]] /\ UNCHANGED holder
  <2> DEFINE r == [old EXCEPT !.pc = "return"]
  <2>1. r \in Record /\ r.pc = "return" /\ r.call = old.call /\ r.args = old.args /\ r.owned = old.owned
    BY <1>1 DEF Record
  <2>2. threads' = [threads EXCEPT ![t] = r]
    BY <1>4
  <2> HIDE DEF r, old
  <2>3. Places(r) = 1 .. n
    BY <1>1, <1>4, <2>1 DEF Places, n
  <2>4. Sound(r, HeldIn(holder', t))
    BY <1>1, <1>2, <1>4, <2>1, <2>3 DEF Sound, n
  <2> QED
    BY <1>3, <1>4, <2>2, <2>4, ThreadStep
<1>5. CASE /\ n < Len(old.args) /\ holder[m] = None /\ holder' = [holder EXCEPT ![m] = t]
           /\ threads' = [threads EXCEPT ![t] = [@ EXCEPT !.owned = Append(old.owned, m)]]
  <2> DEFINE r == [old EXCEPT !.owned = Append(old.owned, m)]
  <2>1. n + 1 \in 1 .. Len(old.args) /\ m \in Mutexes
    BY <1>1, <1>5, ElementOfSeq
  <2>2. /\ Append(old.owned, m) \in Seq(Mutexes) /\ Len(Append(old.owned, m)) = n + 1
        /\ \A i \in 1 .. n + 1 : Append(old.owned, m)[i] = old.args[i]
    BY <1>1, <2>1, AppendProperties
  <2>3. r \in Record /\ r.pc = "try" /\ r.call = old.call /\ r.args = old.args /\ r.owned = Append(old.owned, m)
    BY <1>1, <2>2 DEF Record
  <2>4. threads' = [threads EXCEPT ![t] = r]
    BY <1>5
  <2>5. /\ holder' \in [Mutexes -> Threads \cup {None}]
        /\ \A u \in Threads \ {t} : HeldIn(holder', u) = HeldIn(holder, u)
        /\ HeldIn(holder', t) = HeldIn(holder, t) \cup {m}
    BY <1>5, <2>1, Take
  <2> HIDE DEF r, old, n
  <2>6. Places(r) = 1 .. n + 1
    BY <2>2, <2>3 DEF Places
  <2>7. HeldIn(holder', t) = {r.args[i] : i \in Places(r)}
    <3>1. 1 .. n + 1 = (1 .. n) \cup {n + 1}
      BY <1>1
    <3> QED
      BY <1>2, <2>3, <2>5, <2>6, <3>1
  <2>8. Sound(r, HeldIn(holder', t))
    BY <1>1, <2>1, <2>2, <2>3, <2>7 DEF Sound
  <2> QED
    BY <2>4, <2>5, <2>8, ThreadStep
<1>6. CASE /\ n < Len(old.args) /\ UNCHANGED holder
           /\ threads' = [threads EXCEPT ![t] = [@ EXCEPT !.pc = "backOut", !.first = n]]
  <2> DEFINE r == [old EXCEPT !.pc = "backOut", !.first = n]
  <2>1. r \in Record /\ r.pc = "backOut" /\ r.call = old.call /\ r.args = old.args /\ r.owned = old.owned /\ r.first = n
    BY <1>1 DEF Record
  <2>2. threads' = [threads EXCEPT ![t] = r]
    BY <1>6
  <2> HIDE DEF r, old
  <2>3. Places(r) = 1 .. n
    BY <2>1 DEF Places, n
  <2>4. Sound(r, HeldIn(holder', t))
    BY <1>1, <1>2, <1>6, <2>1, <2>3 DEF Sound, n
  <2> QED
    BY <1>3, <1>6, <2>2, <2>4, ThreadStep
<1> QED
  BY <1>4, <1>5, <1>6, SMTT(40) DEF Try

\* The sequence without its last: the youngest unique_lock is gone.
LEMMA FrontFacts ==
    ASSUME NEW s \in Seq(Mutexes), s # <<>>
    PROVE  /\ Len(s) \in Nat /\ Len(s) >= 1 /\ Last(s) = s[Len(s)] /\ Last(s) \in Mutexes
           /\ Front(s) \in Seq(Mutexes) /\ Len(Front(s)) = Len(s) - 1
           /\ \A i \in 1 .. Len(s) - 1 : Front(s)[i] = s[i]
<1>1. Len(s) \in Nat /\ Len(s) >= 1
  BY EmptySeq, LenProperties
<1>2. Front(s) \in Seq(Mutexes) /\ Len(Front(s)) = Len(s) - 1 /\ \A i \in 1 .. Len(s) - 1 : Front(s)[i] = s[i]
  <2>1. PICK n \in Nat : n = Len(s) - 1
    BY <1>1
  <2>2. \A i \in 1 .. n : s[i] \in Mutexes
    BY <1>1, <2>1, ElementOfSeq
  <2> DEFINE f == SubSeq(s, 1, n)
  <2>3. f \in Seq(Mutexes) /\ Len(f) = (IF 1 <= n THEN n - 1 + 1 ELSE 0) /\ \A i \in 1 .. n - 1 + 1 : f[i] = s[1 + i - 1]
    BY <2>2, SubSeqProperties
  <2> HIDE DEF f
  <2>4. Len(f) = n /\ \A i \in 1 .. n : f[i] = s[i]
    <3>1. n - 1 + 1 = n /\ \A i \in 1 .. n : 1 + i - 1 = i
      OBVIOUS
    <3> QED
      BY <2>3, <3>1
  <2> QED
    BY <2>1, <2>3, <2>4 DEF Front, f
<1> QED
  BY <1>1, <1>2, ElementOfSeq DEF Last

\* A call returns: the unique_locks go, the youngest first, and all but the first of lock have
\* been released from them.
LEMMA ReturnStep ==
    ASSUME Assumptions, IInv, NEW t \in Threads, Return(t)
    PROVE  IInv'
<1> DEFINE old == threads[t]
           n == Len(old.owned)
           m == Last(old.owned)
<1>1. /\ old.pc = "return" /\ old.call \in {"lock", "try_lock"} /\ Different(old.args) /\ old \in Record
      /\ old.owned \in Seq(Mutexes) /\ old.args \in Seq(Mutexes)
      /\ n \in Nat /\ Len(old.args) \in Nat /\ n <= Len(old.args) /\ \A i \in 1 .. n : old.owned[i] = old.args[i]
  BY ThreadFacts DEF Sound, Return, Record
<1>2. HeldIn(holder, t) = {old.args[i] : i \in {i \in 1 .. Len(old.args) : i <= n \/ old.call = "try_lock" \/ i # 1}}
  BY <1>1, ThreadFacts DEF Places
<1>3. holder \in [Mutexes -> Threads \cup {None}]
  BY DEF IInv
<1>4. CASE /\ old.owned # <<>> /\ holder' = (IF m \in Release(t) THEN holder ELSE [holder EXCEPT ![m] = None])
           /\ threads' = [threads EXCEPT ![t] = [@ EXCEPT !.owned = Front(old.owned)]]
  <2> DEFINE r == [old EXCEPT !.owned = Front(old.owned)]
  <2>1. /\ n >= 1 /\ m = old.args[n] /\ m \in Mutexes /\ Front(old.owned) \in Seq(Mutexes) /\ Len(Front(old.owned)) = n - 1
        /\ \A i \in 1 .. n - 1 : Front(old.owned)[i] = old.args[i]
    <3>1. /\ n >= 1 /\ m = old.owned[n] /\ m \in Mutexes /\ Front(old.owned) \in Seq(Mutexes) /\ Len(Front(old.owned)) = n - 1
          /\ \A i \in 1 .. n - 1 : Front(old.owned)[i] = old.owned[i]
      BY <1>1, <1>4, FrontFacts
    <3>2. n \in 1 .. n /\ \A i \in 1 .. n - 1 : i \in 1 .. n
      BY <1>1, <3>1
    <3> QED
      BY <1>1, <3>1, <3>2
  <2>2. r \in Record /\ r.pc = "return" /\ r.call = old.call /\ r.args = old.args /\ r.owned = Front(old.owned)
    BY <1>1, <2>1 DEF Record
  <2>3. threads' = [threads EXCEPT ![t] = r]
    BY <1>4
  <2>4. m \in Release(t) <=> (old.call = "try_lock" \/ n # 1)
    <3>1. Head(old.args) = old.args[1] /\ 1 \in 1 .. Len(old.args) /\ n \in 1 .. Len(old.args)
      BY <1>1, <2>1 DEF Different
    <3>2. Contains(old.owned, m)
      BY <1>1, <2>1 DEF Contains
    <3>3. m = Head(old.args) <=> n = 1
      BY <1>1, <2>1, <3>1, ZenonT(60) DEF Different
    <3> QED
      BY <1>1, <2>1, <3>2, <3>3 DEF Release
  <2> HIDE DEF r, old, n, m
  <2>5. Places(r) = {i \in 1 .. Len(old.args) : i <= n - 1 \/ old.call = "try_lock" \/ i # 1}
    BY <2>1, <2>2 DEF Places
  <2>6. Len(r.owned) <= Len(r.args) /\ \A i \in 1 .. Len(r.owned) : r.owned[i] = r.args[i]
    BY <1>1, <2>1, <2>2
  <2>7. ASSUME HeldIn(holder', t) = {r.args[i] : i \in Places(r)} PROVE Sound(r, HeldIn(holder', t))
    BY <1>1, <2>2, <2>6, <2>7 DEF Sound
  <2>8. CASE m \in Release(t)
    <3>1. {i \in 1 .. Len(old.args) : i <= n - 1 \/ old.call = "try_lock" \/ i # 1}
          = {i \in 1 .. Len(old.args) : i <= n \/ old.call = "try_lock" \/ i # 1}
      BY <1>1, <2>1, <2>4, <2>8
    <3>2. holder' = holder
      BY <1>4, <2>8
    <3>3. HeldIn(holder', t) = {r.args[i] : i \in Places(r)}
      BY <1>2, <2>2, <2>5, <3>1, <3>2
    <3> QED
      BY <1>3, <2>3, <2>7, <3>2, <3>3, ThreadStep
  <2>9. CASE m \notin Release(t)
    <3>1. n = 1 /\ old.call = "lock" /\ holder' = [holder EXCEPT ![m] = None]
      BY <1>1, <1>4, <2>4, <2>9
    <3>2. {i \in 1 .. Len(old.args) : i <= n - 1 \/ old.call = "try_lock" \/ i # 1} = (1 .. Len(old.args)) \ {1}
      BY <1>1, <3>1
    <3>3. {i \in 1 .. Len(old.args) : i <= n \/ old.call = "try_lock" \/ i # 1} = 1 .. Len(old.args)
      BY <1>1, <3>1
    <3>4. HeldIn(holder, t) = {old.args[i] : i \in 1 .. Len(old.args)}
      BY <1>2, <3>3
    <3>5. m = old.args[1] /\ 1 \in 1 .. Len(old.args)
      BY <1>1, <2>1, <3>1
    <3>6. /\ holder' \in [Mutexes -> Threads \cup {None}]
          /\ \A u \in Threads \ {t} : HeldIn(holder', u) = HeldIn(holder, u)
          /\ HeldIn(holder', t) = HeldIn(holder, t) \ {m}
      BY <3>1, <3>4, <3>5, Drop, ZenonT(60)
    <3>7. {old.args[i] : i \in 1 .. Len(old.args)} \ {m} = {old.args[i] : i \in (1 .. Len(old.args)) \ {1}}
      BY <1>1, <3>5 DEF Different
    <3>8. HeldIn(holder', t) = {r.args[i] : i \in Places(r)}
      <4>1. Places(r) = (1 .. Len(old.args)) \ {1}
        BY <2>5, <3>2
      <4>2. {r.args[i] : i \in Places(r)} = {old.args[i] : i \in (1 .. Len(old.args)) \ {1}}
        BY <2>2, <4>1
      <4>3. HeldIn(holder', t) = {old.args[i] : i \in 1 .. Len(old.args)} \ {m}
        BY <3>4, <3>6
      <4> QED
        BY <3>7, <4>2, <4>3, Zenon
    <3> QED
      BY <2>3, <2>7, <3>6, <3>8, ThreadStep
  <2> QED
    BY <2>8, <2>9
<1>5. CASE /\ old.owned = <<>> /\ UNCHANGED holder /\ threads' = [threads EXCEPT ![t] = [@ EXCEPT !.pc = "use"]]
  <2> DEFINE r == [old EXCEPT !.pc = "use"]
  <2>1. r \in Record /\ r.pc = "use" /\ r.call = old.call /\ r.args = old.args /\ r.owned = old.owned
    BY <1>1 DEF Record
  <2>2. threads' = [threads EXCEPT ![t] = r]
    BY <1>5
  <2> HIDE DEF r, old
  <2>3. Places(r) = {i \in 1 .. Len(old.args) : i <= n \/ old.call = "try_lock" \/ i # 1}
    BY <2>1 DEF Places, n
  <2>4. Sound(r, HeldIn(holder', t))
    BY <1>1, <1>2, <1>5, <2>1, <2>3 DEF Sound, n
  <2> QED
    BY <1>3, <1>5, <2>2, <2>4, ThreadStep
<1> QED
  BY <1>4, <1>5 DEF Return

\* After a mutex that was not free all are unlocked, the youngest unique_lock first, and lock
\* begins again with the one that was not free.
LEMMA BackOutStep ==
    ASSUME Assumptions, IInv, NEW t \in Threads, BackOut(t)
    PROVE  IInv'
<1> DEFINE old == threads[t]
           n == Len(old.owned)
           m == Last(old.owned)
<1>1. /\ old.pc = "backOut" /\ old.call \in {"lock", "try_lock"} /\ Different(old.args) /\ old \in Record
      /\ old.owned \in Seq(Mutexes) /\ old.args \in Seq(Mutexes) /\ old.first \in Nat /\ old.first < Len(old.args)
      /\ n \in Nat /\ Len(old.args) \in Nat /\ n <= Len(old.args) /\ \A i \in 1 .. n : old.owned[i] = old.args[i]
  BY ThreadFacts DEF Sound, BackOut, Record
<1>2. HeldIn(holder, t) = {old.args[i] : i \in 1 .. n}
  BY <1>1, ThreadFacts DEF Places
<1>3. holder \in [Mutexes -> Threads \cup {None}]
  BY DEF IInv
<1>4. CASE /\ old.owned # <<>> /\ holder' = [holder EXCEPT ![m] = None]
           /\ threads' = [threads EXCEPT ![t] = [@ EXCEPT !.owned = Front(old.owned)]]
  <2> DEFINE r == [old EXCEPT !.owned = Front(old.owned)]
  <2>1. /\ n >= 1 /\ m = old.args[n] /\ m \in Mutexes /\ Front(old.owned) \in Seq(Mutexes) /\ Len(Front(old.owned)) = n - 1
        /\ \A i \in 1 .. n - 1 : Front(old.owned)[i] = old.args[i]
    <3>1. /\ n >= 1 /\ m = old.owned[n] /\ m \in Mutexes /\ Front(old.owned) \in Seq(Mutexes) /\ Len(Front(old.owned)) = n - 1
          /\ \A i \in 1 .. n - 1 : Front(old.owned)[i] = old.owned[i]
      BY <1>1, <1>4, FrontFacts
    <3>2. n \in 1 .. n /\ \A i \in 1 .. n - 1 : i \in 1 .. n
      BY <1>1, <3>1
    <3> QED
      BY <1>1, <3>1, <3>2
  <2>2. r \in Record /\ r.pc = "backOut" /\ r.call = old.call /\ r.args = old.args /\ r.owned = Front(old.owned) /\ r.first = old.first
    BY <1>1, <2>1 DEF Record
  <2>3. threads' = [threads EXCEPT ![t] = r]
    BY <1>4
  <2> HIDE DEF r, old, n, m
  <2>4. Places(r) = 1 .. n - 1
    BY <2>1, <2>2 DEF Places
  <2>5. /\ holder' \in [Mutexes -> Threads \cup {None}]
        /\ \A u \in Threads \ {t} : HeldIn(holder', u) = HeldIn(holder, u)
        /\ HeldIn(holder', t) = HeldIn(holder, t) \ {m}
    <3>1. m \in HeldIn(holder, t)
      BY <1>1, <1>2, <2>1
    <3> QED
      BY <1>4, <3>1, Drop
  <2>6. {old.args[i] : i \in 1 .. n} \ {m} = {old.args[i] : i \in 1 .. n - 1}
    <3>1. \A i \in 1 .. n - 1 : i \in 1 .. n /\ old.args[i] # m
      BY <1>1, <2>1 DEF Different
    <3>2. \A i \in 1 .. n : i = n \/ i \in 1 .. n - 1
      BY <1>1, <2>1
    <3> QED
      BY <2>1, <3>1, <3>2
  <2>7. HeldIn(holder', t) = {r.args[i] : i \in Places(r)}
    <3>1. {r.args[i] : i \in Places(r)} = {old.args[i] : i \in 1 .. n - 1}
      BY <2>2, <2>4
    <3>2. HeldIn(holder', t) = {old.args[i] : i \in 1 .. n} \ {m}
      BY <1>2, <2>5
    <3> QED
      BY <2>6, <3>1, <3>2, Zenon
  <2>8. Len(r.owned) <= Len(r.args) /\ \A i \in 1 .. Len(r.owned) : r.owned[i] = r.args[i]
    BY <1>1, <2>1, <2>2
  <2>9. Sound(r, HeldIn(holder', t))
    BY <1>1, <2>2, <2>7, <2>8 DEF Sound
  <2> QED
    BY <2>3, <2>5, <2>9, ThreadStep
<1>5. ASSUME old.owned = <<>> PROVE HeldIn(holder, t) = {} /\ n = 0
  BY <1>2, <1>5, EmptySeq
<1>6. CASE /\ old.owned = <<>> /\ UNCHANGED holder /\ old.call = "lock"
           /\ threads' = [threads EXCEPT ![t] = [old EXCEPT !.pc = "first", !.args = Rotated(old.args, old.first)]]
  <2> DEFINE args == Rotated(old.args, old.first)
             r == [old EXCEPT !.pc = "first", !.args = args]
  <2>1. Different(args)
    BY <1>1, RotatedDifferent
  <2>2. args \in Seq(Mutexes) /\ Len(args) \in Nat
    BY <2>1, LenProperties DEF Different
  <2> HIDE DEF args
  <2>3. r \in Record /\ r.pc = "first" /\ r.call = "lock" /\ r.args = args /\ r.owned = <<>>
    BY <1>1, <1>6, <2>2 DEF Record
  <2>4. threads' = [threads EXCEPT ![t] = r]
    BY <1>6 DEF args
  <2> HIDE DEF r, old
  <2>5. Len(r.owned) = 0
    BY <2>3, EmptySeq
  <2>6. Places(r) = {}
    BY <2>3, <2>5 DEF Places
  <2>7. Sound(r, HeldIn(holder', t))
    BY <1>5, <1>6, <2>1, <2>2, <2>3, <2>5, <2>6 DEF Sound
  <2> QED
    BY <1>3, <1>6, <2>4, <2>7, ThreadStep
<1>7. CASE old.owned = <<>> /\ UNCHANGED holder /\ threads' = [threads EXCEPT ![t] = Idle]
  <2>1. Idle \in Record /\ Idle.pc = "idle" /\ Idle.owned = <<>> /\ Idle.args = <<>>
    BY EmptySeq DEF Idle, Record
  <2>2. Sound(Idle, {})
    BY <2>1, EmptySeq DEF Sound, Places
  <2> QED
    BY <1>3, <1>5, <1>7, <2>2, ThreadStep
<1>8. CASE /\ old.owned = <<>> /\ UNCHANGED holder
           /\ threads' = [threads EXCEPT ![t] = IF old.call = "lock"
                                                THEN [old EXCEPT !.pc = "first", !.args = Rotated(old.args, old.first)] ELSE Idle]
  <2>1. CASE old.call = "lock"
    BY <1>6, <1>8, <2>1
  <2>2. CASE old.call # "lock"
    BY <1>7, <1>8, <2>2
  <2> QED
    BY <2>1, <2>2
<1> QED
  BY <1>4, <1>8 DEF BackOut

\* A thread that has all the mutexes that it asked for unlocks them; otherwise unlock's assert
\* fails, and it has what it had.
LEMMA UnlockStep ==
    ASSUME Assumptions, IInv, NEW t \in Threads, Unlock(t)
    PROVE  IInv'
<1> DEFINE old == threads[t]
<1>1. old.pc = "use" /\ Sound(old, HeldIn(holder, t)) /\ old \in Record /\ holder \in [Mutexes -> Threads \cup {None}]
  BY ThreadFacts DEF Unlock
<1>2. CASE /\ holder' = [m \in Mutexes |-> IF m \in Held(t) THEN None ELSE holder[m]]
           /\ threads' = [threads EXCEPT ![t] = Idle]
  <2>1. Idle \in Record /\ Idle.pc = "idle" /\ Idle.owned = <<>> /\ Idle.args = <<>>
    BY EmptySeq DEF Idle, Record
  <2>2. Sound(Idle, {})
    BY <2>1, EmptySeq DEF Sound, Places
  <2>3. /\ holder' \in [Mutexes -> Threads \cup {None}]
        /\ \A u \in Threads \ {t} : HeldIn(holder', u) = HeldIn(holder, u)
        /\ HeldIn(holder', t) = {}
    BY <1>1, <1>2 DEF Held, HeldIn, Assumptions
  <2> QED
    BY <1>2, <2>2, <2>3, ThreadStep
<1>3. CASE UNCHANGED holder /\ threads' = [threads EXCEPT ![t] = [@ EXCEPT !.crash = TRUE]]
  <2> DEFINE r == [old EXCEPT !.crash = TRUE]
  <2>1. r \in Record /\ r.pc = "use" /\ r.call = old.call /\ r.args = old.args /\ r.owned = old.owned
    BY <1>1 DEF Record
  <2>2. threads' = [threads EXCEPT ![t] = r]
    BY <1>3
  <2> HIDE DEF r, old
  <2>3. Places(r) = Places(old)
    BY <1>1, <2>1 DEF Places
  <2>4. Sound(r, HeldIn(holder', t))
    BY <1>1, <1>3, <2>1, <2>3 DEF Sound
  <2> QED
    BY <1>1, <1>3, <2>2, <2>4, ThreadStep
<1> QED
  BY <1>2, <1>3 DEF Unlock

---------------------------------------------------------------------------
(* The theorems *)

\* In the beginning nothing is locked.
LEMMA InitInvariant ==
    ASSUME Assumptions, Init
    PROVE  IInv
<1>1. holder \in [Mutexes -> Threads \cup {None}] /\ DOMAIN threads = Threads
  BY DEF Init
<1>2. Idle \in Record /\ Idle.pc = "idle" /\ Idle.owned = <<>> /\ Idle.args = <<>>
  BY EmptySeq DEF Idle, Record
<1>3. Sound(Idle, {})
  BY <1>2, EmptySeq DEF Sound, Places
<1>4. \A t \in Threads : threads[t] = Idle /\ HeldIn(holder, t) = {}
  BY DEF Init, HeldIn, Assumptions
<1> QED
  BY <1>1, <1>3, <1>4 DEF IInv

\* Every step keeps the invariant.
LEMMA NextInvariant ==
    ASSUME Assumptions, IInv, [Next]_vars
    PROVE  IInv'
<1>1. CASE UNCHANGED vars
  BY <1>1 DEF vars, IInv, Sound, Record, HeldIn, Places, Different
<1>2. CASE Next
  BY <1>2, CallStep, LockFirstStep, TryStep, ReturnStep, BackOutStep, UnlockStep DEF Next
<1> QED
  BY <1>1, <1>2

\* Whatever the threads lock and try to lock, the unique_locks of a thread own the first of its
\* mutexes, and it has those and no others.
THEOREM Invariant ==
    ASSUME Assumptions
    PROVE  Spec => []IInv
<1>1. Init => IInv
  BY InitInvariant
<1>2. IInv /\ [Next]_vars => IInv'
  BY NextInvariant
<1> QED
  BY <1>1, <1>2, PTL DEF Spec

\* A thread that waits for a mutex in std::lock has none, in whatever order the threads take
\* them, so that none waits for another one that waits; and a failed try_lock leaves none locked.
THEOREM WaitersHoldNothing ==
    ASSUME Assumptions
    PROVE  Spec => []NoneHeldWhileWaiting
<1>1. IInv => NoneHeldWhileWaiting
  <2>1. SUFFICES ASSUME IInv, NEW t \in Threads, threads[t].pc \in {"first", "idle"} PROVE Held(t) = {}
    BY DEF NoneHeldWhileWaiting
  <2>2. threads[t].owned = <<>> /\ Held(t) = {threads[t].args[i] : i \in Places(threads[t])}
    BY <2>1, ThreadFacts DEF Sound, Held, HeldIn
  <2>3. Places(threads[t]) = {}
    BY <2>1, <2>2, EmptySeq DEF Places
  <2> QED
    BY <2>2, <2>3
<1> QED
  BY <1>1, Invariant, PTL

\* After a successful try_lock the thread has all the mutexes, and after lock all but possibly
\* the first.
THEOREM TriedAreHeld ==
    ASSUME Assumptions
    PROVE  Spec => []TriedHeld
<1>1. IInv => TriedHeld
  <2>1. SUFFICES ASSUME IInv, NEW t \in Threads, threads[t].pc = "use"
                 PROVE  ToSet(threads[t].args) \ (IF threads[t].call = "lock" THEN {Head(threads[t].args)} ELSE {}) \subseteq Held(t)
    BY DEF TriedHeld
  <2> DEFINE r == threads[t]
  <2>2. /\ r.call \in {"lock", "try_lock"} /\ Different(r.args) /\ Held(t) = {r.args[i] : i \in Places(r)}
    BY <2>1, ThreadFacts DEF Sound, Held, HeldIn, Record
  <2>3. DOMAIN r.args = 1 .. Len(r.args) /\ Head(r.args) = r.args[1]
    BY <2>2 DEF Different
  <2>4. ASSUME NEW i \in 1 .. Len(r.args), r.call = "lock" => r.args[i] # r.args[1] PROVE r.args[i] \in Held(t)
    BY <2>1, <2>2, <2>4 DEF Places
  <2> QED
    BY <2>3, <2>4 DEF ToSet
<1> QED
  BY <1>1, Invariant, PTL

---------------------------------------------------------------------------
(* SharedPtr *)

CONSTANTS SharedPtrs, WeakPtrs, MaxGenerations, MaxScheduled, AssignFromWeakPtr

VARIABLES sharedPtrCount, weakPtrCount, allocatable, object, generation, pointer, destructing,
          scheduled, running, executed

Ptr == INSTANCE SharedPtr

\* The operators of FiniteSets that SharedPtr uses are those of this module.
LEMMA PtrFinite ==
    ASSUME NEW S
    PROVE  /\ Ptr!IsFiniteSet(S) <=> IsFiniteSet(S)
           /\ Ptr!Cardinality(S) = Cardinality(S)
<1>1. Ptr!IsFiniteSet(S) <=> IsFiniteSet(S)
  BY DEF Ptr!IsFiniteSet, IsFiniteSet
<1>2. Ptr!Cardinality(S) = Cardinality(S)
  BY DEF Ptr!Cardinality, Cardinality
<1> QED
  BY <1>1, <1>2

----------------------------------------------------------------------------
(* Pointers and their numbers *)

\* A pointer is null, shared or weak.
LEMMA PointerKinds ==
    ASSUME NEW x \in Ptr!Pointer
    PROVE  /\ x.kind \in {"null", "shared", "weak"}
           /\ x.kind = "null" <=> x = Ptr!Null
  BY DEF Ptr!Pointer, Ptr!Null, Ptr!Shared, Ptr!Weak

\* A pointer to the present object is one of the values that a variable can have.
LEMMA PointerValues ==
    ASSUME NEW g \in 1 .. MaxGenerations
    PROVE  /\ Ptr!Null \in Ptr!Pointer /\ Ptr!Null.kind = "null"
           /\ Ptr!Shared(g) \in Ptr!Pointer /\ Ptr!Shared(g).kind = "shared" /\ Ptr!Shared(g).of = g
           /\ Ptr!Weak(g) \in Ptr!Pointer /\ Ptr!Weak(g).kind = "weak" /\ Ptr!Weak(g).of = g
  BY DEF Ptr!Pointer, Ptr!Null, Ptr!Shared, Ptr!Weak

\* The variables of a kind
Number(f, kind) == Cardinality({p \in Ptr!Pointers : f[p].kind = kind})
Is(x, kind) == IF x.kind = kind THEN 1 ELSE 0

\* A set that loses or gains p counts one less or more.
LEMMA WithAndWithout ==
    ASSUME NEW S, IsFiniteSet(S), NEW p
    PROVE  /\ Cardinality(S) \in Nat /\ Cardinality(S \ {p}) \in Nat
           /\ Cardinality(S) = Cardinality(S \ {p}) + (IF p \in S THEN 1 ELSE 0)
<1>1. IsFiniteSet(S \ {p}) /\ Cardinality(S \ {p}) = IF p \in S THEN Cardinality(S) - 1 ELSE Cardinality(S)
  BY FS_RemoveElement
<1>2. Cardinality(S) \in Nat /\ Cardinality(S \ {p}) \in Nat
  BY <1>1, FS_CardinalityType
<1> QED
  BY <1>1, <1>2

\* What giving a variable another value does to the numbers.
LEMMA NumberUpdate ==
    ASSUME Ptr!Assumptions, NEW f \in [Ptr!Pointers -> Ptr!Pointer], NEW p \in Ptr!Pointers, NEW v \in Ptr!Pointer, NEW kind,
           NEW g \in [Ptr!Pointers -> Ptr!Pointer], g[p] = v, \A q \in Ptr!Pointers \ {p} : g[q] = f[q]
    PROVE  /\ Number(f, kind) \in Nat
           /\ Number(g, kind) = Number(f, kind) - Is(f[p], kind) + Is(v, kind)
           /\ Number(f, kind) >= Is(f[p], kind)
<1> DEFINE S == {q \in Ptr!Pointers : f[q].kind = kind}
           T == {q \in Ptr!Pointers : g[q].kind = kind}
<1>1. IsFiniteSet(Ptr!Pointers)
  BY FS_Union, PtrFinite DEF Ptr!Assumptions, Ptr!Pointers
<1>2. IsFiniteSet(S) /\ IsFiniteSet(T)
  BY <1>1, FS_Subset
<1>3. S \ {p} = T \ {p}
  OBVIOUS
<1>4. (p \in S <=> f[p].kind = kind) /\ (p \in T <=> v.kind = kind)
  OBVIOUS
<1>5. Number(f, kind) = Cardinality(S) /\ Number(g, kind) = Cardinality(T)
  BY DEF Number
<1> HIDE DEF S, T
<1>6. /\ Cardinality(S) \in Nat /\ Cardinality(S \ {p}) \in Nat
      /\ Cardinality(S) = Cardinality(S \ {p}) + (IF p \in S THEN 1 ELSE 0)
  BY <1>2, WithAndWithout
<1>7. Cardinality(T) = Cardinality(S \ {p}) + (IF p \in T THEN 1 ELSE 0)
  BY <1>2, <1>3, WithAndWithout
<1>8. Number(g, kind) = Number(f, kind) - Is(f[p], kind) + Is(v, kind) /\ Number(f, kind) >= Is(f[p], kind)
  BY <1>4, <1>5, <1>6, <1>7 DEF Is
<1> QED
  BY <1>5, <1>6, <1>8

\* If none is counted, there is none.
LEMMA NumberZero ==
    ASSUME Ptr!Assumptions, NEW f \in [Ptr!Pointers -> Ptr!Pointer], NEW kind, NEW p \in Ptr!Pointers, f[p].kind = kind
    PROVE  Number(f, kind) >= 1
<1>1. Number(f, kind) >= Is(f[p], kind)
  BY NumberUpdate, f[p] \in Ptr!Pointer
<1>2. Is(f[p], kind) = 1
  BY DEF Is
<1> QED
  BY <1>1, <1>2

\* Two that are counted count for two.
LEMMA NumberTwo ==
    ASSUME Ptr!Assumptions, NEW f \in [Ptr!Pointers -> Ptr!Pointer], NEW kind, NEW p \in Ptr!Pointers, NEW q \in Ptr!Pointers, p # q,
           f[p].kind = kind, f[q].kind = kind, kind # "null"
    PROVE  Number(f, kind) >= 2
<1> DEFINE g == [f EXCEPT ![p] = Ptr!Null]
<1>1. Ptr!Null \in Ptr!Pointer /\ Ptr!Null.kind = "null"
  BY DEF Ptr!Pointer, Ptr!Null
<1>2. g \in [Ptr!Pointers -> Ptr!Pointer] /\ g[p] = Ptr!Null /\ \A r \in Ptr!Pointers \ {p} : g[r] = f[r]
  BY <1>1
<1> HIDE DEF g
<1>3. Number(f, kind) \in Nat /\ Number(g, kind) = Number(f, kind) - Is(f[p], kind) + Is(Ptr!Null, kind)
  BY <1>1, <1>2, NumberUpdate
<1>4. Number(g, kind) >= 1
  BY <1>2, NumberZero
<1>5. Is(f[p], kind) = 1 /\ Is(Ptr!Null, kind) = 0
  BY <1>1 DEF Is
<1> QED
  BY <1>3, <1>4, <1>5

----------------------------------------------------------------------------
(* The inductive invariant *)

\* A scheduled action keeps a WeakPtr, a running one a SharedPtr; what is executed has not
\* been popped.
ActionInv ==
    /\ \A i \in 1 .. Len(scheduled) : scheduled[i].kind = "weak" /\ scheduled[i].of = generation
    /\ running.kind # "weak"
    /\ executed => running = Ptr!Null
    /\ executed \/ running # Ptr!Null => scheduled # <<>>

\* The counts, in terms of the numbers of variables and of actions.
NumberInv ==
    /\ sharedPtrCount = Number(pointer, "shared") + Is(running, "shared")
    /\ weakPtrCount = sharedPtrCount + Number(pointer, "weak") + Len(scheduled) + destructing

\* The object lives as long as it is shared.
AliveInv == /\ sharedPtrCount > 0 => object /\ destructing = 0
            /\ destructing <= 1

\* All pointers are to the present object, and its memory is free when there are none.
PresentInv ==
    /\ allocatable = (weakPtrCount = 0)
    /\ \A p \in Ptr!Pointers : pointer[p].kind # "null" => pointer[p].of = generation
    /\ running.kind # "null" => running.of = generation

PtrInv == Ptr!TypeOK /\ ActionInv /\ NumberInv /\ AliveInv /\ PresentInv

\* The counts in the next state.
LEMMA NumberNext ==
    ASSUME sharedPtrCount' = Number(pointer', "shared") + Is(running', "shared"),
           weakPtrCount' = sharedPtrCount' + Number(pointer', "weak") + Len(scheduled') + destructing'
    PROVE  NumberInv'
  BY DEF NumberInv, Number, Is

\* What follows from the invariant for the numbers.
LEMMA NumberFacts ==
    ASSUME Ptr!Assumptions, PtrInv
    PROVE  /\ Number(pointer, "shared") \in Nat /\ Number(pointer, "weak") \in Nat
           /\ Is(running, "shared") \in {0, 1} /\ Len(scheduled) \in Nat /\ destructing \in {0, 1}
           /\ sharedPtrCount \in Nat /\ weakPtrCount \in Nat
           /\ \A p \in Ptr!Pointers : pointer[p].kind = "shared" => Number(pointer, "shared") >= 1
           /\ \A p \in Ptr!Pointers : pointer[p].kind = "weak" => Number(pointer, "weak") >= 1
<1>1. Ptr!TypeOK /\ AliveInv
  BY DEF PtrInv
<1>2. IsFiniteSet(Ptr!Pointers)
  BY FS_Union, PtrFinite DEF Ptr!Assumptions, Ptr!Pointers
<1>3. ASSUME NEW kind PROVE Number(pointer, kind) \in Nat
  BY <1>2, FS_Subset, FS_CardinalityType DEF Number
<1>4. destructing \in {0, 1} /\ Is(running, "shared") \in {0, 1}
  BY <1>1 DEF Ptr!TypeOK, AliveInv, Ptr!Assumptions, Is
<1>5. Len(scheduled) \in Nat /\ sharedPtrCount \in Nat /\ weakPtrCount \in Nat
  BY <1>1, LenProperties DEF Ptr!TypeOK
<1>6. pointer \in [Ptr!Pointers -> Ptr!Pointer]
  BY <1>1 DEF Ptr!TypeOK
<1> QED
  BY <1>3, <1>4, <1>5, <1>6, NumberZero

----------------------------------------------------------------------------
(* Counting *)

\* SharedPtr::Reset: if the last SharedPtr goes, the destructor starts, and its share of the
\* weak count stays until it has ended.
LEMMA ReplaceFacts ==
    ASSUME Ptr!Assumptions, PtrInv, NEW old \in Ptr!Pointer, NEW new \in Ptr!Pointer, old.kind # "weak", new.kind # "weak",
           old.kind = "shared" => sharedPtrCount >= 1 /\ 1 <= MaxGenerations,
           new.kind = "shared" => sharedPtrCount >= 1,
           Ptr!Replace(old, new)
    PROVE  /\ sharedPtrCount' \in Nat /\ sharedPtrCount' = sharedPtrCount + Is(new, "shared") - Is(old, "shared")
           /\ weakPtrCount' \in Nat
           /\ weakPtrCount' = weakPtrCount + (destructing' - destructing) + (sharedPtrCount' - sharedPtrCount)
           /\ destructing' \in 0 .. MaxGenerations /\ destructing' <= 1
           /\ sharedPtrCount' > 0 => object' /\ destructing' = 0
           /\ allocatable' = (weakPtrCount' = 0) /\ allocatable' \in BOOLEAN /\ object' \in BOOLEAN
<1>1. Ptr!TypeOK /\ NumberInv /\ AliveInv /\ PresentInv
  BY DEF PtrInv
<1>2. /\ sharedPtrCount \in Nat /\ weakPtrCount \in Nat /\ destructing \in {0, 1} /\ MaxGenerations \in Nat
      /\ destructing \in 0 .. MaxGenerations /\ weakPtrCount >= sharedPtrCount + destructing
  BY <1>1, NumberFacts DEF NumberInv, Ptr!Assumptions, Ptr!TypeOK
<1>3. /\ Ptr!SharedRefs(old) = Is(old, "shared") /\ Ptr!WeakRefs(old) = Is(old, "shared") /\ Is(old, "shared") \in {0, 1}
      /\ Ptr!SharedRefs(new) = Is(new, "shared") /\ Ptr!WeakRefs(new) = Is(new, "shared") /\ Is(new, "shared") \in {0, 1}
      /\ (old.kind = "shared" <=> Is(old, "shared") = 1) /\ (new.kind = "shared" <=> Is(new, "shared") = 1)
  BY PointerKinds DEF Ptr!SharedRefs, Ptr!WeakRefs, Is
<1> DEFINE o == Is(old, "shared")
           n == Is(new, "shared")
           last == o = 1 /\ sharedPtrCount + n - o = 0
<1>4. /\ sharedPtrCount' = sharedPtrCount + n - o
      /\ destructing' = destructing + (IF last THEN 1 ELSE 0)
      /\ weakPtrCount' = weakPtrCount + n - (IF last THEN 0 ELSE o)
      /\ object' = object
  BY <1>3 DEF Ptr!Replace
<1>5. allocatable' = (allocatable \/ (o > 0 /\ weakPtrCount' = 0))
  BY <1>3 DEF Ptr!Replace
<1>6. o \in {0, 1} /\ n \in {0, 1} /\ (o = 1 => sharedPtrCount >= 1 /\ 1 <= MaxGenerations) /\ (n = 1 => sharedPtrCount >= 1)
  BY <1>3
<1>7. sharedPtrCount >= 1 => object /\ destructing = 0
  BY <1>1, <1>2 DEF AliveInv
<1>8. allocatable = (weakPtrCount = 0)
  BY <1>1 DEF PresentInv
<1> HIDE DEF o, n
<1>9. /\ sharedPtrCount' \in Nat /\ weakPtrCount' \in Nat
      /\ weakPtrCount' = weakPtrCount + (destructing' - destructing) + (sharedPtrCount' - sharedPtrCount)
      /\ destructing' \in 0 .. MaxGenerations /\ destructing' <= 1
      /\ sharedPtrCount' > 0 => sharedPtrCount >= 1 /\ destructing' = 0
  BY <1>2, <1>4, <1>6, <1>7
<1>10. /\ o > 0 => weakPtrCount # 0
       /\ ~(o > 0) => (weakPtrCount' = 0 <=> weakPtrCount = 0)
  BY <1>2, <1>4, <1>6
<1>11. allocatable' = (weakPtrCount' = 0)
  BY <1>5, <1>8, <1>10
<1>12. allocatable' \in BOOLEAN /\ object' \in BOOLEAN
  BY <1>1, <1>4, <1>11 DEF Ptr!TypeOK
<1>13. sharedPtrCount' > 0 => object' /\ destructing' = 0
  BY <1>4, <1>7, <1>9
<1> QED
  BY <1>4, <1>9, <1>11, <1>12, <1>13 DEF o, n

\* WeakPtr::Reset: the memory is not freed in between when what it is assigned from is
\* counted too.
LEMMA ReplaceWeakFacts ==
    ASSUME Ptr!Assumptions, PtrInv, NEW old \in Ptr!Pointer, NEW new \in Ptr!Pointer, old.kind # "shared", new.kind # "shared",
           weakPtrCount >= Is(old, "weak"),
           new.kind = "weak" => weakPtrCount > Is(old, "weak"),
           Ptr!ReplaceWeak(old, new)
    PROVE  /\ weakPtrCount' \in Nat /\ weakPtrCount' = weakPtrCount + Is(new, "weak") - Is(old, "weak")
           /\ allocatable' = (weakPtrCount' = 0) /\ allocatable' \in BOOLEAN
           /\ UNCHANGED <<sharedPtrCount, object, destructing>>
<1>1. Ptr!TypeOK /\ PresentInv
  BY DEF PtrInv
<1>2. /\ Ptr!WeakRefs(old) = Is(old, "weak") /\ Is(old, "weak") \in {0, 1}
      /\ Ptr!WeakRefs(new) = Is(new, "weak") /\ Is(new, "weak") \in {0, 1}
      /\ (new.kind = "weak" <=> Is(new, "weak") = 1)
  BY PointerKinds DEF Ptr!WeakRefs, Is
<1> DEFINE o == Is(old, "weak")
           n == Is(new, "weak")
<1>3. /\ weakPtrCount' = weakPtrCount - o + n /\ UNCHANGED <<sharedPtrCount, object, destructing>>
  BY <1>2 DEF Ptr!ReplaceWeak
<1>4. allocatable' = (allocatable \/ (o > 0 /\ weakPtrCount - o = 0))
  BY <1>2 DEF Ptr!ReplaceWeak
<1>5. /\ weakPtrCount \in Nat /\ o \in {0, 1} /\ n \in {0, 1} /\ weakPtrCount >= o
      /\ n = 1 => weakPtrCount > o
  BY <1>1, <1>2 DEF Ptr!TypeOK
<1>6. allocatable = (weakPtrCount = 0)
  BY <1>1 DEF PresentInv
<1> HIDE DEF o, n
<1>7. weakPtrCount' \in Nat /\ weakPtrCount' = weakPtrCount + n - o
  BY <1>3, <1>5
<1>8. /\ o > 0 => weakPtrCount # 0 /\ (weakPtrCount - o = 0 <=> weakPtrCount' = 0)
      /\ ~(o > 0) => (weakPtrCount' = 0 <=> weakPtrCount = 0)
  BY <1>3, <1>5
<1>9. allocatable' = (weakPtrCount' = 0)
  BY <1>4, <1>6, <1>8
<1>10. allocatable' \in BOOLEAN
  BY <1>9
<1> QED
  BY <1>3, <1>7, <1>9, <1>10 DEF o, n

----------------------------------------------------------------------------
(* The steps *)

\* The shared count follows when a value in a variable is replaced.
LEMMA SharedStep ==
    ASSUME NEW old, NEW v, Is(old, "shared") \in Int, Is(v, "shared") \in Int,
           Number(pointer, "shared") \in Int, Is(running, "shared") \in Int,
           sharedPtrCount = Number(pointer, "shared") + Is(running, "shared"),
           Number(pointer', "shared") = Number(pointer, "shared") - Is(old, "shared") + Is(v, "shared"),
           Is(running', "shared") = Is(running, "shared"),
           sharedPtrCount' = sharedPtrCount + Is(v, "shared") - Is(old, "shared")
    PROVE  sharedPtrCount' = Number(pointer', "shared") + Is(running', "shared")
  OBVIOUS

\* The weak count follows when a value in a variable is replaced.
LEMMA WeakStep ==
    ASSUME NEW old, NEW v, Is(old, "weak") \in Int, Is(v, "weak") \in Int,
           Number(pointer, "weak") \in Int, Len(scheduled) \in Int, destructing \in Int, destructing' \in Int,
           sharedPtrCount \in Int, sharedPtrCount' \in Int,
           weakPtrCount = sharedPtrCount + Number(pointer, "weak") + Len(scheduled) + destructing,
           Number(pointer', "weak") = Number(pointer, "weak") - Is(old, "weak") + Is(v, "weak"),
           Len(scheduled') = Len(scheduled),
           weakPtrCount' = weakPtrCount + (destructing' - destructing) + (sharedPtrCount' - sharedPtrCount)
                           + (Is(v, "weak") - Is(old, "weak"))
    PROVE  weakPtrCount' = sharedPtrCount' + Number(pointer', "weak") + Len(scheduled') + destructing'
<1>1. PICK n \in Int, o \in Int, x \in Int, l \in Int :
            n = Number(pointer, "weak") /\ o = Is(old, "weak") /\ x = Is(v, "weak") /\ l = Len(scheduled)
  OBVIOUS
<1>2. PICK s \in Int, r \in Int, d \in Int, e \in Int :
            s = sharedPtrCount /\ r = sharedPtrCount' /\ d = destructing /\ e = destructing'
  OBVIOUS
<1>3. weakPtrCount = s + n + l + d /\ weakPtrCount' = weakPtrCount + (e - d) + (r - s) + (x - o)
  BY <1>1, <1>2
<1>4. weakPtrCount' = r + (n - o + x) + l + e
  BY ONLY <1>3, n \in Int, o \in Int, x \in Int, l \in Int, s \in Int, r \in Int, d \in Int, e \in Int
<1> QED
  BY <1>1, <1>2, <1>4

\* A variable is given a value: a null pointer, or a pointer to the present object, made
\* from another pointer to it.
LEMMA AssignStep ==
    ASSUME Ptr!Assumptions, PtrInv, NEW p \in Ptr!Pointers, NEW v \in Ptr!Pointer, Ptr!Assign(p, v),
           v.kind # (IF p \in SharedPtrs THEN "weak" ELSE "shared"),
           v.kind = "shared" => sharedPtrCount >= 1,
           v.kind = "weak" => weakPtrCount > Is(pointer[p], "weak"),
           v.kind # "null" => v.of = generation
    PROVE  PtrInv'
<1>1. Ptr!TypeOK /\ ActionInv /\ NumberInv /\ AliveInv /\ PresentInv
  BY DEF PtrInv
<1> DEFINE old == pointer[p]
<1>2. /\ pointer' = [pointer EXCEPT ![p] = v] /\ UNCHANGED <<generation, scheduled, running, executed>>
      /\ pointer \in [Ptr!Pointers -> Ptr!Pointer] /\ old \in Ptr!Pointer /\ pointer' \in [Ptr!Pointers -> Ptr!Pointer]
      /\ old.kind # (IF p \in SharedPtrs THEN "weak" ELSE "shared")
  BY <1>1 DEF Ptr!Assign, Ptr!TypeOK
<1>3. /\ Number(pointer', "shared") = Number(pointer, "shared") - Is(old, "shared") + Is(v, "shared") /\ Number(pointer, "shared") >= Is(old, "shared")
      /\ Number(pointer', "weak") = Number(pointer, "weak") - Is(old, "weak") + Is(v, "weak") /\ Number(pointer, "weak") >= Is(old, "weak")
  <2>1. pointer'[p] = v /\ \A q \in Ptr!Pointers \ {p} : pointer'[q] = pointer[q]
    BY <1>2
  <2>2. ASSUME NEW kind, NEW g \in [Ptr!Pointers -> Ptr!Pointer], g[p] = v, \A q \in Ptr!Pointers \ {p} : g[q] = pointer[q]
        PROVE  /\ Number(g, kind) = Number(pointer, kind) - Is(pointer[p], kind) + Is(v, kind)
               /\ Number(pointer, kind) >= Is(pointer[p], kind)
    BY <1>2, <2>2, NumberUpdate
  <2>3. ASSUME NEW kind
        PROVE  /\ Number(pointer', kind) = Number(pointer, kind) - Is(pointer[p], kind) + Is(v, kind)
               /\ Number(pointer, kind) >= Is(pointer[p], kind)
    BY <1>2, <2>1, <2>2
  <2> QED
    BY <2>3
<1>4. /\ Number(pointer, "shared") \in Nat /\ Number(pointer, "weak") \in Nat /\ Is(running, "shared") \in {0, 1} /\ Len(scheduled) \in Nat /\ destructing \in {0, 1}
      /\ Is(old, "shared") \in {0, 1} /\ Is(old, "weak") \in {0, 1} /\ Is(v, "shared") \in {0, 1} /\ Is(v, "weak") \in {0, 1}
      /\ sharedPtrCount = Number(pointer, "shared") + Is(running, "shared")
      /\ weakPtrCount = sharedPtrCount + Number(pointer, "weak") + Len(scheduled) + destructing
      /\ sharedPtrCount \in Nat /\ weakPtrCount \in Nat
  BY <1>1, NumberFacts DEF NumberInv, Is
<1>5. old.kind = "shared" => sharedPtrCount >= 1 /\ 1 <= MaxGenerations
  <2>1. old.kind = "shared" => Is(old, "shared") = 1
    BY DEF Is
  <2>2. old.kind = "shared" => sharedPtrCount >= 1
    BY <1>3, <1>4, <2>1, SMTT(40)
  <2>3. old.kind = "shared" => 1 <= MaxGenerations
    BY <1>2 DEF Ptr!Pointer, Ptr!Null, Ptr!Shared, Ptr!Weak, Ptr!Assumptions
  <2> QED
    BY <2>2, <2>3
<1>6. /\ sharedPtrCount' \in Nat /\ weakPtrCount' \in Nat
      /\ sharedPtrCount' = sharedPtrCount + Is(v, "shared") - Is(old, "shared")
      /\ weakPtrCount' = weakPtrCount + (destructing' - destructing) + (sharedPtrCount' - sharedPtrCount) + (Is(v, "weak") - Is(old, "weak"))
      /\ destructing' \in 0 .. MaxGenerations /\ destructing' <= 1
      /\ sharedPtrCount' > 0 => object' /\ destructing' = 0
      /\ allocatable' = (weakPtrCount' = 0) /\ allocatable' \in BOOLEAN /\ object' \in BOOLEAN
  <2>1. CASE p \in SharedPtrs
    <3>1. Ptr!Replace(old, v) /\ Is(old, "weak") = 0 /\ Is(v, "weak") = 0
      BY <2>1, <1>2 DEF Ptr!Assign, Is
    <3>2. /\ sharedPtrCount' \in Nat /\ sharedPtrCount' = sharedPtrCount + Is(v, "shared") - Is(old, "shared")
          /\ weakPtrCount' \in Nat
          /\ weakPtrCount' = weakPtrCount + (destructing' - destructing) + (sharedPtrCount' - sharedPtrCount)
          /\ destructing' \in 0 .. MaxGenerations /\ destructing' <= 1
          /\ sharedPtrCount' > 0 => object' /\ destructing' = 0
          /\ allocatable' = (weakPtrCount' = 0) /\ allocatable' \in BOOLEAN /\ object' \in BOOLEAN
      BY <2>1, <3>1, <1>2, <1>5, ReplaceFacts
    <3>3. weakPtrCount' = weakPtrCount + (destructing' - destructing) + (sharedPtrCount' - sharedPtrCount) + (Is(v, "weak") - Is(old, "weak"))
      <4>1. destructing' \in Int
        BY <3>2
      <4> QED
        BY <3>1, <3>2, <1>4, <4>1
    <3> QED
      BY <3>2, <3>3
  <2>2. CASE p \notin SharedPtrs
    <3>1. Ptr!ReplaceWeak(old, v) /\ Is(old, "shared") = 0 /\ Is(v, "shared") = 0 /\ old.kind # "shared" /\ v.kind # "shared"
      BY <2>2, <1>2 DEF Ptr!Assign, Is
    <3>2. weakPtrCount >= Is(old, "weak")
      BY <1>3, <1>4
    <3>3. /\ weakPtrCount' \in Nat /\ weakPtrCount' = weakPtrCount + Is(v, "weak") - Is(old, "weak")
          /\ allocatable' = (weakPtrCount' = 0) /\ allocatable' \in BOOLEAN
          /\ UNCHANGED <<sharedPtrCount, object, destructing>>
      BY <3>1, <3>2, <1>2, ReplaceWeakFacts
    <3>4. sharedPtrCount' = sharedPtrCount + Is(v, "shared") - Is(old, "shared") /\ sharedPtrCount' \in Nat
      BY <3>1, <3>3, <1>4
    <3>5. weakPtrCount' = weakPtrCount + (destructing' - destructing) + (sharedPtrCount' - sharedPtrCount) + (Is(v, "weak") - Is(old, "weak"))
      BY <3>1, <3>3, <1>4
    <3>6. destructing' \in 0 .. MaxGenerations /\ destructing' <= 1 /\ object' \in BOOLEAN
      BY <3>3, <1>1, <1>4 DEF Ptr!TypeOK
    <3>7. sharedPtrCount' > 0 => object' /\ destructing' = 0
      BY <3>3, <1>1 DEF AliveInv
    <3> QED
      BY <3>3, <3>4, <3>5, <3>6, <3>7
  <2> QED
    BY <2>1, <2>2
<1>7. NumberInv'
  <2>1. Is(running', "shared") = Is(running, "shared") /\ Len(scheduled') = Len(scheduled) /\ destructing' \in Int
    BY <1>2, <1>6
  <2>2. sharedPtrCount' = Number(pointer', "shared") + Is(running', "shared")
    <3>1. Is(old, "shared") \in Int /\ Is(v, "shared") \in Int /\ Number(pointer, "shared") \in Int /\ Is(running, "shared") \in Int
      BY <1>4
    <3>2. sharedPtrCount = Number(pointer, "shared") + Is(running, "shared")
      BY <1>4
    <3>3. Number(pointer', "shared") = Number(pointer, "shared") - Is(old, "shared") + Is(v, "shared")
      BY <1>3
    <3>4. sharedPtrCount' = sharedPtrCount + Is(v, "shared") - Is(old, "shared")
      BY <1>6
    <3> QED
      BY ONLY <2>1, <3>1, <3>2, <3>3, <3>4, SharedStep
  <2>3. weakPtrCount' = sharedPtrCount' + Number(pointer', "weak") + Len(scheduled') + destructing'
    <3>1. /\ Is(old, "weak") \in Int /\ Is(v, "weak") \in Int /\ Number(pointer, "weak") \in Int /\ Len(scheduled) \in Int
          /\ destructing \in Int /\ sharedPtrCount \in Int
      BY <1>4, SMTT(40)
    <3>5. destructing' \in Int /\ sharedPtrCount' \in Int
      BY <2>1, <1>6
    <3>2. weakPtrCount = sharedPtrCount + Number(pointer, "weak") + Len(scheduled) + destructing
      BY <1>4
    <3>3. Number(pointer', "weak") = Number(pointer, "weak") - Is(old, "weak") + Is(v, "weak")
      BY <1>3
    <3>4. weakPtrCount' = weakPtrCount + (destructing' - destructing) + (sharedPtrCount' - sharedPtrCount)
                          + (Is(v, "weak") - Is(old, "weak"))
      BY <1>6
    <3> QED
      BY ONLY <2>1, <3>1, <3>2, <3>3, <3>4, <3>5, WeakStep
  <2> QED
    BY <2>2, <2>3, NumberNext
<1>8. Ptr!TypeOK'
  <2>1. \A q \in Ptr!Pointers : pointer'[q].kind # IF q \in SharedPtrs THEN "weak" ELSE "shared"
    BY <1>1, <1>2 DEF Ptr!TypeOK
  <2> QED
    BY <1>1, <1>2, <1>6, <2>1 DEF Ptr!TypeOK, Ptr!Pointers, Ptr!Pointer, Ptr!Null, Ptr!Shared, Ptr!Weak
<1>9. ActionInv'
  BY <1>1, <1>2 DEF ActionInv, Ptr!Null
<1>10. AliveInv'
  BY <1>6 DEF AliveInv
<1>11. PresentInv'
  <2>1. \A q \in Ptr!Pointers : pointer'[q].kind # "null" => pointer'[q].of = generation
    BY <1>1, <1>2 DEF PresentInv
  <2> QED
    BY <1>1, <1>2, <1>6, <2>1 DEF PresentInv, Ptr!Pointers
<1> QED
  BY <1>7, <1>8, <1>9, <1>10, <1>11 DEF PtrInv

\* The assignments between variables: what a variable gets is counted by the one that it
\* comes from.
LEMMA AssignmentsStep ==
    ASSUME Ptr!Assumptions, ~AssignFromWeakPtr, PtrInv, NEW p \in Ptr!Pointers,
           Ptr!Clear(p) \/ \E q \in Ptr!Pointers : Ptr!Copy(p, q) \/ Ptr!MakeWeak(p, q) \/ Ptr!LockWeak(p, q) \/ Ptr!AssignWeak(p, q)
    PROVE  PtrInv'
<1>1. /\ pointer \in [Ptr!Pointers -> Ptr!Pointer]
      /\ \A q \in Ptr!Pointers : pointer[q].kind # IF q \in SharedPtrs THEN "weak" ELSE "shared"
      /\ \A q \in Ptr!Pointers : pointer[q].kind # "null" => pointer[q].of = generation
  BY DEF PtrInv, Ptr!TypeOK, PresentInv
<1>2. /\ sharedPtrCount = Number(pointer, "shared") + Is(running, "shared")
      /\ weakPtrCount = sharedPtrCount + Number(pointer, "weak") + Len(scheduled) + destructing
  BY DEF PtrInv, NumberInv
<1>3. ASSUME NEW q \in Ptr!Pointers, pointer[q].kind = "shared"
      PROVE  sharedPtrCount >= 1 /\ weakPtrCount >= 1 /\ generation \in 1 .. MaxGenerations
  <2>1. sharedPtrCount >= 1
    BY <1>2, <1>3, NumberFacts
  <2>2. weakPtrCount >= 1
    BY <2>1, <1>2, NumberFacts
  <2>3. generation \in 1 .. MaxGenerations
    BY <1>1, <1>3 DEF Ptr!Pointer, Ptr!Null, Ptr!Shared, Ptr!Weak
  <2> QED
    BY <2>1, <2>2, <2>3
<1>4. \A q \in Ptr!Pointers : pointer[q].kind = "weak" => generation \in 1 .. MaxGenerations
  BY <1>1 DEF Ptr!Pointer, Ptr!Null, Ptr!Shared, Ptr!Weak
<1>5. Ptr!Null \in Ptr!Pointer /\ Ptr!Null.kind = "null"
  BY DEF Ptr!Pointer, Ptr!Null
<1>6. CASE Ptr!Clear(p)
  BY <1>5, <1>6, AssignStep DEF Ptr!Clear
<1>7. ASSUME NEW q \in Ptr!Pointers, Ptr!Copy(p, q) PROVE PtrInv'
  <2> DEFINE v == pointer[q]
  <2>1. p # q /\ (p \in SharedPtrs) = (q \in SharedPtrs) /\ Ptr!Assign(p, v) /\ v \in Ptr!Pointer
    BY <1>1, <1>7 DEF Ptr!Copy
  <2>2. v.kind # (IF p \in SharedPtrs THEN "weak" ELSE "shared")
    BY <1>1, <2>1
  <2>3. v.kind = "shared" => sharedPtrCount >= 1
    BY <1>3
  <2>4. v.kind = "weak" => weakPtrCount > Is(pointer[p], "weak")
    <3>1. SUFFICES ASSUME v.kind = "weak" PROVE Number(pointer, "weak") > Is(pointer[p], "weak")
      <4>1. weakPtrCount >= Number(pointer, "weak")
        <5>1. PICK n \in Nat, l \in Nat, d \in Nat, c \in Nat :
                    n = Number(pointer, "weak") /\ l = Len(scheduled) /\ d = destructing /\ c = sharedPtrCount
          BY NumberFacts
        <5>2. weakPtrCount = c + n + l + d
          BY <1>2, <5>1
        <5>3. weakPtrCount >= n
          BY ONLY <5>2, n \in Nat, l \in Nat, d \in Nat, c \in Nat
        <5> QED
          BY <5>1, <5>3
      <4>2. Number(pointer, "weak") \in Nat /\ weakPtrCount \in Nat /\ Is(pointer[p], "weak") \in Nat
        BY NumberFacts DEF Is
      <4> QED
        BY <4>1, <4>2
    <3>2. CASE pointer[p].kind = "weak"
      <4>1. Number(pointer, "weak") >= 2 /\ Is(pointer[p], "weak") = 1
        BY <1>1, <2>1, <3>1, <3>2, NumberTwo DEF Is
      <4> QED
        BY <4>1, NumberFacts
    <3>3. CASE pointer[p].kind # "weak"
      BY <3>1, <3>3, NumberFacts DEF Is
    <3> QED
      BY <3>2, <3>3
  <2>5. v.kind # "null" => v.of = generation
    BY <1>1
  <2> HIDE DEF v
  <2> QED
    BY <2>1, <2>2, <2>3, <2>4, <2>5, AssignStep
<1>8. ASSUME NEW q \in Ptr!Pointers, Ptr!MakeWeak(p, q) PROVE PtrInv'
  <2> DEFINE v == Ptr!Weak(pointer[q].of)
  <2>1. p \in WeakPtrs /\ pointer[q].kind = "shared" /\ Ptr!Assign(p, v) /\ pointer[q].of = generation
    BY <1>1, <1>8 DEF Ptr!MakeWeak
  <2>2. generation \in 1 .. MaxGenerations /\ sharedPtrCount >= 1
    BY <2>1, <1>3
  <2>3. v \in Ptr!Pointer /\ v.kind = "weak" /\ v.of = generation
    BY <2>1, <2>2, PointerValues
  <2>4. p \notin SharedPtrs
    BY <2>1 DEF Ptr!Assumptions
  <2>5. weakPtrCount > Is(pointer[p], "weak")
    <3>1. Number(pointer, "weak") >= Is(pointer[p], "weak") /\ Is(pointer[p], "weak") \in {0, 1}
      BY NumberFacts DEF Is
    <3> QED
      BY <3>1, <2>2, <1>2, NumberFacts
  <2> HIDE DEF v
  <2> QED
    BY <2>1, <2>3, <2>4, <2>5, AssignStep
<1>9. ASSUME NEW q \in Ptr!Pointers, Ptr!LockWeak(p, q) PROVE PtrInv'
  <2> DEFINE v == Ptr!Lock(pointer[q])
  <2>1. p \in SharedPtrs /\ pointer[q].kind = "weak" /\ Ptr!Assign(p, v) /\ pointer[q].of = generation
    BY <1>1, <1>9 DEF Ptr!LockWeak
  <2>2. v = Ptr!Null \/ (v = Ptr!Shared(generation) /\ sharedPtrCount >= 1)
    BY <2>1, NumberFacts DEF Ptr!Lock
  <2>3. v \in Ptr!Pointer /\ v.kind # "weak" /\ (v.kind = "shared" => sharedPtrCount >= 1) /\ (v.kind # "null" => v.of = generation)
    BY <2>1, <2>2, <1>4, <1>5, PointerValues
  <2> HIDE DEF v
  <2> QED
    BY <2>1, <2>3, AssignStep
<1> QED
  BY <1>6, <1>7, <1>8, <1>9 DEF Ptr!AssignWeak

\* A new object: there is nothing that refers to the old one, not even a destructor.
LEMMA EmplaceStep ==
    ASSUME Ptr!Assumptions, PtrInv, NEW p \in Ptr!Pointers, Ptr!Emplace(p)
    PROVE  PtrInv'
<1>1. Ptr!TypeOK /\ ActionInv /\ NumberInv /\ AliveInv /\ PresentInv
  BY DEF PtrInv
<1> DEFINE v == Ptr!Shared(generation + 1)
<1>2. /\ p \in SharedPtrs /\ allocatable /\ pointer[p] = Ptr!Null
      /\ allocatable' = FALSE /\ object' = TRUE /\ generation' = generation + 1
      /\ pointer' = [pointer EXCEPT ![p] = v]
      /\ sharedPtrCount' = sharedPtrCount + 1 /\ weakPtrCount' = weakPtrCount + 1
      /\ UNCHANGED <<destructing, scheduled, running, executed>>
  BY DEF Ptr!Emplace
<1>3. generation + 1 \in 1 .. MaxGenerations
  BY <1>1 DEF Ptr!Emplace, Ptr!TypeOK, Ptr!Assumptions
<1>4. v \in Ptr!Pointer /\ v.kind = "shared" /\ v.of = generation + 1 /\ Ptr!Null.kind = "null"
  BY <1>3, PointerValues
<1>5. weakPtrCount = 0
  BY <1>1, <1>2 DEF PresentInv
<1>6. /\ sharedPtrCount = 0 /\ destructing = 0 /\ Len(scheduled) = 0
      /\ Number(pointer, "shared") = 0 /\ Number(pointer, "weak") = 0 /\ Is(running, "shared") = 0
  <2>1. Number(pointer, "weak") = 0 /\ Len(scheduled) = 0 /\ destructing = 0 /\ sharedPtrCount = 0
    BY <1>1, <1>5, NumberFacts DEF NumberInv
  <2>2. sharedPtrCount = Number(pointer, "shared") + Is(running, "shared")
    BY <1>1 DEF NumberInv
  <2>3. Number(pointer, "shared") \in Nat /\ Is(running, "shared") \in Nat
    BY NumberFacts
  <2>4. Number(pointer, "shared") = 0 /\ Is(running, "shared") = 0
    BY <2>1, <2>2, <2>3
  <2> QED
    BY <2>1, <2>4
<1>7. pointer \in [Ptr!Pointers -> Ptr!Pointer] /\ pointer' \in [Ptr!Pointers -> Ptr!Pointer] /\ running \in Ptr!Pointer
  BY <1>1, <1>2, <1>4 DEF Ptr!TypeOK
<1>8. \A q \in Ptr!Pointers : pointer[q] = Ptr!Null
  BY <1>6, <1>7, NumberZero, PointerKinds
<1>9. running = Ptr!Null /\ scheduled = <<>>
  BY <1>1, <1>6, <1>7, PointerKinds, EmptySeq DEF ActionInv, Ptr!TypeOK, Is
<1>10. Number(pointer', "shared") = 1 /\ Number(pointer', "weak") = 0
  <2>1. pointer'[p] = v /\ \A q \in Ptr!Pointers \ {p} : pointer'[q] = pointer[q]
    BY <1>2, <1>7
  <2>2. ASSUME NEW kind, NEW g \in [Ptr!Pointers -> Ptr!Pointer], g[p] = v, \A q \in Ptr!Pointers \ {p} : g[q] = pointer[q]
        PROVE  Number(g, kind) = Number(pointer, kind) - Is(pointer[p], kind) + Is(v, kind)
    BY <1>4, <1>7, <2>2, NumberUpdate
  <2>3. ASSUME NEW kind
        PROVE  Number(pointer', kind) = Number(pointer, kind) - Is(pointer[p], kind) + Is(v, kind)
    BY <1>7, <2>1, <2>2
  <2>4. /\ Is(pointer[p], "shared") = 0 /\ Is(pointer[p], "weak") = 0
        /\ Is(v, "shared") = 1 /\ Is(v, "weak") = 0
    BY <1>2, <1>4 DEF Is
  <2> QED
    BY <1>6, <2>3, <2>4
<1>11. NumberInv'
  <2>1. Is(running', "shared") = 0 /\ Len(scheduled') = 0 /\ destructing' = 0
    BY <1>2, <1>6
  <2>2. sharedPtrCount' = 1 /\ weakPtrCount' = 1
    BY <1>2, <1>5, <1>6
  <2> QED
    BY <1>10, <2>1, <2>2, NumberNext
<1>12. Ptr!TypeOK'
  <2>1. \A q \in Ptr!Pointers : pointer'[q].kind # IF q \in SharedPtrs THEN "weak" ELSE "shared"
    BY <1>1, <1>2, <1>4, <1>7 DEF Ptr!TypeOK
  <2>2. sharedPtrCount' \in Nat /\ weakPtrCount' \in Nat /\ destructing' \in 0 .. MaxGenerations
    BY <1>1, <1>2 DEF Ptr!TypeOK
  <2>3. generation' \in 0 .. MaxGenerations
    BY <1>2, <1>3 DEF Ptr!Assumptions
  <2> QED
    BY <1>1, <1>2, <1>7, <2>1, <2>2, <2>3 DEF Ptr!TypeOK, Ptr!Pointers, Ptr!Pointer, Ptr!Null, Ptr!Shared, Ptr!Weak
<1>13. ActionInv'
  <2>1. scheduled' = <<>> /\ running' = Ptr!Null /\ executed' = FALSE
    BY <1>1, <1>2, <1>9 DEF ActionInv, Ptr!TypeOK
  <2> QED
    BY <2>1 DEF ActionInv, Ptr!Null
<1>14. AliveInv'
  BY <1>2, <1>6 DEF AliveInv
<1>15. PresentInv'
  <2>1. \A q \in Ptr!Pointers : pointer'[q].kind # "null" => pointer'[q].of = generation'
    BY <1>2, <1>4, <1>7, <1>8
  <2>2. allocatable' = (weakPtrCount' = 0)
    <3>1. weakPtrCount' # 0 /\ allocatable' = FALSE
      BY <1>2, <1>5
    <3> QED
      BY <3>1
  <2>3. running' = Ptr!Null
    BY <1>2, <1>9
  <2> QED
    BY <2>1, <2>2, <2>3, <1>4 DEF PresentInv, Ptr!Pointers, Ptr!Null
<1> QED
  BY <1>11, <1>12, <1>13, <1>14, <1>15 DEF PtrInv

\* The destructor ends, with which the last count of the object may go.
LEMMA DestructedStep ==
    ASSUME Ptr!Assumptions, PtrInv, Ptr!Destructed
    PROVE  PtrInv'
<1>1. Ptr!TypeOK /\ ActionInv /\ NumberInv /\ AliveInv /\ PresentInv
  BY DEF PtrInv
<1>2. /\ destructing' = destructing - 1 /\ object' = FALSE /\ weakPtrCount' = weakPtrCount - 1
      /\ allocatable' = (allocatable \/ weakPtrCount' = 0)
      /\ UNCHANGED <<sharedPtrCount, generation, pointer, scheduled, running, executed>>
  BY DEF Ptr!Destructed
<1>3. destructing = 1 /\ sharedPtrCount = 0
  BY <1>1, NumberFacts DEF Ptr!Destructed, AliveInv
<1>4. /\ sharedPtrCount = Number(pointer, "shared") + Is(running, "shared")
      /\ weakPtrCount = sharedPtrCount + Number(pointer, "weak") + Len(scheduled) + destructing
  BY <1>1 DEF NumberInv
<1>5. weakPtrCount' = sharedPtrCount + Number(pointer, "weak") + Len(scheduled) /\ weakPtrCount' \in Nat /\ weakPtrCount # 0
  BY <1>2, <1>3, <1>4, NumberFacts
<1>6. NumberInv'
  <2>1. destructing' = 0 /\ sharedPtrCount' = 0 /\ weakPtrCount' = Number(pointer, "weak") + Len(scheduled)
    BY <1>2, <1>3, <1>5, NumberFacts
  <2>2. sharedPtrCount' = Number(pointer', "shared") + Is(running', "shared")
    BY <1>2, <1>4
  <2>3. weakPtrCount' = sharedPtrCount' + Number(pointer', "weak") + Len(scheduled') + destructing'
    BY <1>2, <2>1, NumberFacts
  <2> QED
    BY <2>2, <2>3, NumberNext
<1>7. Ptr!TypeOK'
  <2>1. destructing' \in 0 .. MaxGenerations /\ sharedPtrCount' \in Nat /\ weakPtrCount' \in Nat
    BY <1>1, <1>2, <1>3, <1>5 DEF Ptr!TypeOK, Ptr!Assumptions
  <2>2. allocatable' \in BOOLEAN /\ object' \in BOOLEAN
    BY <1>1, <1>2 DEF Ptr!TypeOK
  <2> QED
    BY <1>1, <1>2, <2>1, <2>2 DEF Ptr!TypeOK, Ptr!Pointers, Ptr!Pointer, Ptr!Null, Ptr!Shared, Ptr!Weak
<1>8. ActionInv'
  BY <1>1, <1>2 DEF ActionInv, Ptr!Null
<1>9. AliveInv'
  BY <1>2, <1>3 DEF AliveInv
<1>10. PresentInv'
  <2>1. allocatable' = (weakPtrCount' = 0)
    BY <1>1, <1>2, <1>5 DEF PresentInv
  <2> QED
    BY <1>1, <1>2, <2>1 DEF PresentInv, Ptr!Pointers
<1> QED
  BY <1>6, <1>7, <1>8, <1>9, <1>10 DEF PtrInv

----------------------------------------------------------------------------
(* The steps of the event dispatcher *)

\* The counts follow when the scheduled actions or the running one change.
LEMMA ActionCounts ==
    ASSUME Ptr!Assumptions, PtrInv, pointer' = pointer, Len(scheduled') \in Int, Is(running', "shared") \in Int,
           sharedPtrCount' \in Int, destructing' \in Int,
           sharedPtrCount' = sharedPtrCount + (Is(running', "shared") - Is(running, "shared")),
           weakPtrCount' = weakPtrCount + (destructing' - destructing) + (sharedPtrCount' - sharedPtrCount)
                           + (Len(scheduled') - Len(scheduled))
    PROVE  NumberInv'
<1>1. PICK n \in Int, u \in Int, r \in Int, q \in Int :
            n = Number(pointer, "weak") /\ u = Number(pointer, "shared") /\ r = Is(running, "shared") /\ q = Is(running', "shared")
  BY NumberFacts
<1>2. PICK l \in Int, k \in Int, d \in Int, e \in Int, s \in Int, x \in Int :
            /\ l = Len(scheduled) /\ k = Len(scheduled') /\ d = destructing /\ e = destructing'
            /\ s = sharedPtrCount /\ x = sharedPtrCount'
  <2>1. Len(scheduled) \in Int /\ destructing \in Int /\ sharedPtrCount \in Int
    BY NumberFacts
  <2> QED
    BY <2>1
<1>3. s = u + r /\ weakPtrCount = s + n + l + d
  BY <1>1, <1>2 DEF PtrInv, NumberInv
<1>4. x = s + (q - r) /\ weakPtrCount' = weakPtrCount + (e - d) + (x - s) + (k - l)
  BY <1>1, <1>2
<1>5. x = u + q
  BY ONLY <1>3, <1>4, u \in Int, r \in Int, q \in Int, s \in Int
<1>6. weakPtrCount' = x + n + k + e
  BY ONLY <1>3, <1>4, n \in Int, s \in Int, x \in Int, l \in Int, k \in Int, d \in Int, e \in Int
<1>7. Number(pointer', "shared") = u /\ Number(pointer', "weak") = n
  BY <1>1
<1>8. sharedPtrCount' = Number(pointer', "shared") + Is(running', "shared")
  BY <1>1, <1>2, <1>5, <1>7
<1>9. weakPtrCount' = sharedPtrCount' + Number(pointer', "weak") + Len(scheduled') + destructing'
  BY <1>2, <1>6, <1>7
<1> QED
  BY <1>8, <1>9, NumberNext

\* What a step of the event dispatcher has to show about the control block and the actions.
LEMMA ActionStep ==
    ASSUME Ptr!Assumptions, PtrInv, UNCHANGED <<generation, pointer>>, NumberInv', ActionInv',
           sharedPtrCount' \in Nat, weakPtrCount' \in Nat, destructing' \in 0 .. MaxGenerations, destructing' <= 1,
           sharedPtrCount' > 0 => object' /\ destructing' = 0,
           allocatable' = (weakPtrCount' = 0), allocatable' \in BOOLEAN, object' \in BOOLEAN,
           scheduled' \in Seq(Ptr!Pointer), running' \in Ptr!Pointer, executed' \in BOOLEAN,
           running'.kind # "null" => running'.of = generation
    PROVE  PtrInv'
<1>1. Ptr!TypeOK /\ PresentInv
  BY DEF PtrInv
<1>2. Ptr!TypeOK'
  BY <1>1 DEF Ptr!TypeOK, Ptr!Pointers, Ptr!Pointer, Ptr!Null, Ptr!Shared, Ptr!Weak
<1>3. AliveInv'
  BY DEF AliveInv
<1>4. PresentInv'
  BY <1>1 DEF PresentInv, Ptr!Pointers
<1> QED
  BY <1>2, <1>3, <1>4 DEF PtrInv

\* An action is scheduled, with a WeakPtr made from a pointer to the object.
LEMMA ScheduleStep ==
    ASSUME Ptr!Assumptions, PtrInv, NEW p \in Ptr!Pointers, Ptr!Schedule(p)
    PROVE  PtrInv'
<1>1. Ptr!TypeOK /\ ActionInv /\ NumberInv /\ AliveInv /\ PresentInv
  BY DEF PtrInv
<1> DEFINE v == Ptr!Weak(generation)
<1>2. pointer[p] \in Ptr!Pointer /\ pointer[p].kind \in {"shared", "weak"} /\ pointer[p].of = generation
  BY <1>1, PointerKinds DEF Ptr!TypeOK, PresentInv, Ptr!Schedule
<1>3. /\ scheduled' = Append(scheduled, v) /\ Ptr!ReplaceWeak(Ptr!Null, v)
      /\ UNCHANGED <<generation, pointer, running, executed>>
  BY <1>2 DEF Ptr!Schedule
<1>4. generation \in 1 .. MaxGenerations
  BY <1>2 DEF Ptr!Pointer, Ptr!Null, Ptr!Shared, Ptr!Weak
<1>5. v \in Ptr!Pointer /\ v.kind = "weak" /\ v.of = generation /\ Ptr!Null \in Ptr!Pointer /\ Ptr!Null.kind = "null"
  BY <1>4, PointerValues
<1>6. Is(Ptr!Null, "weak") = 0 /\ Is(v, "weak") = 1
  BY <1>5 DEF Is
<1>7. weakPtrCount > 0
  <2>1. Number(pointer, "shared") >= 1 \/ Number(pointer, "weak") >= 1
    BY <1>2, NumberFacts
  <2>2. /\ sharedPtrCount = Number(pointer, "shared") + Is(running, "shared")
        /\ weakPtrCount = sharedPtrCount + Number(pointer, "weak") + Len(scheduled) + destructing
    BY <1>1 DEF NumberInv
  <2>3. /\ Number(pointer, "shared") \in Nat /\ Number(pointer, "weak") \in Nat /\ Is(running, "shared") \in Nat
        /\ Len(scheduled) \in Nat /\ destructing \in Nat /\ sharedPtrCount \in Nat
    BY NumberFacts
  <2>4. sharedPtrCount >= 1 \/ Number(pointer, "weak") >= 1
    BY ONLY <2>1, <2>2, <2>3
  <2>5. PICK n \in Nat, l \in Nat, d \in Nat, s \in Nat :
              n = Number(pointer, "weak") /\ l = Len(scheduled) /\ d = destructing /\ s = sharedPtrCount
    BY <2>3
  <2>6. weakPtrCount = s + n + l + d /\ (s >= 1 \/ n >= 1)
    BY <2>2, <2>4, <2>5
  <2> QED
    BY ONLY <2>6, n \in Nat, l \in Nat, d \in Nat, s \in Nat
<1> HIDE DEF v
<1>8. /\ weakPtrCount' \in Nat /\ weakPtrCount' = weakPtrCount + Is(v, "weak") - Is(Ptr!Null, "weak")
      /\ allocatable' = (weakPtrCount' = 0) /\ allocatable' \in BOOLEAN
      /\ UNCHANGED <<sharedPtrCount, object, destructing>>
  <2>1. weakPtrCount >= Is(Ptr!Null, "weak") /\ weakPtrCount > Is(Ptr!Null, "weak")
    BY <1>6, <1>7, NumberFacts
  <2> QED
    BY <1>3, <1>5, <2>1, ReplaceWeakFacts
<1>9. scheduled \in Seq(Ptr!Pointer) /\ scheduled' \in Seq(Ptr!Pointer) /\ Len(scheduled') = Len(scheduled) + 1
  BY <1>1, <1>3, <1>5, AppendProperties DEF Ptr!TypeOK
<1>10. NumberInv'
  <2>1. weakPtrCount' = weakPtrCount + (destructing' - destructing) + (sharedPtrCount' - sharedPtrCount)
                        + (Len(scheduled') - Len(scheduled))
    BY <1>6, <1>8, <1>9, NumberFacts
  <2>2. sharedPtrCount' = sharedPtrCount + (Is(running', "shared") - Is(running, "shared"))
    BY <1>3, <1>8, NumberFacts
  <2>3. Len(scheduled') \in Int /\ Is(running', "shared") \in Int /\ sharedPtrCount' \in Int /\ destructing' \in Int
    BY <1>3, <1>8, <1>9, NumberFacts
  <2> QED
    BY <1>3, <2>1, <2>2, <2>3, ActionCounts
<1>11. ActionInv'
  <2>1. \A i \in 1 .. Len(scheduled') : scheduled'[i].kind = "weak" /\ scheduled'[i].of = generation
    BY <1>1, <1>3, <1>5, <1>9, AppendProperties DEF ActionInv
  <2>2. scheduled' # <<>>
    BY <1>9, EmptySeq, NumberFacts
  <2> QED
    BY <1>1, <1>3, <2>1, <2>2 DEF ActionInv, Ptr!Null
<1> QED
  <2>1. sharedPtrCount' > 0 => object' /\ destructing' = 0
    BY <1>1, <1>8 DEF AliveInv
  <2>2. running' \in Ptr!Pointer /\ executed' \in BOOLEAN /\ object' \in BOOLEAN /\ (running'.kind # "null" => running'.of = generation)
    BY <1>1, <1>3, <1>8 DEF Ptr!TypeOK, PresentInv
  <2>3. sharedPtrCount' \in Nat /\ destructing' \in 0 .. MaxGenerations /\ destructing' <= 1
    BY <1>1, <1>8 DEF Ptr!TypeOK, AliveInv
  <2> QED
    BY <1>3, <1>8, <1>9, <1>10, <1>11, <2>1, <2>2, <2>3, ActionStep

\* The first action starts if its WeakPtr can be locked, and is otherwise skipped.
LEMMA ExecuteFirstActionStep ==
    ASSUME Ptr!Assumptions, PtrInv, Ptr!ExecuteFirstAction
    PROVE  PtrInv'
<1>1. Ptr!TypeOK /\ ActionInv /\ NumberInv /\ AliveInv /\ PresentInv
  BY DEF PtrInv
<1> DEFINE v == running'
<1>2. /\ scheduled # <<>> /\ running = Ptr!Null /\ v = Ptr!Lock(Head(scheduled)) /\ executed' = (v = Ptr!Null) /\ Ptr!Replace(Ptr!Null, v)
      /\ UNCHANGED <<generation, pointer, scheduled>>
  BY DEF Ptr!ExecuteFirstAction
<1>3. scheduled \in Seq(Ptr!Pointer) /\ Head(scheduled) = scheduled[1] /\ 1 \in 1 .. Len(scheduled) /\ scheduled[1] \in Ptr!Pointer
  BY <1>1, <1>2, HeadTailProperties, ElementOfSeq, EmptySeq DEF Ptr!TypeOK
<1>4. Head(scheduled).kind = "weak" /\ Head(scheduled).of = generation
  BY <1>1, <1>3 DEF ActionInv
<1>5. generation \in 1 .. MaxGenerations
  BY <1>3, <1>4 DEF Ptr!Pointer, Ptr!Null, Ptr!Shared, Ptr!Weak
<1>6. v = Ptr!Null \/ (v = Ptr!Shared(generation) /\ sharedPtrCount >= 1)
  BY <1>2, <1>4, NumberFacts DEF Ptr!Lock
<1>7. /\ Ptr!Null \in Ptr!Pointer /\ Ptr!Null.kind = "null" /\ v \in Ptr!Pointer /\ v.kind # "weak"
      /\ v.kind = "shared" => sharedPtrCount >= 1
      /\ v.kind # "null" => v.of = generation
  BY <1>5, <1>6, PointerValues
<1>8. Is(Ptr!Null, "shared") = 0 /\ Is(v, "shared") \in {0, 1}
  BY <1>7 DEF Is
<1>9. /\ sharedPtrCount' \in Nat /\ sharedPtrCount' = sharedPtrCount + Is(v, "shared") - Is(Ptr!Null, "shared")
      /\ weakPtrCount' \in Nat
      /\ weakPtrCount' = weakPtrCount + (destructing' - destructing) + (sharedPtrCount' - sharedPtrCount)
      /\ destructing' \in 0 .. MaxGenerations /\ destructing' <= 1
      /\ sharedPtrCount' > 0 => object' /\ destructing' = 0
      /\ allocatable' = (weakPtrCount' = 0) /\ allocatable' \in BOOLEAN /\ object' \in BOOLEAN
  BY <1>2, <1>7, ReplaceFacts
<1>10. NumberInv'
  <2>1. Len(scheduled') \in Int /\ Len(scheduled) \in Int /\ Len(scheduled') - Len(scheduled) = 0 /\ Is(running', "shared") \in Int
    BY <1>2, <1>8, NumberFacts
  <2>2. sharedPtrCount' \in Int /\ destructing' \in Int /\ weakPtrCount' \in Int
    BY <1>9
  <2>3. sharedPtrCount' = sharedPtrCount + (Is(running', "shared") - Is(running, "shared"))
    BY <1>2, <1>8, <1>9, NumberFacts
  <2>4. weakPtrCount' = weakPtrCount + (destructing' - destructing) + (sharedPtrCount' - sharedPtrCount)
                        + (Len(scheduled') - Len(scheduled))
    BY <1>9, <2>1, <2>2, NumberFacts
  <2> QED
    BY <1>2, <2>1, <2>2, <2>3, <2>4, ActionCounts
<1>11. ActionInv'
  BY <1>1, <1>2, <1>7 DEF ActionInv, Ptr!Null
<1> QED
  BY <1>1, <1>2, <1>3, <1>7, <1>9, <1>10, <1>11, ActionStep

\* The action ends: its SharedPtr may have been the last.
LEMMA ActionReturnsStep ==
    ASSUME Ptr!Assumptions, PtrInv, Ptr!ActionReturns
    PROVE  PtrInv'
<1>1. Ptr!TypeOK /\ ActionInv /\ NumberInv /\ AliveInv /\ PresentInv
  BY DEF PtrInv
<1>2. /\ running # Ptr!Null /\ Ptr!Replace(running, Ptr!Null) /\ running' = Ptr!Null /\ executed' = TRUE
      /\ UNCHANGED <<generation, pointer, scheduled>>
  BY DEF Ptr!ActionReturns
<1>3. running \in Ptr!Pointer /\ running.kind = "shared" /\ Ptr!Null \in Ptr!Pointer /\ Ptr!Null.kind = "null"
  BY <1>1, <1>2, PointerKinds DEF Ptr!TypeOK, ActionInv, Ptr!Pointer, Ptr!Null
<1>4. 1 <= MaxGenerations
  BY <1>3 DEF Ptr!Pointer, Ptr!Null, Ptr!Shared, Ptr!Weak, Ptr!Assumptions
<1>5. Is(Ptr!Null, "shared") = 0 /\ Is(running, "shared") = 1
  BY <1>3 DEF Is
<1>6. sharedPtrCount >= 1
  <2>1. sharedPtrCount = Number(pointer, "shared") + 1 /\ Number(pointer, "shared") \in Nat
    BY <1>1, <1>5, NumberFacts DEF NumberInv
  <2> QED
    BY <2>1
<1>7. /\ sharedPtrCount' \in Nat /\ sharedPtrCount' = sharedPtrCount + Is(Ptr!Null, "shared") - Is(running, "shared")
      /\ weakPtrCount' \in Nat
      /\ weakPtrCount' = weakPtrCount + (destructing' - destructing) + (sharedPtrCount' - sharedPtrCount)
      /\ destructing' \in 0 .. MaxGenerations /\ destructing' <= 1
      /\ sharedPtrCount' > 0 => object' /\ destructing' = 0
      /\ allocatable' = (weakPtrCount' = 0) /\ allocatable' \in BOOLEAN /\ object' \in BOOLEAN
  BY <1>2, <1>3, <1>4, <1>6, ReplaceFacts
<1>8. NumberInv'
  <2>1. Len(scheduled') \in Int /\ Len(scheduled) \in Int /\ Len(scheduled') - Len(scheduled) = 0 /\ Is(running', "shared") = 0
    BY <1>2, <1>5, NumberFacts
  <2>2. sharedPtrCount' \in Int /\ destructing' \in Int /\ weakPtrCount' \in Int
    BY <1>7
  <2>3. sharedPtrCount' = sharedPtrCount + (Is(running', "shared") - Is(running, "shared"))
    BY <1>5, <1>7, <2>1, NumberFacts
  <2>4. weakPtrCount' = weakPtrCount + (destructing' - destructing) + (sharedPtrCount' - sharedPtrCount)
                        + (Len(scheduled') - Len(scheduled))
    BY <1>7, <2>1, <2>2, NumberFacts
  <2> QED
    BY <1>2, <2>1, <2>2, <2>3, <2>4, ActionCounts
<1>9. ActionInv'
  BY <1>1, <1>2 DEF ActionInv, Ptr!Null
<1> QED
  <2>1. scheduled' \in Seq(Ptr!Pointer) /\ running' \in Ptr!Pointer /\ executed' \in BOOLEAN /\ running'.kind = "null"
    BY <1>1, <1>2, <1>3 DEF Ptr!TypeOK
  <2> QED
    BY <1>2, <1>7, <1>8, <1>9, <2>1, ActionStep

\* The action is destroyed, and its WeakPtr with it.
LEMMA PopActionStep ==
    ASSUME Ptr!Assumptions, PtrInv, Ptr!PopAction
    PROVE  PtrInv'
<1>1. Ptr!TypeOK /\ ActionInv /\ NumberInv /\ AliveInv /\ PresentInv
  BY DEF PtrInv
<1>2. /\ executed /\ Ptr!ReplaceWeak(Head(scheduled), Ptr!Null) /\ scheduled' = Tail(scheduled) /\ executed' = FALSE
      /\ UNCHANGED <<generation, pointer, running>>
  BY DEF Ptr!PopAction
<1>3. running = Ptr!Null /\ scheduled # <<>>
  BY <1>1, <1>2 DEF ActionInv
<1>4. /\ scheduled \in Seq(Ptr!Pointer) /\ Head(scheduled) = scheduled[1] /\ 1 \in 1 .. Len(scheduled) /\ Head(scheduled) \in Ptr!Pointer
      /\ scheduled' \in Seq(Ptr!Pointer) /\ Len(scheduled') = Len(scheduled) - 1
      /\ \A i \in 1 .. Len(scheduled') : scheduled'[i] = scheduled[i + 1]
  BY <1>1, <1>2, <1>3, HeadTailProperties, ElementOfSeq, EmptySeq DEF Ptr!TypeOK
<1>5. Head(scheduled).kind = "weak" /\ Ptr!Null \in Ptr!Pointer /\ Ptr!Null.kind = "null"
  BY <1>1, <1>4 DEF ActionInv, Ptr!Pointer, Ptr!Null
<1>6. Is(Head(scheduled), "weak") = 1 /\ Is(Ptr!Null, "weak") = 0
  BY <1>5 DEF Is
<1>7. weakPtrCount >= 1
  <2>1. PICK n \in Nat, l \in Nat, d \in Nat, s \in Nat :
              n = Number(pointer, "weak") /\ l = Len(scheduled) /\ d = destructing /\ s = sharedPtrCount
    BY NumberFacts
  <2>2. weakPtrCount = s + n + l + d /\ l >= 1
    BY <1>1, <1>4, <2>1 DEF NumberInv
  <2> QED
    BY ONLY <2>2, n \in Nat, l \in Nat, d \in Nat, s \in Nat
<1>8. /\ weakPtrCount' \in Nat /\ weakPtrCount' = weakPtrCount + Is(Ptr!Null, "weak") - Is(Head(scheduled), "weak")
      /\ allocatable' = (weakPtrCount' = 0) /\ allocatable' \in BOOLEAN
      /\ UNCHANGED <<sharedPtrCount, object, destructing>>
  <2>1. weakPtrCount >= Is(Head(scheduled), "weak")
    BY <1>6, <1>7
  <2> QED
    BY <1>2, <1>4, <1>5, <2>1, ReplaceWeakFacts
<1>9. NumberInv'
  <2>1. weakPtrCount' = weakPtrCount + (destructing' - destructing) + (sharedPtrCount' - sharedPtrCount)
                        + (Len(scheduled') - Len(scheduled))
    BY <1>4, <1>6, <1>8, NumberFacts
  <2>2. sharedPtrCount' = sharedPtrCount + (Is(running', "shared") - Is(running, "shared"))
    BY <1>2, <1>8, NumberFacts
  <2>3. Len(scheduled') \in Int /\ Is(running', "shared") \in Int /\ sharedPtrCount' \in Int /\ destructing' \in Int
    BY <1>2, <1>4, <1>8, NumberFacts
  <2> QED
    BY <1>2, <2>1, <2>2, <2>3, ActionCounts
<1>10. ActionInv'
  <2>1. ASSUME NEW i \in 1 .. Len(scheduled')
        PROVE  scheduled'[i].kind = "weak" /\ scheduled'[i].of = generation
    <3>1. i + 1 \in 1 .. Len(scheduled)
      BY <1>4, NumberFacts
    <3>2. scheduled[i + 1].kind = "weak" /\ scheduled[i + 1].of = generation
      BY <1>1, <3>1 DEF ActionInv
    <3> QED
      BY <1>4, <3>2
  <2> QED
    BY <1>1, <1>2, <1>3, <2>1 DEF ActionInv, Ptr!Null
<1> QED
  <2>1. sharedPtrCount' > 0 => object' /\ destructing' = 0
    BY <1>1, <1>8 DEF AliveInv
  <2>2. running' \in Ptr!Pointer /\ executed' \in BOOLEAN /\ object' \in BOOLEAN /\ running'.kind = "null"
    BY <1>1, <1>2, <1>3, <1>5, <1>8 DEF Ptr!TypeOK
  <2>3. sharedPtrCount' \in Nat /\ destructing' \in 0 .. MaxGenerations /\ destructing' <= 1
    BY <1>1, <1>8 DEF Ptr!TypeOK, AliveInv
  <2> QED
    BY <1>2, <1>4, <1>8, <1>9, <1>10, <2>1, <2>2, <2>3, ActionStep

----------------------------------------------------------------------------
(* The invariant and what follows from it *)

\* In the beginning there is no object, and nothing refers to one.
LEMMA PtrInitInvariant ==
    ASSUME Ptr!Assumptions, Ptr!Init
    PROVE  PtrInv
<1>1. Ptr!Null \in Ptr!Pointer /\ Ptr!Null.kind = "null" /\ Is(Ptr!Null, "shared") = 0
  BY DEF Ptr!Pointer, Ptr!Null, Is
<1>2. Number(pointer, "shared") = 0 /\ Number(pointer, "weak") = 0
  <2>1. ASSUME NEW kind, kind # "null" PROVE Number(pointer, kind) = 0
    <3>1. {p \in Ptr!Pointers : pointer[p].kind = kind} = {}
      BY <1>1, <2>1 DEF Ptr!Init
    <3> QED
      BY <3>1, FS_EmptySet DEF Number
  <2> QED
    BY <2>1
<1>3. scheduled = <<>> /\ Len(scheduled) = 0 /\ scheduled \in Seq(Ptr!Pointer)
  BY EmptySeq DEF Ptr!Init
<1>4. Ptr!TypeOK
  <2>1. pointer \in [Ptr!Pointers -> Ptr!Pointer] /\ \A p \in Ptr!Pointers : pointer[p].kind # IF p \in SharedPtrs THEN "weak" ELSE "shared"
    BY <1>1 DEF Ptr!Init
  <2>2. sharedPtrCount \in Nat /\ weakPtrCount \in Nat /\ destructing \in 0 .. MaxGenerations /\ generation \in 0 .. MaxGenerations
    BY DEF Ptr!Init, Ptr!Assumptions
  <2>3. allocatable \in BOOLEAN /\ object \in BOOLEAN /\ running \in Ptr!Pointer /\ executed \in BOOLEAN
    BY <1>1 DEF Ptr!Init
  <2> QED
    BY <1>3, <2>1, <2>2, <2>3 DEF Ptr!TypeOK
<1>5. NumberInv
  BY <1>1, <1>2, <1>3 DEF NumberInv, Ptr!Init
<1>6. ActionInv /\ AliveInv
  BY <1>1, <1>3 DEF ActionInv, AliveInv, Ptr!Init
<1>7. PresentInv
  BY <1>1 DEF PresentInv, Ptr!Init
<1> QED
  BY <1>4, <1>5, <1>6, <1>7 DEF PtrInv

\* Every step keeps the invariant.
LEMMA PtrNextInvariant ==
    ASSUME Ptr!Assumptions, ~AssignFromWeakPtr, PtrInv, [Ptr!Next]_(Ptr!vars)
    PROVE  PtrInv'
<1>1. CASE UNCHANGED Ptr!vars
  BY <1>1 DEF Ptr!vars, Ptr!controlVars, PtrInv, Ptr!TypeOK, ActionInv, NumberInv, AliveInv, PresentInv, Number, Is,
              Ptr!Pointers, Ptr!Pointer, Ptr!Null, Ptr!Shared, Ptr!Weak
<1>2. CASE \E p \in Ptr!Pointers : Ptr!Emplace(p) \/ Ptr!Clear(p) \/ Ptr!Schedule(p)
  BY <1>2, EmplaceStep, AssignmentsStep, ScheduleStep
<1>3. CASE \E p, q \in Ptr!Pointers : Ptr!Copy(p, q) \/ Ptr!MakeWeak(p, q) \/ Ptr!LockWeak(p, q) \/ Ptr!AssignWeak(p, q)
  BY <1>3, AssignmentsStep
<1> QED
  BY <1>1, <1>2, <1>3, DestructedStep, ExecuteFirstActionStep, ActionReturnsStep, PopActionStep DEF Ptr!Next

\* The counts of the control block are those of the pointers there are.
LEMMA InvariantCounts ==
    ASSUME Ptr!Assumptions, PtrInv
    PROVE  Ptr!CountsInv
<1>1. Ptr!TypeOK /\ ActionInv /\ NumberInv
  BY DEF PtrInv
<1>2. {i \in 1 .. Len(scheduled) : scheduled[i].kind = "shared"} = {}
  BY <1>1 DEF ActionInv
<1>3. {i \in 1 .. Len(scheduled) : scheduled[i].kind = "weak"} = 1 .. Len(scheduled)
  BY <1>1 DEF ActionInv
<1>4. Cardinality(1 .. Len(scheduled)) = Len(scheduled)
  <2>1. Len(scheduled) \in Nat
    BY NumberFacts
  <2>2. Cardinality(1 .. Len(scheduled)) = IF 1 > Len(scheduled) THEN 0 ELSE Len(scheduled) - 1 + 1
    BY <2>1, FS_Interval, SMTT(40)
  <2> QED
    BY <2>1, <2>2
<1>5. {r \in {running} : r.kind = "weak"} = {}
  BY <1>1 DEF ActionInv
<1>6. Cardinality({r \in {running} : r.kind = "shared"}) = Is(running, "shared")
  <2>1. CASE running.kind = "shared"
    <3>1. {r \in {running} : r.kind = "shared"} = {running}
      BY <2>1
    <3> QED
      BY <2>1, <3>1, FS_Singleton DEF Is
  <2>2. CASE running.kind # "shared"
    <3>1. {r \in {running} : r.kind = "shared"} = {}
      BY <2>2
    <3> QED
      BY <2>2, <3>1, FS_EmptySet DEF Is
  <2> QED
    BY <2>1, <2>2
<1>7. Ptr!CountOf("shared") = Number(pointer, "shared") + 0 + Is(running, "shared")
  BY <1>2, <1>6, FS_EmptySet, PtrFinite DEF Ptr!CountOf, Number
<1>8. Ptr!CountOf("weak") = Number(pointer, "weak") + Len(scheduled) + 0
  BY <1>3, <1>4, <1>5, FS_EmptySet, PtrFinite DEF Ptr!CountOf, Number
<1>9. PICK n \in Int, u \in Int, r \in Int, l \in Int, d \in Int :
            /\ n = Number(pointer, "weak") /\ u = Number(pointer, "shared") /\ r = Is(running, "shared")
            /\ l = Len(scheduled) /\ d = destructing
  BY NumberFacts, SMTT(40)
<1>10. /\ sharedPtrCount = u + r /\ weakPtrCount = sharedPtrCount + n + l + d
       /\ Ptr!CountOf("shared") = u + 0 + r /\ Ptr!CountOf("weak") = n + l + 0
  BY <1>1, <1>7, <1>8, <1>9 DEF NumberInv
<1>11. sharedPtrCount = Ptr!CountOf("shared") /\ weakPtrCount = Ptr!CountOf("shared") + Ptr!CountOf("weak") + d
  BY ONLY <1>10, n \in Int, u \in Int, r \in Int, l \in Int, d \in Int
<1> QED
  BY <1>9, <1>11 DEF Ptr!CountsInv

\* What is shared exists, and whatever refers to an object refers to the present one.
LEMMA InvariantObject ==
    ASSUME Ptr!Assumptions, PtrInv
    PROVE  Ptr!ObjectExists /\ Ptr!NoReuse
<1>1. Ptr!TypeOK /\ ActionInv /\ NumberInv /\ AliveInv /\ PresentInv
  BY DEF PtrInv
<1>2. \A r \in Ptr!Refs : r.kind # "null" => r.of = generation
  BY <1>1 DEF Ptr!Refs, ActionInv, PresentInv
<1>3. ASSUME NEW r \in Ptr!Refs, r.kind = "shared" PROVE sharedPtrCount > 0
  <2>1. (\E p \in Ptr!Pointers : pointer[p].kind = "shared") \/ running.kind = "shared"
    BY <1>1, <1>3 DEF Ptr!Refs, ActionInv
  <2>2. Number(pointer, "shared") >= 1 \/ Is(running, "shared") = 1
    BY <2>1, NumberFacts DEF Is
  <2>3. sharedPtrCount = Number(pointer, "shared") + Is(running, "shared")
    BY <1>1 DEF NumberInv
  <2>4. Number(pointer, "shared") \in Nat /\ Is(running, "shared") \in Nat
    BY NumberFacts
  <2> QED
    BY ONLY <2>2, <2>3, <2>4
<1>4. Ptr!ObjectExists
  BY <1>1, <1>2, <1>3 DEF Ptr!ObjectExists, AliveInv
<1>5. Ptr!NoReuse
  BY <1>1, <1>2 DEF Ptr!NoReuse, PresentInv
<1> QED
  BY <1>4, <1>5

\* The invariant holds as long as no SharedPtr is assigned from a WeakPtr, for any number of
\* pointers, of objects made one after the other, and of scheduled actions.
THEOREM PtrInvariant ==
    ASSUME Ptr!Assumptions, ~AssignFromWeakPtr
    PROVE  Ptr!Spec => []PtrInv
<1>1. Ptr!Init => PtrInv
  BY PtrInitInvariant
<1>2. PtrInv /\ [Ptr!Next]_(Ptr!vars) => PtrInv'
  BY PtrNextInvariant
<1> QED
  BY <1>1, <1>2, PTL DEF Ptr!Spec

\* SharedPtrControl's counts are at every moment the numbers of pointers that there are, also
\* while the object's destructor runs: none of its asserts fails.
THEOREM CountsAreRight ==
    ASSUME Ptr!Assumptions, ~AssignFromWeakPtr
    PROVE  Ptr!Spec => []Ptr!CountsInv
<1>1. PtrInv => Ptr!CountsInv
  BY InvariantCounts
<1> QED
  BY <1>1, PtrInvariant, PTL

\* An object exists as long as a SharedPtr to it does, also that of a scheduled action that
\* runs, and it is destructed once.
THEOREM SharedObjectExists ==
    ASSUME Ptr!Assumptions, ~AssignFromWeakPtr
    PROVE  Ptr!Spec => []Ptr!ObjectExists
<1>1. PtrInv => Ptr!ObjectExists
  BY InvariantObject
<1> QED
  BY <1>1, PtrInvariant, PTL

\* SharedOptional's memory gets a new object only when no WeakPtr to the old one is left.
THEOREM NeverReused ==
    ASSUME Ptr!Assumptions, ~AssignFromWeakPtr
    PROVE  Ptr!Spec => []Ptr!NoReuse
<1>1. PtrInv => Ptr!NoReuse
  BY InvariantObject
<1> QED
  BY <1>1, PtrInvariant, PTL

---------------------------------------------------------------------------
(* std::thread *)

CONSTANTS Objects, Tasks, Port, Conduct

VARIABLES objects, tasks, crash

Thr == INSTANCE StdThread

\* Tasks are not preempted by whom they wake, and thread objects are not moved.
Plain == Port = "FreeRTOS" /\ Conduct \subseteq {"detach", "join"}

\* Of a task: it is deleted once its function has returned.
TaskInv(k) ==
    /\ k \in Thr!Task
    /\ k.deleted = IF k.pc = "gone" THEN 1 ELSE 0
    /\ k.worked <=> k.pc \notin {"none", "work"}

\* Of a task that an object is for, which is at pc: both count, until they let go; the object's
\* owner deletes task and data unless it detaches first.
Owned(pc, k) ==
    /\ k.pc \notin {"none", "free"} /\ k.data /\ k.freed = 0
    /\ k.referenceCount = (IF pc = "delete" THEN 0 ELSE 1) + (IF k.pc \in {"work", "lock"} THEN 1 ELSE 0)
    /\ pc = "delete" <=> k.pc = "gone"
    /\ k.deleteByThreadFunction => k.pc \in {"work", "lock"}
    /\ pc = "idle" /\ k.pc \in {"work", "lock"} => k.deleteByThreadFunction
    /\ k.pc = "pop" => pc = "wait" /\ k.given
    /\ k.pc = "notify" /\ k.entry => pc = "wait"
    /\ k.given => k.pc \notin {"work", "lock", "notify"}
    /\ pc \in {"kill", "delete"} => k.pc \notin {"work", "lock", "pop"}
    /\ pc # "wait" /\ k.pc \in {"work", "lock"} => ~k.entry

\* Of a task that no object is for: it has not been created, or deletes its data and itself.
Unowned(k) ==
    \/ k.pc = "none" /\ ~k.data /\ k.freed = 0 /\ ~k.entry /\ ~k.given
    \/ k.pc \in {"work", "lock"} /\ k.referenceCount = 1 /\ k.data /\ k.freed = 0 /\ k.deleteByThreadFunction
    \/ k.pc = "free" /\ k.referenceCount = 0 /\ k.data /\ k.freed = 0 /\ k.deleteByThreadFunction
    \/ k.pc = "end" /\ k.referenceCount = 0 /\ ~k.data /\ k.freed = 1 /\ k.deleteByThreadFunction
    \/ k.pc = "gone" /\ k.referenceCount = 0 /\ ~k.data /\ k.freed = 1

ObjectInv(r) == r \in Thr!Object /\ r.data = r.id /\ (r.id = None => r.pc = "idle")

ThrInv ==
    /\ Thr!TypeOK /\ ~crash
    /\ \A o \in Objects : ObjectInv(objects[o]) /\ (objects[o].id # None => Owned(objects[o].pc, tasks[objects[o].id]))
    /\ \A o, p \in Objects : objects[o].id = objects[p].id /\ objects[o].id # None => o = p
    /\ \A t \in Tasks : TaskInv(tasks[t]) /\ ((\A o \in Objects : objects[o].id # t) => Unowned(tasks[t]))

---------------------------------------------------------------------------
\* What the invariant says of one task.
LEMMA TaskFacts ==
    ASSUME Thr!Assumptions, ThrInv, NEW t \in Tasks
    PROVE  /\ TaskInv(tasks[t]) /\ tasks[t] \in Thr!Task /\ t # None
           /\ (\E o \in Objects : objects[o].id = t /\ Owned(objects[o].pc, tasks[t])) \/ Unowned(tasks[t])
  BY DEF ThrInv, TaskInv, Thr!Assumptions, Thr!TasksAssumption

\* What the invariant says of one object, and of its task.
LEMMA ObjectFacts ==
    ASSUME Thr!Assumptions, ThrInv, NEW o \in Objects
    PROVE  /\ ObjectInv(objects[o]) /\ objects[o] \in Thr!Object /\ objects[o].id \in Tasks \cup {None}
           /\ objects[o].id # None =>
                 objects[o].id \in Tasks /\ Owned(objects[o].pc, tasks[objects[o].id]) /\ TaskInv(tasks[objects[o].id])
<1>1. objects[o] \in Thr!Object /\ ObjectInv(objects[o])
  BY DEF ThrInv, ObjectInv
<1>2. objects[o].id \in Tasks \cup {None}
  BY <1>1 DEF Thr!Object
<1> QED
  BY <1>1, <1>2 DEF ThrInv

\* A task that takes a step is still as it should be, whatever object it has.
LEMMA TaskChanged ==
    ASSUME Thr!Assumptions, ThrInv, NEW t \in Tasks, NEW k,
           tasks' = [tasks EXCEPT ![t] = k], objects' = objects, crash' = FALSE,
           TaskInv(k),
           \A o \in Objects : objects[o].id = t => Owned(objects[o].pc, k),
           Unowned(tasks[t]) => Unowned(k)
    PROVE  ThrInv'
<1>1. tasks \in [Tasks -> Thr!Task] /\ k \in Thr!Task
  BY DEF ThrInv, Thr!TypeOK, TaskInv
<1>2. tasks' \in [Tasks -> Thr!Task] /\ tasks'[t] = k /\ \A u \in Tasks : u # t => tasks'[u] = tasks[u]
  BY <1>1
<1>3. (Thr!TypeOK /\ ~crash)'
  BY <1>2 DEF ThrInv, Thr!TypeOK
<1>4. ASSUME NEW o \in Objects
      PROVE  ObjectInv(objects'[o]) /\ (objects'[o].id # None => Owned(objects'[o].pc, tasks'[objects'[o].id]))
  <2>1. objects[o].id # None => objects[o].id \in Tasks
    BY ObjectFacts
  <2> QED
    BY <1>2, <2>1 DEF ThrInv
<1>5. \A o, p \in Objects : objects'[o].id = objects'[p].id /\ objects'[o].id # None => o = p
  BY DEF ThrInv
<1>6. ASSUME NEW u \in Tasks
      PROVE  TaskInv(tasks'[u]) /\ ((\A o \in Objects : objects'[o].id # u) => Unowned(tasks'[u]))
  BY <1>2 DEF ThrInv
<1> QED
  BY <1>3, <1>4, <1>5, <1>6 DEF ThrInv

\* An object that gets or has a task and keeps it or lets it go, with the task, is as it should be.
LEMMA ObjectChanged ==
    ASSUME Thr!Assumptions, ThrInv, NEW o \in Objects, NEW t \in Tasks, NEW r, NEW k,
           tasks' = [tasks EXCEPT ![t] = k], objects' = [objects EXCEPT ![o] = r], crash' = FALSE,
           objects[o].id = t \/ (objects[o].id = None /\ \A p \in Objects : objects[p].id # t),
           ObjectInv(r), TaskInv(k),
           (r.id = t /\ Owned(r.pc, k)) \/ (r.id = None /\ Unowned(k))
    PROVE  ThrInv'
<1>1. /\ tasks \in [Tasks -> Thr!Task] /\ k \in Thr!Task /\ objects \in [Objects -> Thr!Object] /\ r \in Thr!Object
      /\ t # None
  BY DEF ThrInv, Thr!TypeOK, TaskInv, ObjectInv, Thr!Assumptions, Thr!TasksAssumption
<1>2. /\ tasks' \in [Tasks -> Thr!Task] /\ tasks'[t] = k /\ \A u \in Tasks : u # t => tasks'[u] = tasks[u]
      /\ objects' \in [Objects -> Thr!Object] /\ objects'[o] = r /\ \A p \in Objects : p # o => objects'[p] = objects[p]
  BY <1>1
<1>3. (Thr!TypeOK /\ ~crash)'
  BY <1>2 DEF ThrInv, Thr!TypeOK
<1>4. \A p \in Objects : p # o => objects[p].id # t
  BY <1>1 DEF ThrInv
<1>5. ASSUME NEW p \in Objects
      PROVE  ObjectInv(objects'[p]) /\ (objects'[p].id # None => Owned(objects'[p].pc, tasks'[objects'[p].id]))
  <2>1. CASE p = o
    BY <1>1, <1>2, <2>1
  <2>2. CASE p # o
    <3>1. objects[p].id # None => objects[p].id \in Tasks
      BY ObjectFacts
    <3> QED
      BY <1>2, <1>4, <2>2, <3>1 DEF ThrInv
  <2> QED
    BY <2>1, <2>2
<1>6. \A p, q \in Objects : objects'[p].id = objects'[q].id /\ objects'[p].id # None => p = q
  BY <1>1, <1>2, <1>4 DEF ThrInv
<1>7. ASSUME NEW u \in Tasks
      PROVE  TaskInv(tasks'[u]) /\ ((\A p \in Objects : objects'[p].id # u) => Unowned(tasks'[u]))
  <2>1. CASE u = t
    BY <1>2, <2>1
  <2>2. CASE u # t
    <3>1. objects[o].id # u
      BY <1>1, <2>2 DEF Thr!Assumptions, Thr!TasksAssumption
    <3> QED
      BY <1>2, <2>2, <3>1 DEF ThrInv
  <2> QED
    BY <2>1, <2>2
<1> QED
  BY <1>3, <1>5, <1>6, <1>7 DEF ThrInv

---------------------------------------------------------------------------
(* The steps of a task *)

\* The counters of a task are small numbers.
LEMMA Small == 0 \in 0 .. 2 /\ 1 \in 0 .. 2 /\ 2 \in 0 .. 2
  OBVIOUS

\* workerFunction returns.
LEMMA WorkStep ==
    ASSUME Thr!Assumptions, Plain, ThrInv, NEW t \in Tasks, Thr!Work(t) PROVE ThrInv'
<1> DEFINE k == [tasks[t] EXCEPT !.pc = "lock", !.worked = TRUE]
<1>1. tasks[t] \in Thr!Task /\ TaskInv(tasks[t]) /\ tasks[t].pc = "work"
  BY TaskFacts DEF Thr!Work
<1>2. tasks' = [tasks EXCEPT ![t] = k] /\ objects' = objects /\ crash' = FALSE
  BY DEF Thr!Work, ThrInv
<1>3. /\ k \in Thr!Task /\ k.pc = "lock" /\ k.worked = TRUE /\ k.data = tasks[t].data
      /\ k.referenceCount = tasks[t].referenceCount /\ k.deleteByThreadFunction = tasks[t].deleteByThreadFunction
      /\ k.entry = tasks[t].entry /\ k.given = tasks[t].given /\ k.freed = tasks[t].freed /\ k.deleted = tasks[t].deleted
  BY <1>1, ZenonT(60) DEF Thr!Task
<1> HIDE DEF k
<1>4. TaskInv(k)
  BY <1>1, <1>3 DEF TaskInv
<1>5. \A o \in Objects : objects[o].id = t => Owned(objects[o].pc, k)
  <2>1. ASSUME NEW o \in Objects, objects[o].id = t PROVE Owned(objects[o].pc, k)
    <3>1. Owned(objects[o].pc, tasks[t])
      BY <2>1, TaskFacts, ObjectFacts
    <3> QED
      BY <1>1, <1>3, <3>1 DEF Owned
  <2> QED
    BY <2>1
<1>6. Unowned(tasks[t]) => Unowned(k)
  BY <1>1, <1>3 DEF Unowned
<1> QED
  BY <1>2, <1>4, <1>5, <1>6, TaskChanged

\* With joinMutex locked, the task lets go of the data, which is there, and is the last or notifies.
LEMMA LetGoStep ==
    ASSUME Thr!Assumptions, Plain, ThrInv, NEW t \in Tasks, Thr!LetGo(t) PROVE ThrInv'
<1>1. tasks[t] \in Thr!Task /\ TaskInv(tasks[t]) /\ tasks[t].pc = "lock"
  BY TaskFacts DEF Thr!LetGo
<1>2. tasks' = [tasks EXCEPT ![t] = Thr!Uncounted(tasks[t])] /\ objects' = objects /\ crash' = ~tasks[t].data
  BY DEF Thr!LetGo
<1>3. tasks[t].data = TRUE
  BY <1>1, TaskFacts DEF Owned, Unowned, Thr!Task
<1>4. CASE tasks[t].referenceCount = 1
  <2> DEFINE k == [tasks[t] EXCEPT !.referenceCount = 0, !.pc = "free"]
  <2>1. Thr!Uncounted(tasks[t]) = k
    BY <1>4 DEF Thr!Uncounted
  <2>2. /\ k \in Thr!Task /\ k.pc = "free" /\ k.worked = tasks[t].worked /\ k.data = tasks[t].data
        /\ k.referenceCount = 0 /\ k.deleteByThreadFunction = tasks[t].deleteByThreadFunction
        /\ k.freed = tasks[t].freed /\ k.deleted = tasks[t].deleted
    BY <1>1, Small, ZenonT(60) DEF Thr!Task
  <2> HIDE DEF k
  <2>3. TaskInv(k)
    BY <1>1, <2>2 DEF TaskInv
  <2>4. ASSUME NEW o \in Objects, objects[o].id = t PROVE FALSE
    <3>1. Owned(objects[o].pc, tasks[t])
      BY <2>4, TaskFacts, ObjectFacts
    <3> QED
      BY <1>1, <1>4, <3>1 DEF Owned
  <2>5. Unowned(tasks[t]) => Unowned(k)
    BY <1>1, <2>2 DEF Unowned
  <2> QED
    BY <1>2, <1>3, <2>1, <2>3, <2>4, <2>5, TaskChanged
<1>5. CASE tasks[t].referenceCount # 1
  <2>1. tasks[t].referenceCount = 2
    BY <1>1, <1>5, TaskFacts DEF Owned, Unowned
  <2> DEFINE k == [tasks[t] EXCEPT !.referenceCount = 1, !.pc = "notify", !.deleteByThreadFunction = FALSE]
  <2>2. Thr!Uncounted(tasks[t]) = k
    BY <1>5, <2>1 DEF Thr!Uncounted
  <2>3. /\ k \in Thr!Task /\ k.pc = "notify" /\ k.worked = tasks[t].worked /\ k.data = tasks[t].data
        /\ k.referenceCount = 1 /\ k.deleteByThreadFunction = FALSE
        /\ k.entry = tasks[t].entry /\ k.given = tasks[t].given
        /\ k.freed = tasks[t].freed /\ k.deleted = tasks[t].deleted
    BY <1>1, Small, ZenonT(60) DEF Thr!Task
  <2> HIDE DEF k
  <2>4. TaskInv(k)
    BY <1>1, <2>3 DEF TaskInv
  <2>5. ASSUME NEW o \in Objects, objects[o].id = t PROVE Owned(objects[o].pc, k)
    <3>1. Owned(objects[o].pc, tasks[t])
      BY <2>5, TaskFacts, ObjectFacts
    <3> QED
      BY <1>1, <2>1, <2>3, <3>1 DEF Owned
  <2>6. ~Unowned(tasks[t])
    BY <1>1, <2>1 DEF Unowned
  <2> QED
    BY <1>2, <1>3, <2>2, <2>4, <2>5, <2>6, TaskChanged
<1> QED
  BY <1>4, <1>5

\* A task that is the last deletes the data.
LEMMA FreeByTaskStep ==
    ASSUME Thr!Assumptions, Plain, ThrInv, NEW t \in Tasks, Thr!FreeByTask(t) PROVE ThrInv'
<1> DEFINE k == [[tasks[t] EXCEPT !.data = FALSE, !.freed = 1] EXCEPT !.pc = "end"]
<1>1. tasks[t] \in Thr!Task /\ TaskInv(tasks[t]) /\ tasks[t].pc = "free"
  BY TaskFacts DEF Thr!FreeByTask
<1>2. ASSUME NEW o \in Objects, objects[o].id = t PROVE FALSE
  <2>1. Owned(objects[o].pc, tasks[t])
    BY <1>2, TaskFacts, ObjectFacts
  <2> QED
    BY <1>1, <2>1 DEF Owned
<1>3. Unowned(tasks[t]) /\ tasks[t].freed = 0
  BY <1>1, <1>2, TaskFacts DEF Unowned
<1>4. tasks' = [tasks EXCEPT ![t] = k] /\ objects' = objects /\ crash' = FALSE
  BY <1>3 DEF Thr!FreeByTask, Thr!Freed, ThrInv
<1>5. /\ k \in Thr!Task /\ k.pc = "end" /\ k.worked = tasks[t].worked /\ k.data = FALSE
      /\ k.referenceCount = tasks[t].referenceCount /\ k.deleteByThreadFunction = tasks[t].deleteByThreadFunction
      /\ k.freed = 1 /\ k.deleted = tasks[t].deleted
  BY <1>1, Small, ZenonT(60) DEF Thr!Task
<1> HIDE DEF k
<1>6. TaskInv(k)
  BY <1>1, <1>5 DEF TaskInv
<1>7. Unowned(k)
  BY <1>1, <1>3, <1>5 DEF Unowned
<1> QED
  BY <1>2, <1>4, <1>6, <1>7, TaskChanged

\* notify_all gives the semaphore of the thread that waits, if there is one.
LEMMA NotifyAllStep ==
    ASSUME Thr!Assumptions, Plain, ThrInv, NEW t \in Tasks, Thr!NotifyAll(t) PROVE ThrInv'
<1>1. tasks[t] \in Thr!Task /\ TaskInv(tasks[t]) /\ tasks[t].pc = "notify"
  BY TaskFacts DEF Thr!NotifyAll
<1>2. tasks[t].data /\ ~Unowned(tasks[t])
  BY <1>1, TaskFacts DEF Owned, Unowned
<1>3. tasks[t].entry \in BOOLEAN
  BY <1>1 DEF Thr!Task
<1>4. objects' = objects /\ crash' = FALSE
  BY <1>2 DEF Thr!NotifyAll
<1>5. CASE tasks[t].entry
  <2> DEFINE k == [tasks[t] EXCEPT !.pc = "pop", !.given = TRUE]
  <2>1. tasks' = [tasks EXCEPT ![t] = k]
    BY <1>3, <1>5 DEF Thr!NotifyAll
  <2>2. /\ k \in Thr!Task /\ k.pc = "pop" /\ k.worked = tasks[t].worked /\ k.data = tasks[t].data
        /\ k.referenceCount = tasks[t].referenceCount /\ k.deleteByThreadFunction = tasks[t].deleteByThreadFunction
        /\ k.entry = tasks[t].entry /\ k.given = TRUE /\ k.freed = tasks[t].freed /\ k.deleted = tasks[t].deleted
    BY <1>1, ZenonT(60) DEF Thr!Task
  <2> HIDE DEF k
  <2>3. TaskInv(k)
    BY <1>1, <2>2 DEF TaskInv
  <2>4. ASSUME NEW o \in Objects, objects[o].id = t PROVE Owned(objects[o].pc, k)
    <3>1. Owned(objects[o].pc, tasks[t])
      BY <2>4, TaskFacts, ObjectFacts
    <3> QED
      BY <1>1, <1>5, <2>2, <3>1 DEF Owned
  <2> QED
    BY <1>2, <1>4, <2>1, <2>3, <2>4, TaskChanged
<1>6. CASE ~tasks[t].entry
  <2> DEFINE k == [tasks[t] EXCEPT !.pc = "end", !.given = FALSE]
  <2>1. tasks' = [tasks EXCEPT ![t] = k]
    BY <1>3, <1>6 DEF Thr!NotifyAll
  <2>2. /\ k \in Thr!Task /\ k.pc = "end" /\ k.worked = tasks[t].worked /\ k.data = tasks[t].data
        /\ k.referenceCount = tasks[t].referenceCount /\ k.deleteByThreadFunction = tasks[t].deleteByThreadFunction
        /\ k.entry = tasks[t].entry /\ k.given = FALSE /\ k.freed = tasks[t].freed /\ k.deleted = tasks[t].deleted
    BY <1>1, ZenonT(60) DEF Thr!Task
  <2> HIDE DEF k
  <2>3. TaskInv(k)
    BY <1>1, <2>2 DEF TaskInv
  <2>4. ASSUME NEW o \in Objects, objects[o].id = t PROVE Owned(objects[o].pc, k)
    <3>1. Owned(objects[o].pc, tasks[t])
      BY <2>4, TaskFacts, ObjectFacts
    <3> QED
      BY <1>1, <1>6, <2>2, <3>1 DEF Owned
  <2> QED
    BY <1>2, <1>4, <2>1, <2>3, <2>4, TaskChanged
<1> QED
  BY <1>5, <1>6

\* The entry that is taken from the list is there: the thread that waits is not yet woken.
LEMMA PopStep ==
    ASSUME Thr!Assumptions, Plain, ThrInv, NEW t \in Tasks, Thr!Pop(t) PROVE ThrInv'
<1> DEFINE k == [tasks[t] EXCEPT !.pc = "end", !.entry = FALSE]
<1>1. tasks[t] \in Thr!Task /\ TaskInv(tasks[t]) /\ tasks[t].pc = "pop"
  BY TaskFacts DEF Thr!Pop
<1>2. ~Unowned(tasks[t])
  BY <1>1 DEF Unowned
<1>3. tasks[t].data /\ \E o \in Objects : objects[o].id = t /\ objects[o].pc = "wait"
  <2>1. PICK o \in Objects : objects[o].id = t /\ Owned(objects[o].pc, tasks[t])
    BY <1>2, TaskFacts
  <2> QED
    BY <1>1, <2>1 DEF Owned
<1>4. tasks' = [tasks EXCEPT ![t] = k] /\ objects' = objects /\ crash' = FALSE
  BY <1>3 DEF Thr!Pop
<1>5. /\ k \in Thr!Task /\ k.pc = "end" /\ k.worked = tasks[t].worked /\ k.data = tasks[t].data
      /\ k.referenceCount = tasks[t].referenceCount /\ k.deleteByThreadFunction = tasks[t].deleteByThreadFunction
      /\ k.entry = FALSE /\ k.given = tasks[t].given /\ k.freed = tasks[t].freed /\ k.deleted = tasks[t].deleted
  BY <1>1, ZenonT(60) DEF Thr!Task
<1> HIDE DEF k
<1>6. TaskInv(k)
  BY <1>1, <1>5 DEF TaskInv
<1>7. ASSUME NEW o \in Objects, objects[o].id = t PROVE Owned(objects[o].pc, k)
  <2>1. Owned(objects[o].pc, tasks[t])
    BY <1>7, TaskFacts, ObjectFacts
  <2> QED
    BY <1>1, <1>5, <2>1 DEF Owned
<1> QED
  BY <1>2, <1>4, <1>6, <1>7, TaskChanged

\* A task that deleted its data deletes itself, and another one waits to be deleted.
LEMMA EndStep ==
    ASSUME Thr!Assumptions, Plain, ThrInv, NEW t \in Tasks, Thr!EndFreeRtos(t) PROVE ThrInv'
<1>1. tasks[t] \in Thr!Task /\ TaskInv(tasks[t]) /\ tasks[t].pc = "end"
  BY TaskFacts DEF Thr!EndFreeRtos
<1>2. tasks[t].deleted = 0
  BY <1>1 DEF TaskInv
<1>3. objects' = objects /\ crash' = FALSE
  BY DEF Thr!EndFreeRtos, ThrInv
<1>4. CASE ~tasks[t].data /\ tasks[t].deleteByThreadFunction
  <2> DEFINE k == [tasks[t] EXCEPT !.pc = "gone", !.deleted = 1]
  <2>1. tasks' = [tasks EXCEPT ![t] = k]
    <3>1. tasks' = [tasks EXCEPT ![t] = [tasks[t] EXCEPT !.pc = "gone", !.deleted = tasks[t].deleted + 1]]
      BY <1>4 DEF Thr!EndFreeRtos
    <3> QED
      BY <1>2, <3>1
  <2>2. /\ k \in Thr!Task /\ k.pc = "gone" /\ k.worked = tasks[t].worked /\ k.data = tasks[t].data
        /\ k.referenceCount = tasks[t].referenceCount /\ k.freed = tasks[t].freed /\ k.deleted = 1
    BY <1>1, Small, ZenonT(60) DEF Thr!Task
  <2> HIDE DEF k
  <2>3. TaskInv(k)
    BY <1>1, <2>2 DEF TaskInv
  <2>4. ASSUME NEW o \in Objects, objects[o].id = t PROVE FALSE
    <3>1. Owned(objects[o].pc, tasks[t])
      BY <2>4, TaskFacts, ObjectFacts
    <3> QED
      BY <1>4, <3>1 DEF Owned
  <2>5. Unowned(tasks[t]) => Unowned(k)
    BY <1>1, <2>2 DEF Unowned
  <2> QED
    BY <1>3, <2>1, <2>3, <2>4, <2>5, TaskChanged
<1>5. CASE tasks[t].data \/ ~tasks[t].deleteByThreadFunction
  <2> DEFINE k == [tasks[t] EXCEPT !.pc = "suspended"]
  <2>1. tasks' = [tasks EXCEPT ![t] = k]
    BY <1>5 DEF Thr!EndFreeRtos
  <2>2. /\ k \in Thr!Task /\ k.pc = "suspended" /\ k.worked = tasks[t].worked /\ k.data = tasks[t].data
        /\ k.referenceCount = tasks[t].referenceCount /\ k.deleteByThreadFunction = tasks[t].deleteByThreadFunction
        /\ k.entry = tasks[t].entry /\ k.given = tasks[t].given /\ k.freed = tasks[t].freed /\ k.deleted = tasks[t].deleted
    BY <1>1, ZenonT(60) DEF Thr!Task
  <2> HIDE DEF k
  <2>3. TaskInv(k)
    BY <1>1, <2>2 DEF TaskInv
  <2>4. ASSUME NEW o \in Objects, objects[o].id = t PROVE Owned(objects[o].pc, k)
    <3>1. Owned(objects[o].pc, tasks[t])
      BY <2>4, TaskFacts, ObjectFacts
    <3> QED
      BY <1>1, <2>2, <3>1 DEF Owned
  <2>5. ~Unowned(tasks[t])
    BY <1>1, <1>5 DEF Unowned
  <2> QED
    BY <1>3, <2>1, <2>3, <2>4, <2>5, TaskChanged
<1> QED
  BY <1>4, <1>5

---------------------------------------------------------------------------
(* The steps of the owner of an object *)

\* A new task.
LEMMA CreateStep ==
    ASSUME Thr!Assumptions, Plain, ThrInv, NEW o \in Objects, NEW t \in Tasks, Thr!Create(o, t) PROVE ThrInv'
<1> DEFINE k == [tasks[t] EXCEPT !.pc = "work", !.data = TRUE, !.referenceCount = 2, !.deleteByThreadFunction = TRUE]
<1> DEFINE r == [objects[o] EXCEPT !.id = t, !.data = t]
<1>1. tasks[t] \in Thr!Task /\ TaskInv(tasks[t]) /\ tasks[t].pc = "none" /\ t # None
  BY TaskFacts DEF Thr!Create
<1>2. objects[o] \in Thr!Object /\ objects[o].pc = "idle" /\ objects[o].id = None
  BY ObjectFacts DEF Thr!Create
<1>3. ASSUME NEW p \in Objects, objects[p].id = t PROVE FALSE
  <2>1. Owned(objects[p].pc, tasks[t])
    BY <1>1, <1>3, ObjectFacts
  <2> QED
    BY <1>1, <2>1 DEF Owned
<1>4. ~tasks[t].entry /\ ~tasks[t].given /\ tasks[t].freed = 0
  BY <1>1, <1>3, TaskFacts DEF Unowned
<1>5. tasks' = [tasks EXCEPT ![t] = k] /\ objects' = [objects EXCEPT ![o] = r] /\ crash' = FALSE
  BY DEF Thr!Create, ThrInv
<1>6. /\ k \in Thr!Task /\ k.pc = "work" /\ k.worked = tasks[t].worked /\ k.data = TRUE
      /\ k.referenceCount = 2 /\ k.deleteByThreadFunction = TRUE
      /\ k.entry = tasks[t].entry /\ k.given = tasks[t].given /\ k.freed = tasks[t].freed /\ k.deleted = tasks[t].deleted
  BY <1>1, Small, ZenonT(60) DEF Thr!Task
<1>7. r \in Thr!Object /\ r.id = t /\ r.data = t /\ r.pc = objects[o].pc
  BY <1>2, ZenonT(60) DEF Thr!Object
<1> HIDE DEF k, r
<1>8. TaskInv(k)
  BY <1>1, <1>6 DEF TaskInv
<1>9. ObjectInv(r)
  BY <1>2, <1>7 DEF ObjectInv
<1>10. Owned(r.pc, k)
  BY <1>2, <1>4, <1>6, <1>7 DEF Owned
<1> QED
  BY <1>2, <1>3, <1>5, <1>7, <1>8, <1>9, <1>10, ObjectChanged

\* join waits when the task has not let go yet.
LEMMA JoinStep ==
    ASSUME Thr!Assumptions, Plain, ThrInv, NEW o \in Objects, Thr!Join(o) PROVE ThrInv'
<1>1. objects[o].id # None /\ objects[o].pc = "idle"
  BY DEF Thr!Join
<1>2. PICK t \in Tasks : t = objects[o].id
  BY <1>1, ObjectFacts
<1>3. /\ objects[o] \in Thr!Object /\ objects[o].data = t /\ ObjectInv(objects[o])
      /\ tasks[t] \in Thr!Task /\ TaskInv(tasks[t]) /\ Owned("idle", tasks[t])
  BY <1>1, <1>2, ObjectFacts, TaskFacts DEF ObjectInv
<1>4. CASE tasks[t].pc \in {"work", "lock"}
  <2> DEFINE k == [tasks[t] EXCEPT !.deleteByThreadFunction = FALSE, !.entry = TRUE]
  <2> DEFINE r == [objects[o] EXCEPT !.pc = "wait"]
  <2>1. tasks[t].referenceCount = 2
    BY <1>3, <1>4 DEF Owned
  <2>2. tasks' = [tasks EXCEPT ![t] = k] /\ objects' = [objects EXCEPT ![o] = r] /\ crash' = FALSE
    BY <1>2, <1>3, <2>1 DEF Thr!Join, ThrInv
  <2>3. /\ k \in Thr!Task /\ k.pc = tasks[t].pc /\ k.worked = tasks[t].worked /\ k.data = tasks[t].data
        /\ k.referenceCount = tasks[t].referenceCount /\ k.deleteByThreadFunction = FALSE
        /\ k.entry = TRUE /\ k.given = tasks[t].given /\ k.freed = tasks[t].freed /\ k.deleted = tasks[t].deleted
    BY <1>3, ZenonT(60) DEF Thr!Task
  <2>4. r \in Thr!Object /\ r.id = objects[o].id /\ r.data = objects[o].data /\ r.pc = "wait"
    BY <1>3, ZenonT(60) DEF Thr!Object
  <2> HIDE DEF k, r
  <2>5. TaskInv(k)
    BY <1>3, <2>3 DEF TaskInv
  <2>6. ObjectInv(r)
    BY <1>1, <1>3, <2>4 DEF ObjectInv
  <2>7. Owned(r.pc, k)
    BY <1>3, <1>4, <2>3, <2>4 DEF Owned
  <2> QED
    BY <1>2, <2>2, <2>4, <2>5, <2>6, <2>7, ObjectChanged
<1>5. CASE tasks[t].pc \notin {"work", "lock"}
  <2> DEFINE r == [objects[o] EXCEPT !.pc = "kill"]
  <2>1. tasks[t].referenceCount = 1
    BY <1>3, <1>5 DEF Owned
  <2>2. objects' = [objects EXCEPT ![o] = r] /\ tasks' = tasks /\ crash' = FALSE
    BY <1>2, <1>3, <2>1 DEF Thr!Join, ThrInv
  <2>3. tasks' = [tasks EXCEPT ![t] = tasks[t]]
    BY <2>2 DEF ThrInv, Thr!TypeOK
  <2>4. r \in Thr!Object /\ r.id = objects[o].id /\ r.data = objects[o].data /\ r.pc = "kill"
    BY <1>3, ZenonT(60) DEF Thr!Object
  <2> HIDE DEF r
  <2>5. ObjectInv(r)
    BY <1>1, <1>3, <2>4 DEF ObjectInv
  <2>6. Owned(r.pc, tasks[t])
    BY <1>3, <1>5, <2>4 DEF Owned
  <2> QED
    BY <1>2, <1>3, <2>2, <2>3, <2>4, <2>5, <2>6, ObjectChanged
<1> QED
  BY <1>4, <1>5

\* join goes on only when the task has let go and is not at its entry any more.
LEMMA WokenStep ==
    ASSUME Thr!Assumptions, Plain, ThrInv, NEW o \in Objects, Thr!Woken(o) PROVE ThrInv'
<1> DEFINE r == [objects[o] EXCEPT !.pc = "kill"]
<1>1. objects[o].pc = "wait" /\ objects[o] \in Thr!Object /\ ObjectInv(objects[o]) /\ objects[o].id # None
  BY ObjectFacts DEF Thr!Woken, ObjectInv
<1>2. PICK t \in Tasks : t = objects[o].id
  BY <1>1, ObjectFacts
<1>3. tasks[t] \in Thr!Task /\ TaskInv(tasks[t]) /\ Owned("wait", tasks[t])
  BY <1>1, <1>2, ObjectFacts, TaskFacts
<1>4. tasks[t].given /\ tasks[t].pc # "pop"
  BY <1>2 DEF Thr!Woken, Plain
<1>5. tasks' = [tasks EXCEPT ![t] = tasks[t]] /\ objects' = [objects EXCEPT ![o] = r] /\ crash' = FALSE
  BY DEF Thr!Woken, ThrInv, Thr!TypeOK
<1>6. r \in Thr!Object /\ r.id = objects[o].id /\ r.data = objects[o].data /\ r.pc = "kill"
  BY <1>1, ZenonT(60) DEF Thr!Object
<1> HIDE DEF r
<1>7. ObjectInv(r)
  BY <1>1, <1>6 DEF ObjectInv
<1>8. Owned(r.pc, tasks[t])
  BY <1>3, <1>4, <1>6 DEF Owned
<1> QED
  BY <1>2, <1>3, <1>5, <1>6, <1>7, <1>8, ObjectChanged

\* join and detach delete a task that is not going to delete itself.
LEMMA KilledTask ==
    ASSUME Plain, NEW t \in Tasks, NEW pc, tasks[t] \in Thr!Task, TaskInv(tasks[t]),
           Owned(pc, tasks[t]), tasks[t].referenceCount = 1, pc # "delete", pc # "wait"
    PROVE  LET k == Thr!KillUnlessItself([tasks[t] EXCEPT !.referenceCount = tasks[t].referenceCount - 1])
           IN  TaskInv(k) /\ Owned("delete", k)
<1> DEFINE k == [[tasks[t] EXCEPT !.referenceCount = 0] EXCEPT !.pc = "gone", !.deleted = 1]
<1>1. tasks[t].pc \notin {"work", "lock", "pop"} /\ tasks[t].deleteByThreadFunction = FALSE /\ tasks[t].deleted = 0
  BY DEF Owned, TaskInv, Thr!Task
<1>2. Thr!KillUnlessItself([tasks[t] EXCEPT !.referenceCount = tasks[t].referenceCount - 1]) = k
  <2> DEFINE j == [tasks[t] EXCEPT !.referenceCount = 0]
  <2>1. j.deleteByThreadFunction = FALSE /\ j.deleted = 0
    BY <1>1, ZenonT(60) DEF Thr!Task
  <2>2. [tasks[t] EXCEPT !.referenceCount = tasks[t].referenceCount - 1] = j
    OBVIOUS
  <2> HIDE DEF j
  <2>3. Thr!KillUnlessItself(j) = [j EXCEPT !.pc = "gone", !.deleted = 1]
    BY <2>1 DEF Thr!KillUnlessItself, Thr!Killed, Plain
  <2> QED
    BY <2>2, <2>3 DEF j
<1>3. /\ k \in Thr!Task /\ k.pc = "gone" /\ k.worked = tasks[t].worked /\ k.data = tasks[t].data
      /\ k.referenceCount = 0 /\ k.deleteByThreadFunction = tasks[t].deleteByThreadFunction
      /\ k.entry = tasks[t].entry /\ k.given = tasks[t].given /\ k.freed = tasks[t].freed /\ k.deleted = 1
  BY Small, ZenonT(60) DEF Thr!Task
<1> HIDE DEF k
<1>4. tasks[t].worked
  BY <1>1 DEF TaskInv, Owned
<1>5. TaskInv(k)
  BY <1>3, <1>4 DEF TaskInv
<1>6. Owned("delete", k)
  BY <1>1, <1>3 DEF Owned
<1> QED
  BY <1>2, <1>5, <1>6

\* join deletes the task, which has let go.
LEMMA KillStep ==
    ASSUME Thr!Assumptions, Plain, ThrInv, NEW o \in Objects, Thr!Kill(o) PROVE ThrInv'
<1> DEFINE r == [objects[o] EXCEPT !.pc = "delete"]
<1>1. objects[o].pc = "kill" /\ objects[o] \in Thr!Object /\ ObjectInv(objects[o]) /\ objects[o].id # None
  BY ObjectFacts DEF Thr!Kill, ObjectInv
<1>2. PICK t \in Tasks : t = objects[o].id
  BY <1>1, ObjectFacts
<1> DEFINE k == Thr!KillUnlessItself([tasks[t] EXCEPT !.referenceCount = tasks[t].referenceCount - 1])
<1>3. tasks[t] \in Thr!Task /\ TaskInv(tasks[t]) /\ Owned("kill", tasks[t])
  BY <1>1, <1>2, ObjectFacts, TaskFacts
<1>4. tasks[t].referenceCount = 1
  BY <1>3 DEF Owned
<1>5. TaskInv(k) /\ Owned("delete", k)
  BY <1>3, <1>4, KilledTask
<1>6. tasks' = [tasks EXCEPT ![t] = k] /\ objects' = [objects EXCEPT ![o] = r] /\ crash' = FALSE
  BY <1>2 DEF Thr!Kill, ThrInv
<1>7. r \in Thr!Object /\ r.id = objects[o].id /\ r.data = objects[o].data /\ r.pc = "delete"
  BY <1>1, ZenonT(60) DEF Thr!Object
<1> HIDE DEF k, r
<1>8. ObjectInv(r)
  BY <1>1, <1>7 DEF ObjectInv
<1> QED
  BY <1>2, <1>5, <1>6, <1>7, <1>8, ObjectChanged

\* An object that has no task.
Empty == [id |-> None, data |-> None, pc |-> "idle"]

\* It is as it should be.
LEMMA EmptyObject == Empty \in Thr!Object /\ ObjectInv(Empty) /\ Empty.id = None
  BY DEF Empty, Thr!Object, ObjectInv

\* The last deletes the data.
LEMMA DeleteStep ==
    ASSUME Thr!Assumptions, Plain, ThrInv, NEW o \in Objects, Thr!Delete(o) PROVE ThrInv'
<1>1. objects[o].pc = "delete" /\ objects[o] \in Thr!Object /\ ObjectInv(objects[o]) /\ objects[o].id # None
  BY ObjectFacts DEF Thr!Delete, ObjectInv
<1>2. PICK t \in Tasks : t = objects[o].id
  BY <1>1, ObjectFacts
<1>3. tasks[t] \in Thr!Task /\ TaskInv(tasks[t]) /\ Owned("delete", tasks[t])
  BY <1>1, <1>2, ObjectFacts, TaskFacts
<1>4. tasks[t].pc = "gone" /\ tasks[t].referenceCount = 0 /\ tasks[t].freed = 0
  BY <1>3 DEF Owned
<1> DEFINE k == [tasks[t] EXCEPT !.data = FALSE, !.freed = 1]
<1>5. tasks' = [tasks EXCEPT ![t] = k] /\ objects' = [objects EXCEPT ![o] = Empty] /\ crash' = FALSE
  BY <1>2, <1>4 DEF Thr!Delete, Thr!Freed, ThrInv, Empty
<1>6. /\ k \in Thr!Task /\ k.pc = tasks[t].pc /\ k.worked = tasks[t].worked /\ k.data = FALSE
      /\ k.referenceCount = tasks[t].referenceCount /\ k.freed = 1 /\ k.deleted = tasks[t].deleted
  BY <1>3, Small, ZenonT(60) DEF Thr!Task
<1> HIDE DEF k
<1>7. TaskInv(k)
  BY <1>3, <1>6 DEF TaskInv
<1>8. Unowned(k)
  BY <1>4, <1>6 DEF Unowned
<1> QED
  BY <1>2, <1>5, <1>7, <1>8, EmptyObject, ObjectChanged

\* detach leaves the data to the task, unless the task has let go.
LEMMA DetachStep ==
    ASSUME Thr!Assumptions, Plain, ThrInv, NEW o \in Objects, Thr!Detach(o) PROVE ThrInv'
<1>1. objects[o].pc = "idle" /\ objects[o] \in Thr!Object /\ ObjectInv(objects[o]) /\ objects[o].id # None
  BY ObjectFacts DEF Thr!Detach
<1>2. PICK t \in Tasks : t = objects[o].id
  BY <1>1, ObjectFacts
<1>3. tasks[t] \in Thr!Task /\ TaskInv(tasks[t]) /\ Owned("idle", tasks[t]) /\ objects[o].data = t
  BY <1>1, <1>2, ObjectFacts, TaskFacts DEF ObjectInv
<1>4. CASE tasks[t].pc \notin {"work", "lock"}
  <2> DEFINE k == Thr!KillUnlessItself([tasks[t] EXCEPT !.referenceCount = tasks[t].referenceCount - 1])
  <2> DEFINE r == [objects[o] EXCEPT !.pc = "delete"]
  <2>1. tasks[t].referenceCount = 1
    BY <1>3, <1>4 DEF Owned
  <2>2. TaskInv(k) /\ Owned("delete", k)
    BY <1>3, <2>1, KilledTask
  <2>3. tasks' = [tasks EXCEPT ![t] = k] /\ objects' = [objects EXCEPT ![o] = r] /\ crash' = FALSE
    BY <1>2, <1>3, <2>1 DEF Thr!Detach, ThrInv
  <2>4. r \in Thr!Object /\ r.id = objects[o].id /\ r.data = objects[o].data /\ r.pc = "delete"
    BY <1>1, ZenonT(60) DEF Thr!Object
  <2> HIDE DEF k, r
  <2>5. ObjectInv(r)
    BY <1>1, <2>4 DEF ObjectInv
  <2> QED
    BY <1>2, <2>2, <2>3, <2>4, <2>5, ObjectChanged
<1>5. CASE tasks[t].pc \in {"work", "lock"}
  <2> DEFINE k == [tasks[t] EXCEPT !.referenceCount = 1]
  <2>1. tasks[t].referenceCount = 2
    BY <1>3, <1>5 DEF Owned
  <2>2. tasks' = [tasks EXCEPT ![t] = k] /\ objects' = [objects EXCEPT ![o] = Empty] /\ crash' = FALSE
    BY <1>2, <1>3, <2>1 DEF Thr!Detach, ThrInv, Empty
  <2>3. /\ k \in Thr!Task /\ k.pc = tasks[t].pc /\ k.worked = tasks[t].worked /\ k.data = tasks[t].data
        /\ k.referenceCount = 1 /\ k.deleteByThreadFunction = tasks[t].deleteByThreadFunction
        /\ k.freed = tasks[t].freed /\ k.deleted = tasks[t].deleted
    BY <1>3, Small, ZenonT(60) DEF Thr!Task
  <2> HIDE DEF k
  <2>4. TaskInv(k)
    BY <1>3, <2>3 DEF TaskInv
  <2>5. Unowned(k)
    BY <1>3, <1>5, <2>3 DEF Unowned, Owned
  <2> QED
    BY <1>2, <2>2, <2>4, <2>5, EmptyObject, ObjectChanged
<1> QED
  BY <1>4, <1>5

---------------------------------------------------------------------------
(* Theorems *)

\* Initially there are no tasks.
LEMMA ThrInitInvariant ==
    ASSUME Thr!Assumptions, Thr!Init PROVE ThrInv
<1> DEFINE k == [pc |-> "none", worked |-> FALSE, data |-> FALSE, referenceCount |-> 0,
                 deleteByThreadFunction |-> FALSE, entry |-> FALSE, given |-> FALSE, freed |-> 0, deleted |-> 0]
<1>1. objects = [o \in Objects |-> Empty] /\ tasks = [t \in Tasks |-> k] /\ crash = FALSE
  BY DEF Thr!Init, Empty
<1>2. k \in Thr!Task
  BY Small, ZenonT(60) DEF Thr!Task
<1>3. TaskInv(k) /\ Unowned(k)
  BY <1>2 DEF TaskInv, Unowned
<1> HIDE DEF k
<1> QED
  BY <1>1, <1>2, <1>3, EmptyObject DEF ThrInv, Thr!TypeOK

\* Every step keeps the invariant.
LEMMA ThrNextInvariant ==
    ASSUME Thr!Assumptions, Plain, ThrInv, [Thr!Next]_(Thr!vars) PROVE ThrInv'
<1>1. CASE UNCHANGED Thr!vars
  BY <1>1 DEF ThrInv, Thr!vars, Thr!TypeOK
<1>2. CASE Thr!Next
  <2>1. ASSUME NEW t \in Tasks, Thr!TaskStep(t) PROVE ThrInv'
    <3>1. ~Thr!EndThreadX(t)
      BY DEF Thr!EndThreadX, Plain
    <3> QED
      BY <2>1, <3>1, WorkStep, LetGoStep, FreeByTaskStep, NotifyAllStep, PopStep, EndStep DEF Thr!TaskStep
  <2>2. ASSUME NEW o \in Objects, Thr!OwnerStep(o) PROVE ThrInv'
    BY <2>2, WokenStep, KillStep, DeleteStep DEF Thr!OwnerStep
  <2>3. ASSUME NEW o \in Objects, NEW p \in Objects PROVE ~Thr!Move(o, p)
    BY DEF Thr!Move, Plain
  <2> QED
    BY <1>2, <2>1, <2>2, <2>3, JoinStep, DetachStep, CreateStep DEF Thr!Next
<1> QED
  BY <1>1, <1>2

\* The invariant holds on FreeRTOS, for any number of threads, as long as thread objects are not moved
\* and the thread that joins does not preempt the task that wakes it.
THEOREM ThrInvariant ==
    ASSUME Thr!Assumptions, Plain
    PROVE  Thr!Spec => []ThrInv
<1>1. Thr!Init => ThrInv
  BY ThrInitInvariant
<1>2. ThrInv /\ [Thr!Next]_(Thr!vars) => ThrInv'
  BY ThrNextInvariant
<1> QED
  BY <1>1, <1>2, PTL DEF Thr!Spec

\* Task and thread object use their shared data, and the entry and stack of the thread that joins, only while
\* these are there; both data and task are deleted once, by the last of the two.
THEOREM LastDeletes ==
    ASSUME Thr!Assumptions, Plain
    PROVE  Thr!Spec => [](Thr!NeverCrashes /\ Thr!DeletedOnce)
<1>1. ThrInv => Thr!NeverCrashes /\ Thr!DeletedOnce
  <2> SUFFICES ASSUME ThrInv PROVE Thr!NeverCrashes /\ Thr!DeletedOnce
    OBVIOUS
  <2>1. ASSUME NEW t \in Tasks
        PROVE  /\ tasks[t].freed <= 1 /\ tasks[t].deleted <= 1
               /\ tasks[t].freed = 1 => tasks[t].referenceCount = 0
    <3>1. TaskInv(tasks[t]) /\ ((\E o \in Objects : Owned(objects[o].pc, tasks[t])) \/ Unowned(tasks[t]))
      BY TaskFacts
    <3>2. tasks[t].deleted <= 1
      BY <3>1 DEF TaskInv
    <3> QED
      BY <3>1, <3>2 DEF Owned, Unowned
  <2> QED
    BY <2>1 DEF ThrInv, Thr!NeverCrashes, Thr!DeletedOnce
<1> QED
  BY <1>1, ThrInvariant, PTL

\* A task is deleted, and join goes on, only after the function of the task has returned.
THEOREM WorkIsCompleted ==
    ASSUME Thr!Assumptions, Plain
    PROVE  Thr!Spec => []Thr!WorkCompleted
<1>1. ASSUME ThrInv PROVE Thr!WorkCompleted
  <2>1. ASSUME NEW t \in Tasks, tasks[t].pc = "gone" PROVE tasks[t].worked
    BY <1>1, <2>1 DEF ThrInv, TaskInv
  <2>2. ASSUME NEW o \in Objects, objects[o].pc \in {"kill", "delete"} PROVE tasks[objects[o].id].worked
    <3>1. objects[o].id # None
      BY <1>1, <2>2 DEF ThrInv, ObjectInv
    <3>2. objects[o].id \in Tasks
      BY <1>1, <3>1 DEF ThrInv, ObjectInv, Thr!Object
    <3>3. Owned(objects[o].pc, tasks[objects[o].id]) /\ TaskInv(tasks[objects[o].id])
      BY <1>1, <3>1, <3>2 DEF ThrInv
    <3> QED
      BY <2>2, <3>3 DEF Owned, TaskInv
  <2> QED
    BY <2>1, <2>2 DEF Thr!WorkCompleted
<1> QED
  BY <1>1, ThrInvariant, PTL

=============================================================================
