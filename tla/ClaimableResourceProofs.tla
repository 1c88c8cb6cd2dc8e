---- MODULE ClaimableResourceProofs ----
(***************************************************************************)
(* Proofs about ClaimableResource, for any set of claimers and of claims.  *)
(***************************************************************************)
EXTENDS ClaimableResource, SequenceTheorems, TLAPS

\* No element occurs twice in s.
Distinct(s) == \A i, j \in 1 .. Len(s) : s[i] = s[j] => i = j

----------------------------------------------------------------------------
(* The list *)

\* The position that erase finds is one of x.
LEMMA IndexOfInSeq ==
    ASSUME NEW x, NEW s, InSeq(x, s)
    PROVE  IndexOf(x, s) \in 1 .. Len(s) /\ s[IndexOf(x, s)] = x
  BY DEF InSeq, IndexOf

\* What erase returns, position by position.
LEMMA ErasePositions ==
    ASSUME NEW S, NEW s \in Seq(S), NEW x, InSeq(x, s)
    PROVE  /\ Erase(s, x) \in Seq(S)
           /\ Len(Erase(s, x)) = Len(s) - 1
           /\ \A i \in 1 .. Len(s) - 1 :
                 Erase(s, x)[i] = IF i < IndexOf(x, s) THEN s[i] ELSE s[i + 1]
<1> DEFINE n == Len(s) - 1
           t(i) == IF i < IndexOf(x, s) THEN s[i] ELSE s[i + 1]
<1>1. IndexOf(x, s) \in 1 .. Len(s)
  BY IndexOfInSeq
<1>2. n \in Nat /\ Len(s) \in Nat
  BY <1>1, LenProperties
<1>3. \A i \in 1 .. n : t(i) \in S
  BY <1>1, <1>2, ElementOfSeq
<1>4. Erase(s, x) = [i \in 1 .. n |-> t(i)]
  BY DEF Erase
<1> HIDE DEF t, n
<1>5. [i \in 1 .. n |-> t(i)] \in Seq(S)
  BY <1>2, <1>3, IsASeq
<1>6. Len([i \in 1 .. n |-> t(i)]) = n
  BY <1>2, <1>5, LenProperties
<1>7. \A i \in 1 .. n : Erase(s, x)[i] = t(i)
  BY <1>4
<1> QED
  BY <1>4, <1>5, <1>6, <1>7 DEF t, n

\* Erasing keeps a list without duplicates, takes x and nothing else from it, and leaves
\* the others in their order.
LEMMA EraseProperties ==
    ASSUME NEW S, NEW s \in Seq(S), NEW x, Distinct(s)
    PROVE  /\ Erase(s, x) \in Seq(S)
           /\ Distinct(Erase(s, x))
           /\ \A y : InSeq(y, Erase(s, x)) <=> InSeq(y, s) /\ y # x
           /\ \A y, z : Precedes(y, z, Erase(s, x)) <=> Precedes(y, z, s) /\ y # x /\ z # x
<1>1. CASE ~InSeq(x, s)
  <2>1. Erase(s, x) = s
    BY <1>1 DEF Erase
  <2>2. \A y, z : Precedes(y, z, s) => InSeq(y, s) /\ InSeq(z, s)
    BY DEF Precedes, InSeq
  <2> QED
    BY <1>1, <2>1, <2>2
<1>2. CASE InSeq(x, s)
  <2> DEFINE t == Erase(s, x)
             p == IndexOf(x, s)
             At(i) == IF i < p THEN i ELSE i + 1
  <2>1. p \in 1 .. Len(s) /\ s[p] = x
    BY <1>2, IndexOfInSeq
  <2>2. /\ t \in Seq(S) /\ Len(t) = Len(s) - 1 /\ Len(s) \in Nat
        /\ \A i \in 1 .. Len(t) : t[i] = s[At(i)]
    BY <1>2, ErasePositions, LenProperties
  <2>3. \A i \in 1 .. Len(t) : At(i) \in 1 .. Len(s) /\ At(i) # p
    BY <2>1, <2>2
  <2>4. \A i, j \in 1 .. Len(t) : i < j <=> At(i) < At(j)
    BY <2>1, <2>2
  <2>5. \A j \in 1 .. Len(s) : j # p => \E i \in 1 .. Len(t) : At(i) = j
    <3> SUFFICES ASSUME NEW j \in 1 .. Len(s), j # p PROVE \E i \in 1 .. Len(t) : At(i) = j
      OBVIOUS
    <3>1. CASE j < p
      <4>1. j \in 1 .. Len(t) /\ At(j) = j
        BY <2>1, <2>2, <3>1
      <4> QED
        BY <4>1
    <3>2. CASE j > p
      <4>1. j - 1 \in 1 .. Len(t) /\ At(j - 1) = j
        BY <2>1, <2>2, <3>2
      <4> QED
        BY <4>1
    <3> QED
      BY <3>1, <3>2, <2>1
  <2>6. \A j \in 1 .. Len(s) : s[j] = x => j = p
    BY <2>1 DEF Distinct
  <2> HIDE DEF t, p, At
  <2>7. Distinct(t)
    <3> SUFFICES ASSUME NEW i \in 1 .. Len(t), NEW j \in 1 .. Len(t), t[i] = t[j] PROVE i = j
      BY DEF Distinct
    <3>1. At(i) = At(j)
      BY <2>2, <2>3 DEF Distinct
    <3>2. ~(At(i) < At(j)) /\ ~(At(j) < At(i))
      BY <3>1, <2>3
    <3> QED
      BY <3>2, <2>2, <2>4
  <2>8. ASSUME NEW y PROVE InSeq(y, t) <=> InSeq(y, s) /\ y # x
    <3>1. ASSUME InSeq(y, t) PROVE InSeq(y, s) /\ y # x
      BY <3>1, <2>2, <2>3, <2>6 DEF InSeq
    <3>2. ASSUME InSeq(y, s), y # x PROVE InSeq(y, t)
      BY <3>2, <2>1, <2>2, <2>5 DEF InSeq
    <3> QED
      BY <3>1, <3>2
  <2>9. ASSUME NEW y, NEW z
        PROVE  Precedes(y, z, t) <=> Precedes(y, z, s) /\ y # x /\ z # x
    <3>1. ASSUME Precedes(y, z, t) PROVE Precedes(y, z, s) /\ y # x /\ z # x
      <4>1. PICK i \in 1 .. Len(t), j \in 1 .. Len(t) : i < j /\ t[i] = y /\ t[j] = z
        BY <3>1 DEF Precedes
      <4>2. At(i) < At(j) /\ s[At(i)] = y /\ s[At(j)] = z
        BY <4>1, <2>2, <2>4
      <4> QED
        BY <4>2, <2>3, <2>6 DEF Precedes
    <3>2. ASSUME Precedes(y, z, s), y # x, z # x PROVE Precedes(y, z, t)
      <4>1. PICK i \in 1 .. Len(s), j \in 1 .. Len(s) : i < j /\ s[i] = y /\ s[j] = z
        BY <3>2 DEF Precedes
      <4>2. PICK k \in 1 .. Len(t), l \in 1 .. Len(t) : At(k) = i /\ At(l) = j
        BY <4>1, <3>2, <2>1, <2>5
      <4>3. k < l /\ t[k] = y /\ t[l] = z
        BY <4>1, <4>2, <2>2, <2>4
      <4> QED
        BY <4>3 DEF Precedes
    <3> QED
      BY <3>1, <3>2
  <2> QED
    BY <2>2, <2>7, <2>8, <2>9 DEF t
<1> QED
  BY <1>1, <1>2

\* Adding x at the back.
LEMMA AppendList ==
    ASSUME NEW S, NEW s \in Seq(S), NEW x \in S, Distinct(s), ~InSeq(x, s)
    PROVE  /\ Append(s, x) \in Seq(S)
           /\ Distinct(Append(s, x))
           /\ \A y : InSeq(y, Append(s, x)) <=> InSeq(y, s) \/ y = x
           /\ \A y, z : Precedes(y, z, Append(s, x)) <=> Precedes(y, z, s) \/ (InSeq(y, s) /\ z = x)
<1> DEFINE t == Append(s, x)
<1>1. /\ t \in Seq(S) /\ Len(s) \in Nat /\ Len(t) = Len(s) + 1
      /\ \A i \in 1 .. Len(s) : t[i] = s[i]
      /\ t[Len(s) + 1] = x
  BY AppendProperties, LenProperties
<1>2. \A i \in 1 .. Len(t) : i \in 1 .. Len(s) \/ i = Len(s) + 1
  BY <1>1
<1>3. \A i \in 1 .. Len(s) : i \in 1 .. Len(t) /\ i < Len(s) + 1
  BY <1>1
<1>4. Len(s) + 1 \in 1 .. Len(t)
  BY <1>1
<1> HIDE DEF t
<1>5. Distinct(t)
  BY <1>1, <1>2 DEF Distinct, InSeq
<1>6. \A y : InSeq(y, t) <=> InSeq(y, s) \/ y = x
  BY <1>1, <1>2, <1>3, <1>4 DEF InSeq
<1>7. \A y, z : Precedes(y, z, s) \/ (InSeq(y, s) /\ z = x) => Precedes(y, z, t)
  BY <1>1, <1>3, <1>4 DEF Precedes, InSeq
<1>8. ASSUME NEW y, NEW z, Precedes(y, z, t) PROVE Precedes(y, z, s) \/ (InSeq(y, s) /\ z = x)
  <2>1. PICK i \in 1 .. Len(t), j \in 1 .. Len(t) : i < j /\ t[i] = y /\ t[j] = z
    BY <1>8 DEF Precedes
  <2>2. i \in 1 .. Len(s)
    BY <1>1, <2>1
  <2> QED
    BY <1>1, <1>2, <2>1, <2>2 DEF Precedes, InSeq
<1> QED
  BY <1>1, <1>5, <1>6, <1>7, <1>8 DEF t

\* Adding x in front.
LEMMA PrependList ==
    ASSUME NEW S, NEW s \in Seq(S), NEW x \in S, Distinct(s), ~InSeq(x, s)
    PROVE  /\ <<x>> \o s \in Seq(S)
           /\ Distinct(<<x>> \o s)
           /\ \A y : InSeq(y, <<x>> \o s) <=> InSeq(y, s) \/ y = x
           /\ \A y, z : Precedes(y, z, <<x>> \o s) <=> Precedes(y, z, s) \/ (y = x /\ InSeq(z, s))
<1> DEFINE t == <<x>> \o s
<1>1. <<x>> \in Seq(S) /\ Len(<<x>>) = 1 /\ <<x>>[1] = x
  OBVIOUS
<1>2. /\ t \in Seq(S) /\ Len(s) \in Nat /\ Len(t) = Len(s) + 1
      /\ \A i \in 1 .. Len(s) : t[i + 1] = s[i]
      /\ t[1] = x
  <2>1. Len(s) \in Nat
    BY LenProperties
  <2>2. /\ t \in Seq(S) /\ Len(t) = 1 + Len(s)
        /\ \A i \in 1 .. 1 + Len(s) : t[i] = IF i <= 1 THEN <<x>>[i] ELSE s[i - 1]
    BY <1>1, ConcatProperties
  <2> HIDE DEF t
  <2>3. ASSUME NEW i \in 1 .. Len(s) PROVE t[i + 1] = s[i]
    <3>1. i + 1 \in 1 .. 1 + Len(s) /\ ~(i + 1 <= 1) /\ (i + 1) - 1 = i
      BY <2>1
    <3> QED
      BY <3>1, <2>2
  <2>4. t[1] = x
    <3>1. 1 \in 1 .. 1 + Len(s) /\ 1 <= 1
      BY <2>1
    <3> QED
      BY <3>1, <2>2, <1>1
  <2> QED
    BY <2>1, <2>2, <2>3, <2>4
<1> HIDE DEF t
<1>3. \A i \in 1 .. Len(t) : i = 1 \/ (i - 1 \in 1 .. Len(s) /\ t[i] = s[i - 1])
  <2> SUFFICES ASSUME NEW i \in 1 .. Len(t), i # 1 PROVE i - 1 \in 1 .. Len(s) /\ t[i] = s[i - 1]
    OBVIOUS
  <2>1. i - 1 \in 1 .. Len(s) /\ (i - 1) + 1 = i
    BY <1>2
  <2>2. t[(i - 1) + 1] = s[i - 1]
    BY <2>1, <1>2
  <2> QED
    BY <2>1, <2>2
<1>4. \A i \in 1 .. Len(s) : i + 1 \in 1 .. Len(t) /\ 1 < i + 1
  BY <1>2
<1>5. 1 \in 1 .. Len(t)
  BY <1>2
<1>6. Distinct(t)
  <2> SUFFICES ASSUME NEW i \in 1 .. Len(t), NEW j \in 1 .. Len(t), t[i] = t[j] PROVE i = j
    BY DEF Distinct
  <2>1. (i = 1) <=> (j = 1)
    BY <1>2, <1>3 DEF InSeq
  <2>2. i # 1 => i - 1 = j - 1
    BY <1>3, <2>1 DEF Distinct
  <2> QED
    BY <2>1, <2>2, <1>2
<1>7. \A y : InSeq(y, t) <=> InSeq(y, s) \/ y = x
  <2>1. \A y : InSeq(y, t) => InSeq(y, s) \/ y = x
    BY <1>2, <1>3, SMTT(40) DEF InSeq
  <2>2. \A y : InSeq(y, s) \/ y = x => InSeq(y, t)
    BY <1>2, <1>4, <1>5 DEF InSeq
  <2> QED
    BY <2>1, <2>2
<1>8. ASSUME NEW y, NEW z, Precedes(y, z, s) \/ (y = x /\ InSeq(z, s)) PROVE Precedes(y, z, t)
  <2>1. ASSUME Precedes(y, z, s) PROVE Precedes(y, z, t)
    <3>1. PICK i \in 1 .. Len(s), j \in 1 .. Len(s) : i < j /\ s[i] = y /\ s[j] = z
      BY <2>1 DEF Precedes
    <3>2. i + 1 < j + 1 /\ t[i + 1] = y /\ t[j + 1] = z
      BY <3>1, <1>2
    <3> QED
      BY <3>2, <1>4 DEF Precedes
  <2>2. ASSUME y = x, InSeq(z, s) PROVE Precedes(y, z, t)
    <3>1. PICK j \in 1 .. Len(s) : s[j] = z
      BY <2>2 DEF InSeq
    <3> QED
      BY <3>1, <2>2, <1>2, <1>4, <1>5 DEF Precedes
  <2> QED
    BY <1>8, <2>1, <2>2
<1>9. ASSUME NEW y, NEW z, Precedes(y, z, t) PROVE Precedes(y, z, s) \/ (y = x /\ InSeq(z, s))
  <2>1. PICK i \in 1 .. Len(t), j \in 1 .. Len(t) : i < j /\ t[i] = y /\ t[j] = z
    BY <1>9 DEF Precedes
  <2>2. j # 1 /\ j - 1 \in 1 .. Len(s) /\ s[j - 1] = z
    BY <2>1, <1>2, <1>3
  <2>3. CASE i = 1
    BY <2>1, <2>2, <2>3, <1>2 DEF InSeq
  <2>4. CASE i # 1
    <3>1. i - 1 \in 1 .. Len(s) /\ s[i - 1] = y /\ i - 1 < j - 1
      BY <2>1, <2>4, <1>2, <1>3
    <3> QED
      BY <3>1, <2>2 DEF Precedes
  <2> QED
    BY <2>3, <2>4
<1> QED
  BY <1>2, <1>6, <1>7, <1>8, <1>9 DEF t

\* Taking the first.
LEMMA TailList ==
    ASSUME NEW S, NEW s \in Seq(S), s # <<>>, Distinct(s)
    PROVE  /\ Head(s) \in S /\ InSeq(Head(s), s)
           /\ Tail(s) \in Seq(S)
           /\ Distinct(Tail(s))
           /\ \A y : InSeq(y, Tail(s)) <=> InSeq(y, s) /\ y # Head(s)
           /\ \A y, z : Precedes(y, z, Tail(s)) => Precedes(y, z, s)
<1> DEFINE t == Tail(s)
<1>1. /\ Head(s) \in S /\ Head(s) = s[1] /\ t \in Seq(S)
      /\ Len(s) \in Nat \ {0} /\ Len(t) = Len(s) - 1
      /\ \A i \in 1 .. Len(t) : t[i] = s[i + 1]
  BY HeadTailProperties, EmptySeq
<1> HIDE DEF t
<1>2. 1 \in 1 .. Len(s) /\ \A i \in 1 .. Len(t) : i + 1 \in 1 .. Len(s) /\ i + 1 # 1
  BY <1>1
<1>3. Distinct(t)
  <2> SUFFICES ASSUME NEW i \in 1 .. Len(t), NEW j \in 1 .. Len(t), t[i] = t[j] PROVE i = j
    BY DEF Distinct
  <2>1. i + 1 = j + 1
    BY <1>1, <1>2 DEF Distinct
  <2> QED
    BY <2>1
<1>4. ASSUME NEW y, InSeq(y, t) PROVE InSeq(y, s) /\ y # Head(s)
  BY <1>1, <1>2, <1>4 DEF InSeq, Distinct
<1>5. ASSUME NEW y, InSeq(y, s), y # Head(s) PROVE InSeq(y, t)
  <2>1. PICK i \in 1 .. Len(s) : s[i] = y
    BY <1>5 DEF InSeq
  <2>2. i - 1 \in 1 .. Len(t) /\ (i - 1) + 1 = i
    BY <1>1, <1>5, <2>1
  <2>3. t[i - 1] = y
    BY <1>1, <2>1, <2>2
  <2> QED
    BY <2>2, <2>3 DEF InSeq
<1>6. ASSUME NEW y, NEW z, Precedes(y, z, t) PROVE Precedes(y, z, s)
  <2>1. PICK i \in 1 .. Len(t), j \in 1 .. Len(t) : i < j /\ t[i] = y /\ t[j] = z
    BY <1>6 DEF Precedes
  <2>2. i + 1 < j + 1 /\ s[i + 1] = y /\ s[j + 1] = z
    BY <1>1, <2>1
  <2> QED
    BY <1>2, <2>2 DEF Precedes
<1> QED
  BY <1>1, <1>2, <1>3, <1>4, <1>5, <1>6 DEF t, InSeq

\* Replacing old by new, which is not in the list, leaves new in the place of old.
LEMMA ReplaceList ==
    ASSUME NEW S, NEW s \in Seq(S), NEW old \in S, NEW new \in S, old # new,
           Distinct(s), ~InSeq(new, s)
    PROVE  LET t == [i \in 1 .. Len(s) |-> IF s[i] = old THEN new ELSE s[i]]
               Was(y) == IF y = new THEN old ELSE y
           IN  /\ t \in Seq(S)
               /\ Distinct(t)
               /\ \A y : InSeq(y, t) <=> y # old /\ InSeq(Was(y), s)
               /\ \A y, z : Precedes(y, z, t) => y # old /\ z # old /\ Precedes(Was(y), Was(z), s)
               /\ s # <<>> <=> t # <<>>
<1> DEFINE e(i) == IF s[i] = old THEN new ELSE s[i]
           n == Len(s)
           t == [i \in 1 .. n |-> e(i)]
           Was(y) == IF y = new THEN old ELSE y
<1>1. n \in Nat /\ \A i \in 1 .. n : s[i] \in S /\ s[i] # new
  BY ElementOfSeq, LenProperties DEF InSeq
<1>2. \A i \in 1 .. n : e(i) \in S /\ e(i) # old /\ Was(e(i)) = s[i]
  BY <1>1
<1> HIDE DEF e
<1>3. t \in Seq(S) /\ Len(t) = n /\ \A i \in 1 .. n : t[i] = e(i)
  <2>1. t \in Seq(S)
    BY <1>1, <1>2, IsASeq
  <2> QED
    BY <2>1, <1>1, LenProperties
<1> HIDE DEF t
<1>4. \A i \in 1 .. n : t[i] # old /\ Was(t[i]) = s[i]
  BY <1>2, <1>3
<1>5. Distinct(t)
  BY <1>3, <1>4 DEF Distinct
<1>6. ASSUME NEW y, InSeq(y, t) PROVE y # old /\ InSeq(Was(y), s)
  BY <1>3, <1>4, <1>6 DEF InSeq
<1>7. ASSUME NEW y, y # old, InSeq(Was(y), s) PROVE InSeq(y, t)
  <2>1. PICK i \in 1 .. n : s[i] = Was(y)
    BY <1>7 DEF InSeq
  <2>2. t[i] = y
    BY <1>1, <1>3, <1>7, <2>1 DEF e
  <2> QED
    BY <1>3, <2>2 DEF InSeq
<1>8. ASSUME NEW y, NEW z, Precedes(y, z, t)
      PROVE  y # old /\ z # old /\ Precedes(Was(y), Was(z), s)
  BY <1>3, <1>4, <1>8 DEF Precedes
<1>9. s # <<>> <=> t # <<>>
  BY <1>1, <1>3, EmptySeq
<1>10. t = [i \in 1 .. Len(s) |-> IF s[i] = old THEN new ELSE s[i]]
  BY DEF t, e
<1> HIDE DEF n, Was
<1>11. \A y : InSeq(y, t) <=> y # old /\ InSeq(Was(y), s)
  BY <1>6, <1>7
<1>12. \A y, z : Precedes(y, z, t) => y # old /\ z # old /\ Precedes(Was(y), Was(z), s)
  BY <1>8
<1> QED
  BY <1>3, <1>5, <1>9, <1>10, <1>11, <1>12 DEF Was

----------------------------------------------------------------------------
(* The inductive invariant *)

\* An onGranted is pending for one claimer only, and what is known to be urgent is
\* outstanding.
CallbackInv ==
    /\ \A c, d \in Claimers : onGranted[c] = onGranted[d] /\ onGranted[c] # None => c = d
    /\ \A k \in urgent : InSeq(k, arrived)

IInv == ClaimsInv /\ OrderInv /\ CallbackInv

\* GrantedBefore of given lists.
Before(k, l, u, a) == IF l \in u THEN k \in u /\ Precedes(l, k, a)
                                 ELSE k \in u \/ Precedes(k, l, a)

\* The parts of the invariant in the form in which the steps use them.
LEMMA InvFacts ==
    IInv <=> /\ TypeOK /\ GrantInv /\ HandOverInv
             /\ Distinct(pendingClaims) /\ Distinct(arrived)
             /\ \A c \in Claimers : isQueued[c] <=> InSeq(c, pendingClaims)
             /\ \A c \in Claimers : isQueued[c] <=> onGranted[c] # None
             /\ \A k \in Claims : InSeq(k, arrived) <=> \E c \in Claimers : isQueued[c] /\ onGranted[c] = k
             /\ \A c, d \in Claimers : Precedes(c, d, pendingClaims)
                    => Before(onGranted[c], onGranted[d], urgent, arrived)
             /\ \A c, d \in Claimers : onGranted[c] = onGranted[d] /\ onGranted[c] # None => c = d
             /\ \A k \in urgent : InSeq(k, arrived)
  BY DEF IInv, ClaimsInv, QueuedInv, OrderInv, CallbackInv, Distinct, Before, GrantedBefore

\* What is left to show of a step, part by part.
LEMMA InvNext ==
    ASSUME TypeOK', GrantInv', HandOverInv', Distinct(pendingClaims'), Distinct(arrived'),
           \A c \in Claimers : isQueued'[c] <=> InSeq(c, pendingClaims'),
           \A c \in Claimers : isQueued'[c] <=> onGranted'[c] # None,
           \A k \in Claims : InSeq(k, arrived') <=> \E c \in Claimers : isQueued'[c] /\ onGranted'[c] = k,
           \A c, d \in Claimers : Precedes(c, d, pendingClaims')
               => Before(onGranted'[c], onGranted'[d], urgent', arrived'),
           \A c, d \in Claimers : onGranted'[c] = onGranted'[d] /\ onGranted'[c] # None => c = d,
           \A k \in urgent' : InSeq(k, arrived')
    PROVE  IInv'
  BY DEF IInv, ClaimsInv, QueuedInv, OrderInv, CallbackInv, Distinct, InSeq, Before, GrantedBefore, Precedes

\* Whoever precedes and whoever is preceded is in the list.
LEMMA PrecedesInSeq ==
    ASSUME NEW y, NEW z, NEW s, Precedes(y, z, s)
    PROVE  InSeq(y, s) /\ InSeq(z, s)
  BY DEF Precedes, InSeq

\* Forgetting the claim of c leaves the other claims outstanding, in their order.
LEMMA ForgetStep ==
    ASSUME IInv, NEW c \in Claimers, Forget(onGranted[c])
    PROVE  /\ arrived' \in Seq(Claims) /\ urgent' \subseteq Claims /\ Distinct(arrived')
           /\ \A k : InSeq(k, arrived') <=> InSeq(k, arrived) /\ k # onGranted[c]
           /\ \A k \in urgent' : InSeq(k, arrived')
           /\ \A k, l : /\ Before(k, l, urgent, arrived)
                        /\ k # onGranted[c] /\ l # onGranted[c]
                        => Before(k, l, urgent', arrived')
<1>1. arrived \in Seq(Claims) /\ Distinct(arrived) /\ urgent \subseteq Claims
  BY InvFacts DEF TypeOK
<1>2. \A k \in urgent : InSeq(k, arrived)
  BY InvFacts
<1>3. arrived' = Erase(arrived, onGranted[c]) /\ urgent' = urgent \ {onGranted[c]}
  BY DEF Forget
<1>4. /\ arrived' \in Seq(Claims) /\ Distinct(arrived')
      /\ \A y : InSeq(y, arrived') <=> InSeq(y, arrived) /\ y # onGranted[c]
      /\ \A y, z : Precedes(y, z, arrived')
                     <=> Precedes(y, z, arrived) /\ y # onGranted[c] /\ z # onGranted[c]
  BY <1>1, <1>3, EraseProperties
<1> QED
  BY <1>1, <1>2, <1>3, <1>4 DEF Before

\* ReleaseAllClaims takes c from the queue and the resource from c.
LEMMA AllReleasedFacts ==
    ASSUME IInv, NEW c \in Claimers
    PROVE  AllReleased(c, Resource)
             = [pending |-> Erase(pendingClaims, c),
                current |-> IF isGranted[c] THEN None ELSE currentClaim,
                scheduled |-> reEvaluateClaimScheduled \/ isGranted[c]]
<1>1. isGranted[c] <=> currentClaim = c
  BY InvFacts DEF GrantInv
<1>2. isQueued[c] <=> InSeq(c, pendingClaims)
  BY InvFacts
<1>3. ~isQueued[c] => Erase(pendingClaims, c) = pendingClaims
  BY <1>2 DEF Erase
<1>4. reEvaluateClaimScheduled \in BOOLEAN /\ c # None
  BY InvFacts, NoneAssumption DEF TypeOK
<1>5. CASE isGranted[c]
  BY <1>1, <1>3, <1>4, <1>5 DEF AllReleased, RemoveClaim, Resource
<1>6. CASE ~isGranted[c]
  BY <1>1, <1>3, <1>4, <1>6 DEF AllReleased, RemoveClaim, Resource
<1> QED
  BY <1>5, <1>6

\* Erasing c from the queue leaves the other claimers, in their order.
LEMMA PendingErase ==
    ASSUME IInv, NEW c \in Claimers
    PROVE  /\ Erase(pendingClaims, c) \in Seq(Claimers)
           /\ Distinct(Erase(pendingClaims, c))
           /\ \A d : InSeq(d, Erase(pendingClaims, c)) <=> InSeq(d, pendingClaims) /\ d # c
           /\ \A d, e : Precedes(d, e, Erase(pendingClaims, c))
                          <=> Precedes(d, e, pendingClaims) /\ d # c /\ e # c
           /\ Erase(pendingClaims, c) # <<>> => pendingClaims # <<>>
<1>1. pendingClaims \in Seq(Claimers) /\ Distinct(pendingClaims)
  BY InvFacts DEF TypeOK
<1>2. pendingClaims = <<>> => Erase(pendingClaims, c) = pendingClaims
  BY DEF Erase, InSeq
<1> QED
  BY <1>1, <1>2, EraseProperties

----------------------------------------------------------------------------
(* The steps *)

\* A claim or an urgent claim joins the queue, behind or in front of everyone.
LEMMA ClaimStep ==
    ASSUME IInv, NEW c \in Claimers, NEW k \in Claims, NEW isUrgent \in BOOLEAN,
           ClaimWith(c, k, isUrgent)
    PROVE  IInv'
<1> USE DEF ClaimWith, AddClaim
<1>1. /\ TypeOK /\ GrantInv /\ HandOverInv
      /\ pendingClaims \in Seq(Claimers) /\ Distinct(pendingClaims)
      /\ arrived \in Seq(Claims) /\ Distinct(arrived)
  BY InvFacts DEF TypeOK
<1>2. ~InSeq(c, pendingClaims) /\ ~isQueued[c] /\ k # None
  BY InvFacts, NoneAssumption
<1>3. ~InSeq(k, arrived) /\ k \notin urgent /\ \A d \in Claimers : onGranted[d] # k
  <2>1. \A d \in Claimers : onGranted[d] # k
    OBVIOUS
  <2>2. ~InSeq(k, arrived)
    BY <2>1, InvFacts
  <2> QED
    BY <2>1, <2>2, InvFacts
<1>4. /\ pendingClaims' \in Seq(Claimers) /\ Distinct(pendingClaims')
      /\ \A d : InSeq(d, pendingClaims') <=> InSeq(d, pendingClaims) \/ d = c
      /\ \A d, e : Precedes(d, e, pendingClaims') =>
            \/ Precedes(d, e, pendingClaims)
            \/ isUrgent /\ d = c /\ InSeq(e, pendingClaims)
            \/ ~isUrgent /\ InSeq(d, pendingClaims) /\ e = c
  BY <1>1, <1>2, AppendList, PrependList
<1>5. /\ arrived' \in Seq(Claims) /\ Distinct(arrived')
      /\ \A l : InSeq(l, arrived') <=> InSeq(l, arrived) \/ l = k
      /\ \A l, m : Precedes(l, m, arrived') <=> Precedes(l, m, arrived) \/ (InSeq(l, arrived) /\ m = k)
  BY <1>1, <1>3, AppendList
<1>6. urgent' = IF isUrgent THEN urgent \cup {k} ELSE urgent
  OBVIOUS
<1>7. \A d \in Claimers : onGranted'[d] = IF d = c THEN k ELSE onGranted[d]
  BY <1>1 DEF TypeOK
<1>8. \A d \in Claimers : isQueued'[d] = IF d = c THEN TRUE ELSE isQueued[d]
  BY <1>1 DEF TypeOK
<1>9. TypeOK'
  BY <1>1, <1>4, <1>5, <1>6 DEF TypeOK
<1>10. GrantInv' /\ HandOverInv'
  BY <1>1 DEF GrantInv, HandOverInv, TypeOK
<1>11. \A d \in Claimers : isQueued'[d] <=> InSeq(d, pendingClaims')
  BY <1>4, <1>8, InvFacts
<1>12. \A d \in Claimers : isQueued'[d] <=> onGranted'[d] # None
  BY <1>2, <1>7, <1>8, InvFacts
<1>13. \A l \in Claims : InSeq(l, arrived') <=> \E d \in Claimers : isQueued'[d] /\ onGranted'[d] = l
  <2> SUFFICES ASSUME NEW l \in Claims
               PROVE  InSeq(l, arrived') <=> \E d \in Claimers : isQueued'[d] /\ onGranted'[d] = l
    OBVIOUS
  <2>1. InSeq(l, arrived) <=> \E d \in Claimers : isQueued[d] /\ onGranted[d] = l
    BY InvFacts
  <2>2. (\E d \in Claimers : isQueued'[d] /\ onGranted'[d] = l)
          <=> l = k \/ \E d \in Claimers : isQueued[d] /\ onGranted[d] = l
    BY <1>2, <1>7, <1>8
  <2> QED
    BY <2>1, <2>2, <1>5
<1>14. ASSUME NEW d \in Claimers, NEW e \in Claimers, Precedes(d, e, pendingClaims')
       PROVE  Before(onGranted'[d], onGranted'[e], urgent', arrived')
  <2>1. CASE Precedes(d, e, pendingClaims)
    <3>1. d # c /\ e # c
      BY <1>2, <2>1, PrecedesInSeq
    <3>2. onGranted'[d] = onGranted[d] /\ onGranted'[e] = onGranted[e]
      BY <1>7, <3>1
    <3>3. onGranted[d] # k /\ onGranted[e] # k
      BY <1>3
    <3>4. Before(onGranted[d], onGranted[e], urgent, arrived)
      BY <2>1, InvFacts
    <3> QED
      BY <3>2, <3>3, <3>4, <1>5, <1>6 DEF Before
  <2>2. CASE isUrgent /\ d = c /\ InSeq(e, pendingClaims)
    <3>1. e # c /\ isQueued[e] /\ onGranted[e] # None
      BY <1>2, <2>2, InvFacts
    <3>2. onGranted[e] \in Claims /\ InSeq(onGranted[e], arrived)
      BY <1>1, <3>1, InvFacts DEF TypeOK
    <3> QED
      BY <2>2, <3>1, <3>2, <1>5, <1>6, <1>7 DEF Before
  <2>3. CASE ~isUrgent /\ InSeq(d, pendingClaims) /\ e = c
    <3>1. d # c /\ isQueued[d] /\ onGranted[d] # None
      BY <1>2, <2>3, InvFacts
    <3>2. onGranted[d] \in Claims /\ InSeq(onGranted[d], arrived)
      BY <1>1, <3>1, InvFacts DEF TypeOK
    <3> QED
      BY <2>3, <3>1, <3>2, <1>3, <1>5, <1>6, <1>7 DEF Before
  <2> QED
    BY <1>4, <1>14, <2>1, <2>2, <2>3
<1>15. \A d, e \in Claimers : onGranted'[d] = onGranted'[e] /\ onGranted'[d] # None => d = e
  BY <1>3, <1>7, InvFacts
<1>16. \A l \in urgent' : InSeq(l, arrived')
  BY <1>5, <1>6, InvFacts
<1> QED
  BY <1>4, <1>5, <1>9, <1>10, <1>11, <1>12, <1>13, <1>14, <1>15, <1>16, InvNext

\* A step that takes the claim of c from the queue. Whoever is queued after the step, d,
\* holds the place and the callback that was[d] held before it.
LEMMA WithdrawStep ==
    ASSUME IInv, TypeOK', GrantInv', HandOverInv', Distinct(pendingClaims'),
           NEW c \in Claimers, Forget(onGranted[c]),
           \A d \in Claimers : isQueued'[d] <=> InSeq(d, pendingClaims'),
           NEW was \in [Claimers -> Claimers],
           \A d \in Claimers : isQueued'[d] =>
              isQueued[was[d]] /\ was[d] # c /\ onGranted'[d] = onGranted[was[d]],
           \A d \in Claimers : ~isQueued'[d] => onGranted'[d] = None,
           \A d, e \in Claimers : isQueued'[d] /\ isQueued'[e] /\ was[d] = was[e] => d = e,
           \A d \in Claimers : isQueued[d] /\ d # c => \E e \in Claimers : isQueued'[e] /\ was[e] = d,
           \A d, e \in Claimers : Precedes(d, e, pendingClaims')
              => Precedes(was[d], was[e], pendingClaims)
    PROVE  IInv'
<1>1. /\ arrived' \in Seq(Claims) /\ urgent' \subseteq Claims /\ Distinct(arrived')
      /\ \A k : InSeq(k, arrived') <=> InSeq(k, arrived) /\ k # onGranted[c]
      /\ \A k \in urgent' : InSeq(k, arrived')
      /\ \A k, l : /\ Before(k, l, urgent, arrived)
                   /\ k # onGranted[c] /\ l # onGranted[c]
                   => Before(k, l, urgent', arrived')
  BY ForgetStep
<1>2. \A d \in Claimers : isQueued[d] <=> onGranted[d] # None
  BY InvFacts
<1>3. \A d, e \in Claimers : onGranted[d] = onGranted[e] /\ onGranted[d] # None => d = e
  BY InvFacts
<1>4. ASSUME NEW d \in Claimers, isQueued'[d]
      PROVE  onGranted'[d] # onGranted[c] /\ onGranted'[d] # None
  <2>1. was[d] \in Claimers /\ was[d] # c /\ isQueued[was[d]] /\ onGranted'[d] = onGranted[was[d]]
    BY <1>4
  <2> QED
    BY <1>2, <1>3, <2>1
<1>5. \A d \in Claimers : isQueued'[d] <=> onGranted'[d] # None
  BY <1>4
<1>6. ASSUME NEW k \in Claims
      PROVE  InSeq(k, arrived') <=> \E d \in Claimers : isQueued'[d] /\ onGranted'[d] = k
  <2>0. InSeq(k, arrived) <=> \E d \in Claimers : isQueued[d] /\ onGranted[d] = k
    BY InvFacts
  <2>1. ASSUME InSeq(k, arrived') PROVE \E d \in Claimers : isQueued'[d] /\ onGranted'[d] = k
    <3>1. PICK d \in Claimers : isQueued[d] /\ onGranted[d] = k /\ d # c
      BY <1>1, <2>0, <2>1
    <3> QED
      BY <3>1
  <2>2. ASSUME NEW d \in Claimers, isQueued'[d], onGranted'[d] = k PROVE InSeq(k, arrived')
    <3>1. was[d] \in Claimers /\ isQueued[was[d]] /\ onGranted[was[d]] = k
      BY <2>2
    <3> QED
      BY <1>1, <1>4, <2>0, <2>2, <3>1
  <2> QED
    BY <2>1, <2>2
<1>7. ASSUME NEW d \in Claimers, NEW e \in Claimers, Precedes(d, e, pendingClaims')
      PROVE  Before(onGranted'[d], onGranted'[e], urgent', arrived')
  <2>1. isQueued'[d] /\ isQueued'[e]
    BY <1>7, PrecedesInSeq
  <2>2. was[d] \in Claimers /\ was[e] \in Claimers /\ Precedes(was[d], was[e], pendingClaims)
    BY <1>7
  <2>3. Before(onGranted[was[d]], onGranted[was[e]], urgent, arrived)
    BY <2>2, InvFacts
  <2> QED
    BY <2>1, <2>3, <1>1, <1>4
<1>8. ASSUME NEW d \in Claimers, NEW e \in Claimers,
             onGranted'[d] = onGranted'[e], onGranted'[d] # None
      PROVE  d = e
  <2>1. isQueued'[d] /\ isQueued'[e]
    BY <1>5, <1>8
  <2>2. was[d] \in Claimers /\ was[e] \in Claimers /\ onGranted[was[d]] = onGranted[was[e]]
    BY <1>8, <2>1
  <2>3. was[d] = was[e]
    BY <1>2, <1>3, <2>1, <2>2
  <2> QED
    BY <2>1, <2>3
<1> QED
  BY <1>1, <1>5, <1>6, <1>7, <1>8, InvNext

\* The identity on claimers: for the steps that move nobody.
Itself == [d \in Claimers |-> d]

\* The hand-over takes the first from the queue and makes it the holder.
LEMMA ReEvaluateStep ==
    ASSUME IInv, ReEvaluateClaim
    PROVE  IInv'
<1>1. /\ TypeOK /\ GrantInv /\ HandOverInv
      /\ pendingClaims \in Seq(Claimers) /\ Distinct(pendingClaims)
  BY InvFacts DEF TypeOK
<1>2. CASE currentClaim = None /\ pendingClaims # <<>>
  <2> DEFINE c == Head(pendingClaims)
  <2>1. /\ c \in Claimers /\ InSeq(c, pendingClaims)
        /\ pendingClaims' \in Seq(Claimers) /\ Distinct(pendingClaims')
        /\ \A d : InSeq(d, pendingClaims') <=> InSeq(d, pendingClaims) /\ d # c
        /\ \A d, e : Precedes(d, e, pendingClaims') => Precedes(d, e, pendingClaims)
    <3>1. pendingClaims' = Tail(pendingClaims)
      BY <1>2 DEF ReEvaluateClaim
    <3> QED
      BY <1>1, <1>2, <3>1, TailList
  <2>2. /\ currentClaim' = c /\ reEvaluateClaimScheduled' = FALSE /\ Forget(onGranted[c])
        /\ isQueued' = [isQueued EXCEPT ![c] = FALSE]
        /\ isGranted' = [isGranted EXCEPT ![c] = TRUE]
        /\ onGranted' = [onGranted EXCEPT ![c] = None]
    BY <1>2 DEF ReEvaluateClaim
  <2> HIDE DEF c
  <2>3. TypeOK'
    <3>1. arrived' \in Seq(Claims) /\ urgent' \subseteq Claims
      BY <2>1, <2>2, ForgetStep
    <3> QED
      BY <1>1, <2>1, <2>2, <3>1 DEF TypeOK
  <2>4. GrantInv' /\ HandOverInv'
    BY <1>1, <1>2, <2>1, <2>2, NoneAssumption DEF TypeOK, GrantInv, HandOverInv
  <2>5. \A d \in Claimers : /\ isQueued'[d] = (isQueued[d] /\ d # c)
                            /\ onGranted'[d] = IF d = c THEN None ELSE onGranted[d]
    BY <1>1, <2>1, <2>2 DEF TypeOK
  <2>6. \A d \in Claimers : isQueued'[d] <=> InSeq(d, pendingClaims')
    BY <2>1, <2>5, InvFacts
  <2>7. Itself \in [Claimers -> Claimers] /\ \A d \in Claimers : Itself[d] = d
    BY DEF Itself
  <2>8. \A d \in Claimers : ~isQueued'[d] => onGranted'[d] = None
    BY <2>5, InvFacts
  <2> QED
    BY <2>1, <2>2, <2>3, <2>4, <2>5, <2>6, <2>7, <2>8, WithdrawStep
<1>3. CASE ~(currentClaim = None /\ pendingClaims # <<>>)
  <2>1. /\ reEvaluateClaimScheduled' = FALSE
        /\ UNCHANGED <<currentClaim, pendingClaims, isQueued, isGranted, onGranted, arrived, urgent>>
    BY <1>3 DEF ReEvaluateClaim
  <2>2. HandOverInv'
    BY <1>3, <2>1 DEF HandOverInv
  <2>3. TypeOK' /\ GrantInv'
    BY <1>1, <2>1 DEF TypeOK, GrantInv
  <2> QED
    BY <2>1, <2>2, <2>3, InvFacts, InvNext
<1> QED
  BY <1>2, <1>3

\* Release gives up the resource, or else withdraws the claim.
LEMMA ReleaseStep ==
    ASSUME IInv, NEW c \in Claimers, Release(c)
    PROVE  IInv'
<1> USE DEF Release
<1>1. TypeOK /\ GrantInv /\ HandOverInv /\ Distinct(pendingClaims) /\ c # None
  BY InvFacts, NoneAssumption DEF TypeOK
<1>2. isGranted[c] <=> currentClaim = c
  BY <1>1 DEF GrantInv
<1>3. CASE isGranted[c]
  <2>1. /\ pendingClaims' = pendingClaims /\ currentClaim' = None
        /\ reEvaluateClaimScheduled' = TRUE
    BY <1>2, <1>3 DEF ResourceBecomes, RemoveClaim, Resource
  <2>2. isQueued' = isQueued /\ UNCHANGED <<onGranted, arrived, urgent>>
    BY <1>1, <1>3 DEF TypeOK
  <2>3. TypeOK' /\ HandOverInv'
    BY <1>1, <2>1, <2>2 DEF TypeOK, HandOverInv
  <2>4. GrantInv'
    BY <1>1, <1>2, <1>3, <2>1, NoneAssumption DEF TypeOK, GrantInv
  <2> QED
    BY <2>1, <2>2, <2>3, <2>4, InvFacts, InvNext
<1>4. CASE ~isGranted[c]
  <2>1. /\ pendingClaims' = Erase(pendingClaims, c) /\ currentClaim' = currentClaim
        /\ reEvaluateClaimScheduled' = reEvaluateClaimScheduled
    BY <1>2, <1>4 DEF ResourceBecomes, RemoveClaim, Resource
  <2>2. /\ isQueued' = [isQueued EXCEPT ![c] = FALSE]
        /\ isGranted' = isGranted
        /\ onGranted' = [onGranted EXCEPT ![c] = None]
        /\ Forget(onGranted[c])
    BY <1>1, <1>4 DEF TypeOK
  <2>3. /\ pendingClaims' \in Seq(Claimers) /\ Distinct(pendingClaims')
        /\ \A d : InSeq(d, pendingClaims') <=> InSeq(d, pendingClaims) /\ d # c
        /\ \A d, e : Precedes(d, e, pendingClaims') => Precedes(d, e, pendingClaims)
        /\ pendingClaims' # <<>> => pendingClaims # <<>>
    BY <2>1, PendingErase
  <2>4. TypeOK'
    <3>1. arrived' \in Seq(Claims) /\ urgent' \subseteq Claims
      BY <2>2, ForgetStep
    <3> QED
      BY <1>1, <2>1, <2>2, <2>3, <3>1 DEF TypeOK
  <2>5. GrantInv' /\ HandOverInv'
    BY <1>1, <2>1, <2>2, <2>3 DEF GrantInv, HandOverInv
  <2>6. \A d \in Claimers : /\ isQueued'[d] = (isQueued[d] /\ d # c)
                            /\ onGranted'[d] = IF d = c THEN None ELSE onGranted[d]
    BY <1>1, <2>2 DEF TypeOK
  <2>7. \A d \in Claimers : isQueued'[d] <=> InSeq(d, pendingClaims')
    BY <2>3, <2>6, InvFacts
  <2>8. Itself \in [Claimers -> Claimers] /\ \A d \in Claimers : Itself[d] = d
    BY DEF Itself
  <2>9. \A d \in Claimers : ~isQueued'[d] => onGranted'[d] = None
    BY <2>6, InvFacts
  <2> QED
    BY <2>2, <2>3, <2>4, <2>5, <2>6, <2>7, <2>8, <2>9, WithdrawStep
<1> QED
  BY <1>3, <1>4

\* The destructor gives up what is granted and what is queued.
LEMMA DestroyStep ==
    ASSUME IInv, NEW c \in Claimers, Destroy(c)
    PROVE  IInv'
<1>1. TypeOK /\ GrantInv /\ HandOverInv /\ Distinct(pendingClaims) /\ c # None
  BY InvFacts, NoneAssumption DEF TypeOK
<1>2. /\ isQueued' = [isQueued EXCEPT ![c] = FALSE]
      /\ isGranted' = [isGranted EXCEPT ![c] = FALSE]
      /\ onGranted' = [onGranted EXCEPT ![c] = None]
      /\ Forget(onGranted[c])
  BY DEF Destroy
<1>3. /\ pendingClaims' = Erase(pendingClaims, c)
      /\ currentClaim' = IF isGranted[c] THEN None ELSE currentClaim
      /\ reEvaluateClaimScheduled' = (reEvaluateClaimScheduled \/ isGranted[c])
  BY AllReleasedFacts DEF Destroy, ResourceBecomes
<1>4. /\ pendingClaims' \in Seq(Claimers) /\ Distinct(pendingClaims')
      /\ \A d : InSeq(d, pendingClaims') <=> InSeq(d, pendingClaims) /\ d # c
      /\ \A d, e : Precedes(d, e, pendingClaims') => Precedes(d, e, pendingClaims)
      /\ pendingClaims' # <<>> => pendingClaims # <<>>
  BY <1>3, PendingErase
<1>5. TypeOK'
  <2>1. arrived' \in Seq(Claims) /\ urgent' \subseteq Claims
    BY <1>2, ForgetStep
  <2>2. isGranted[c] \in BOOLEAN
    BY <1>1 DEF TypeOK
  <2> QED
    BY <1>1, <1>2, <1>3, <1>4, <2>1, <2>2 DEF TypeOK
<1>6. GrantInv'
  BY <1>1, <1>2, <1>3, NoneAssumption DEF TypeOK, GrantInv
<1>7. HandOverInv'
  BY <1>1, <1>3, <1>4 DEF HandOverInv
<1>8. \A d \in Claimers : /\ isQueued'[d] = (isQueued[d] /\ d # c)
                          /\ onGranted'[d] = IF d = c THEN None ELSE onGranted[d]
  BY <1>1, <1>2 DEF TypeOK
<1>9. \A d \in Claimers : isQueued'[d] <=> InSeq(d, pendingClaims')
  BY <1>4, <1>8, InvFacts
<1>10. Itself \in [Claimers -> Claimers] /\ \A d \in Claimers : Itself[d] = d
  BY DEF Itself
<1>11. \A d \in Claimers : ~isQueued'[d] => onGranted'[d] = None
  BY <1>8, InvFacts
<1> QED
  BY <1>2, <1>4, <1>5, <1>6, <1>7, <1>8, <1>9, <1>10, <1>11, WithdrawStep

\* A move gives up what c has, and c takes the place of from, in the queue and as the holder.
LEMMA MoveStep ==
    ASSUME IInv, NEW c \in Claimers, NEW from \in Claimers, Move(c, from)
    PROVE  IInv'
<1> DEFINE left == Erase(pendingClaims, c)
           replaced == [i \in 1 .. Len(left) |-> IF left[i] = from THEN c ELSE left[i]]
           Was(d) == IF d = c THEN from ELSE d
<1>1. /\ TypeOK /\ GrantInv /\ HandOverInv
      /\ c # from /\ c # None /\ from # None
  BY InvFacts, NoneAssumption DEF Move
<1>2. /\ isQueued' = [isQueued EXCEPT ![c] = isQueued[from], ![from] = FALSE]
      /\ isGranted' = [isGranted EXCEPT ![c] = isGranted[from], ![from] = FALSE]
      /\ onGranted' = [onGranted EXCEPT ![c] = onGranted[from], ![from] = None]
      /\ Forget(onGranted[c])
  BY DEF Move
<1>3. /\ left \in Seq(Claimers) /\ Distinct(left)
      /\ \A d : InSeq(d, left) <=> InSeq(d, pendingClaims) /\ d # c
      /\ \A d, e : Precedes(d, e, left) => Precedes(d, e, pendingClaims)
      /\ left # <<>> => pendingClaims # <<>>
  BY PendingErase
<1>4. /\ replaced \in Seq(Claimers) /\ Distinct(replaced)
      /\ \A d : InSeq(d, replaced) <=> d # from /\ InSeq(Was(d), left)
      /\ \A d, e : Precedes(d, e, replaced) => Precedes(Was(d), Was(e), left)
      /\ left # <<>> <=> replaced # <<>>
  <2>1. ~InSeq(c, left)
    BY <1>3
  <2> HIDE DEF left
  <2> QED
    BY <1>1, <1>3, <2>1, ReplaceList
<1>5. isQueued[from] <=> InSeq(from, pendingClaims)
  BY InvFacts
<1>6. isGranted[from] <=> currentClaim = from
  BY <1>1 DEF GrantInv
<1>7. isGranted[c] <=> currentClaim = c
  BY <1>1 DEF GrantInv
<1>8. /\ pendingClaims' = IF isQueued[from] \/ isGranted[from] THEN replaced ELSE left
      /\ currentClaim' = IF isGranted[c] THEN None ELSE IF isGranted[from] THEN c ELSE currentClaim
      /\ reEvaluateClaimScheduled' = (reEvaluateClaimScheduled \/ isGranted[c])
  <2> DEFINE r == [pending |-> left,
                   current |-> IF isGranted[c] THEN None ELSE currentClaim,
                   scheduled |-> reEvaluateClaimScheduled \/ isGranted[c]]
  <2>1. AllReleased(c, Resource) = r
    BY AllReleasedFacts
  <2>2. ReplaceClaim(from, c, r) = [pending |-> replaced,
                                    current |-> IF r.current = from THEN c ELSE r.current,
                                    scheduled |-> r.scheduled]
    BY DEF ReplaceClaim
  <2>3. ResourceBecomes(IF isQueued[from] \/ isGranted[from] THEN ReplaceClaim(from, c, r) ELSE r)
    BY <2>1 DEF Move
  <2>4. CASE isQueued[from] \/ isGranted[from]
    BY <2>2, <2>3, <2>4, <1>1, <1>6, <1>7 DEF ResourceBecomes
  <2>5. CASE ~(isQueued[from] \/ isGranted[from])
    BY <2>3, <2>5, <1>1, <1>6, <1>7 DEF ResourceBecomes
  <2> QED
    BY <2>4, <2>5
<1> HIDE DEF left, replaced
<1>9. /\ pendingClaims' \in Seq(Claimers) /\ Distinct(pendingClaims')
      /\ \A d \in Claimers : InSeq(d, pendingClaims') <=> d # from /\ InSeq(Was(d), left)
      /\ \A d, e \in Claimers : Precedes(d, e, pendingClaims') => Precedes(Was(d), Was(e), pendingClaims)
      /\ pendingClaims' # <<>> => pendingClaims # <<>>
  <2>1. CASE isQueued[from] \/ isGranted[from]
    BY <1>3, <1>4, <1>8, <2>1
  <2>2. CASE ~(isQueued[from] \/ isGranted[from])
    <3>1. pendingClaims' = left /\ ~InSeq(from, left) /\ ~InSeq(c, left)
      BY <1>3, <1>5, <1>8, <2>2
    <3>2. ASSUME NEW d \in Claimers PROVE InSeq(d, left) <=> d # from /\ InSeq(Was(d), left)
      BY <3>1
    <3>3. ASSUME NEW d \in Claimers, NEW e \in Claimers, Precedes(d, e, left)
          PROVE  Precedes(Was(d), Was(e), pendingClaims)
      <4>1. d # c /\ e # c
        BY <3>1, <3>3, PrecedesInSeq
      <4> QED
        BY <3>3, <4>1, <1>3
    <3> QED
      BY <1>3, <3>1, <3>2, <3>3
  <2> QED
    BY <2>1, <2>2
<1>10. \A d \in Claimers :
          /\ isQueued'[d] = IF d = c THEN isQueued[from] ELSE IF d = from THEN FALSE ELSE isQueued[d]
          /\ isGranted'[d] = IF d = c THEN isGranted[from] ELSE IF d = from THEN FALSE ELSE isGranted[d]
          /\ onGranted'[d] = IF d = c THEN onGranted[from] ELSE IF d = from THEN None ELSE onGranted[d]
  BY <1>1, <1>2 DEF TypeOK
<1>11. TypeOK'
  <2>1. arrived' \in Seq(Claims) /\ urgent' \subseteq Claims
    BY <1>2, ForgetStep
  <2>2. isGranted[c] \in BOOLEAN
    BY <1>1 DEF TypeOK
  <2>3. currentClaim' \in Claimers \cup {None} /\ reEvaluateClaimScheduled' \in BOOLEAN
    BY <1>1, <1>8, <2>2 DEF TypeOK
  <2>4. /\ isQueued' \in [Claimers -> BOOLEAN] /\ isGranted' \in [Claimers -> BOOLEAN]
        /\ onGranted' \in [Claimers -> Claims \cup {None}]
    BY <1>1, <1>2 DEF TypeOK
  <2> QED
    BY <1>9, <2>1, <2>3, <2>4 DEF TypeOK
<1>12. GrantInv'
  <2> SUFFICES ASSUME NEW d \in Claimers PROVE isGranted'[d] <=> currentClaim' = d
    BY DEF GrantInv
  <2>1. d # None /\ (isGranted[d] <=> currentClaim = d)
    BY <1>1, NoneAssumption DEF GrantInv
  <2> QED
    BY <1>1, <1>6, <1>7, <1>8, <1>10, <2>1
<1>13. HandOverInv'
  <2> SUFFICES ASSUME currentClaim' = None, pendingClaims' # <<>> PROVE reEvaluateClaimScheduled'
    BY DEF HandOverInv
  <2>1. isGranted[c] \/ currentClaim = None
    BY <1>1, <1>8
  <2> QED
    BY <1>1, <1>8, <1>9, <2>1 DEF HandOverInv
<1>14. \A d \in Claimers : isQueued'[d] <=> InSeq(d, pendingClaims')
  <2> SUFFICES ASSUME NEW d \in Claimers PROVE isQueued'[d] <=> InSeq(d, pendingClaims')
    OBVIOUS
  <2>1. isQueued[d] <=> InSeq(d, pendingClaims)
    BY InvFacts
  <2> QED
    BY <1>1, <1>3, <1>5, <1>9, <1>10, <2>1
<1> DEFINE was == [d \in Claimers |-> Was(d)]
<1>15. was \in [Claimers -> Claimers] /\ \A d \in Claimers : was[d] = Was(d)
  OBVIOUS
<1> HIDE DEF was
<1>16. \A d \in Claimers : isQueued'[d] =>
          isQueued[was[d]] /\ was[d] # c /\ onGranted'[d] = onGranted[was[d]]
  BY <1>1, <1>10, <1>15
<1>17. \A d \in Claimers : ~isQueued'[d] => onGranted'[d] = None
  BY <1>10, InvFacts, ZenonT(60)
<1>18. \A d, e \in Claimers : isQueued'[d] /\ isQueued'[e] /\ was[d] = was[e] => d = e
  <2>1. \A d \in Claimers : isQueued'[d] => d # from
    BY <1>1, <1>10
  <2> QED
    BY <2>1, <1>15
<1>19. \A d \in Claimers : isQueued[d] /\ d # c => \E e \in Claimers : isQueued'[e] /\ was[e] = d
  BY <1>1, <1>10, <1>15
<1>20. \A d, e \in Claimers : Precedes(d, e, pendingClaims')
          => Precedes(was[d], was[e], pendingClaims)
  BY <1>9, <1>15
<1> HIDE DEF Was
<1> QED
  BY <1>2, <1>9, <1>11, <1>12, <1>13, <1>14, <1>15, <1>16, <1>17, <1>18, <1>19, <1>20, WithdrawStep, ZenonT(60)

----------------------------------------------------------------------------
(* The theorems *)

\* Nobody has claimed anything yet.
LEMMA InvInit == Init => IInv
<1> SUFFICES ASSUME Init PROVE IInv
  OBVIOUS
<1> USE DEF Init
<1>1. TypeOK
  <2>1. /\ pendingClaims \in Seq(Claimers) /\ arrived \in Seq(Claims)
        /\ currentClaim \in Claimers \cup {None} /\ urgent \subseteq Claims
    OBVIOUS
  <2>2. /\ isGranted \in [Claimers -> BOOLEAN] /\ isQueued \in [Claimers -> BOOLEAN]
        /\ onGranted \in [Claimers -> Claims \cup {None}] /\ reEvaluateClaimScheduled \in BOOLEAN
    OBVIOUS
  <2> QED
    BY <2>1, <2>2 DEF TypeOK
<1>2. \A x : ~InSeq(x, <<>>) /\ \A y : ~Precedes(x, y, <<>>)
  BY DEF InSeq, Precedes
<1>3. Distinct(<<>>)
  BY DEF Distinct
<1>4. GrantInv /\ HandOverInv
  BY NoneAssumption DEF GrantInv, HandOverInv
<1> QED
  BY <1>1, <1>2, <1>3, <1>4, InvFacts

\* Every step keeps the invariant.
LEMMA InvStep == IInv /\ [Next]_vars => IInv'
<1> SUFFICES ASSUME IInv, [Next]_vars PROVE IInv'
  OBVIOUS
<1>1. CASE ReEvaluateClaim
  BY <1>1, ReEvaluateStep
<1>2. ASSUME NEW c \in Claimers, Claim(c) \/ ClaimUrgent(c)
      PROVE  IInv'
  BY <1>2, ClaimStep DEF Claim, ClaimUrgent
<1>3. ASSUME NEW c \in Claimers, Release(c)
      PROVE  IInv'
  BY <1>3, ReleaseStep
<1>4. ASSUME NEW c \in Claimers, Destroy(c)
      PROVE  IInv'
  BY <1>4, DestroyStep
<1>5. ASSUME NEW c \in Claimers, NEW from \in Claimers, Move(c, from)
      PROVE  IInv'
  BY <1>5, MoveStep
<1>6. CASE UNCHANGED vars
  <2>1. (TypeOK /\ GrantInv /\ HandOverInv)'
    BY <1>6, InvFacts DEF vars, TypeOK, GrantInv, HandOverInv
  <2> QED
    BY <1>6, <2>1, InvFacts, InvNext DEF vars
<1> QED
  BY <1>1, <1>2, <1>3, <1>4, <1>5, <1>6 DEF Next

\* Claimer, queue and resource agree: at most one claimer holds the resource and knows it,
\* a claimer is queued once and exactly when its callback is pending, and a free resource
\* that somebody waits for is about to be handed over.
THEOREM ClaimsAgree == Spec => []ClaimsInv
<1>1. IInv => ClaimsInv
  BY DEF IInv
<1> QED
  BY <1>1, InvInit, InvStep, PTL DEF Spec

\* Claims are granted in the order in which they were made, urgent ones first and the last
\* of these first of all, through withdrawals, destructions and moves.
THEOREM GrantedInOrder == Spec => []OrderInv
<1>1. IInv => OrderInv
  BY DEF IInv
<1> QED
  BY <1>1, InvInit, InvStep, PTL DEF Spec

====
