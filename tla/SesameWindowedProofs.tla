------------------------ MODULE SesameWindowedProofs ------------------------
(***************************************************************************)
(* Proofs about SesameWindowed, for any sizes, when one of the peers       *)
(* initializes the other, which may take its time to do so, and neither    *)
(* restarts.                                                               *)
(***************************************************************************)
EXTENDS SesameWindowed, FunctionTheorems, FiniteSetTheorems, SequenceTheorems, TLAPS

-----------------------------------------------------------------------------
(* The inductive invariant *)

\* The peer that starts; the other one was up before.
Starter == CHOOSE p \in Peers : Initiators = {p}
OneStarts == (\E p \in Peers : Initiators = {p}) /\ Restarters = {}

\* Numbers of bytes that fit in the buffer
Capacity == 0 .. BufferSize
Record ==
    [initialized : BOOLEAN, sentInitResponse : BOOLEAN, requestingInitialization : BOOLEAN,
     sendInitResponse : BOOLEAN, sending : BOOLEAN,
     otherAvailableWindow : Uint16, releasedWindow : Uint16,
     maxUsableBufferSize : Capacity,
     requestedSendMessageSize : MessageSizes \cup {NoSize}, requestedSize : MessageSizes \cup {NoSize},
     state : States, encodedSize : Capacity,
     received : Seq(MessageSizes), reading : BOOLEAN, granting : Capacity]

\* A peer that is not initialized has done nothing but send its init message.
Fresh(r) ==
    /\ r.state = "sendingInit"
    /\ r.sending <=> r.encodedSize # NoSize
    /\ r.received = <<>> /\ r.releasedWindow = 0

\* What a peer is sending has been written, unless it is a message, for which there is room.
Writing(r) ==
    /\ r.sending <=> r.state # "operational"
    /\ ~r.sending => r.encodedSize = NoSize
    /\ r.sending /\ r.encodedSize = NoSize =>
         r.state = "sendingMessage" /\ r.requestedSize # NoSize /\ r.requestedSize <= r.otherAvailableWindow

LocalInv(r) ==
    /\ ~r.sendInitResponse
    /\ r.reading <=> r.received # <<>>
    /\ IF r.initialized THEN Writing(r) ELSE Fresh(r)

\* What a peer may send; all of the other one's buffer, until it is initialized
Free(r) == IF r.initialized THEN Minus(r.otherAvailableWindow, Counted(r)) ELSE BufferSize

\* Of r's view on the buffer of s, with what is on its way to r, and from r to s
Conserved(r, s, toR, toS) ==
    Free(r) + Total(Sizes(toS)) + Total(s.received) + s.releasedWindow + Total(Windows(toR)) = BufferSize

Usual(packet) == \/ packet.operation = "releaseWindow"
                 \/ packet.operation = "message" /\ packet.size \in MessageSizes
Ordinary(packets) == \A i \in 1 .. Len(packets) : Usual(packets[i])

Response == Packet("initResponse", BufferSize, ReleaseSize)

\* The init packet is on its way, or is to be granted; it has been answered; the answer has arrived.
InitSent(r, s, toR, toS) ==
    /\ ~r.initialized /\ ~s.initialized /\ ~s.sending
    /\ toR = <<>>
    /\ \/ toS = <<InitPacket>> /\ s.granting = NoSize
       \/ toS = <<>> /\ s.granting = BufferSize
Answered(r, s, toR, toS) ==
    /\ ~r.initialized /\ s.initialized /\ s.granting = NoSize
    /\ toS = <<>>
    /\ toR # <<>> /\ Head(toR) = Response /\ Ordinary(Tail(toR))
Done(r, s, toR, toS) ==
    /\ r.initialized /\ s.initialized /\ s.granting = NoSize
    /\ Ordinary(toR) /\ Ordinary(toS)

HandshakeInv(r, s, toR, toS) ==
    /\ ~r.sentInitResponse /\ ~r.requestingInitialization /\ r.granting = NoSize
    /\ InitSent(r, s, toR, toS) \/ Answered(r, s, toR, toS) \/ Done(r, s, toR, toS)

\* What p, with members r, and the other peer, with members s, agree on
SharedInv(p, r, s, toR, toS) ==
    /\ Conserved(r, s, toR, toS) /\ Conserved(s, r, toS, toR)
    /\ IF p = Starter THEN HandshakeInv(r, s, toR, toS) ELSE HandshakeInv(s, r, toS, toR)

IInv ==
    /\ TypeOK
    /\ \A p \in Peers : LocalInv(peer[p]) /\ SharedInv(p, peer[p], peer[Other(p)], line[p], line[Other(p)])

-----------------------------------------------------------------------------
(* Sums *)

\* The bytes of finitely many packets are finitely many.
LEMMA BytesFinite ==
    ASSUME NEW s \in Seq(Nat)
    PROVE  IsFiniteSet(Bytes(s)) /\ Total(s) \in Nat
<1> DEFINE f == [i \in DOMAIN s |-> {i} \X (1 .. s[i])]
           T == {{i} \X (1 .. s[i]) : i \in DOMAIN s}
<1>1. IsFiniteSet(DOMAIN s)
  BY FS_Interval
<1>2. f \in Surjection(DOMAIN s, T)
  BY Fun_IsSurj
<1>3. IsFiniteSet(T)
  BY <1>1, <1>2, FS_Surjection
<1>4. \A U \in T : IsFiniteSet(U)
  <2>1. ASSUME NEW i \in DOMAIN s PROVE IsFiniteSet({i} \X (1 .. s[i]))
    <3>1. PICK n \in Int : n = s[i]
      OBVIOUS
    <3>2. IsFiniteSet({i})
      BY FS_Singleton
    <3>3. IsFiniteSet(1 .. n)
      BY FS_Interval
    <3>4. IsFiniteSet({i} \X (1 .. n))
      BY <3>2, <3>3, FS_Product
    <3> QED
      BY <3>1, <3>4
  <2> QED
    BY <2>1
<1>5. IsFiniteSet(UNION T)
  BY <1>3, <1>4, FS_UNION
<1> QED
  BY <1>5, FS_CardinalityType DEF Bytes, Total

\* Nothing takes no bytes.
LEMMA TotalEmpty == Total(<<>>) = 0
  BY FS_EmptySet DEF Total, Bytes

\* One more takes its own bytes more.
LEMMA TotalAppend ==
    ASSUME NEW s \in Seq(Nat), NEW n \in Nat
    PROVE  Total(Append(s, n)) = Total(s) + n
<1> DEFINE k == Len(s) + 1
           T == {k} \X (1 .. n)
<1>1. Append(s, n) \in Seq(Nat) /\ DOMAIN Append(s, n) = 1 .. k /\ DOMAIN s = 1 .. k - 1 /\ k \in Nat \ {0}
  OBVIOUS
<1>2. \A i \in 1 .. k : Append(s, n)[i] = IF i = k THEN n ELSE s[i]
  OBVIOUS
<1>3. Bytes(Append(s, n)) = Bytes(s) \cup T
  BY <1>1, <1>2 DEF Bytes
<1>4. Bytes(s) \cap T = {}
  BY <1>1 DEF Bytes
<1>5. IsFiniteSet(T) /\ Cardinality(T) = n
  <2>1. IsFiniteSet({k}) /\ Cardinality({k}) = 1
    BY FS_Singleton
  <2>2. IsFiniteSet(1 .. n) /\ Cardinality(1 .. n) = n
    BY FS_Interval
  <2> QED
    BY <2>1, <2>2, FS_Product, SMTT(30)
<1>6. IsFiniteSet(Bytes(s)) /\ Cardinality(Bytes(s)) \in Nat
  BY BytesFinite DEF Total
<1>7. Cardinality(Bytes(s) \cup T) = Cardinality(Bytes(s)) + n - Cardinality(Bytes(s) \cap T)
  BY <1>5, <1>6, FS_Union, ZenonT(60)
<1>8. Cardinality(Bytes(s) \cap T) = 0
  BY <1>4, FS_EmptySet
<1> QED
  BY <1>3, <1>6, <1>7, <1>8 DEF Total

\* The first takes its own bytes of what they all take.
LEMMA TotalTail ==
    ASSUME NEW s \in Seq(Nat), s # <<>>
    PROVE  Total(s) = Head(s) + Total(Tail(s))
<1> DEFINE t == Tail(s)
           T == {1} \X (1 .. s[1])
           U == Bytes(s) \ T
           f == [b \in Bytes(t) |-> <<b[1] + 1, b[2]>>]
<1>1. /\ t \in Seq(Nat) /\ Head(s) = s[1] /\ s[1] \in Nat
      /\ Len(s) \in Nat \ {0} /\ DOMAIN s = 1 .. Len(s) /\ DOMAIN t = 1 .. Len(s) - 1
  OBVIOUS
<1>2. \A i \in 1 .. Len(s) - 1 : t[i] = s[i + 1]
  OBVIOUS
<1> HIDE DEF t
<1>3. \A i, j : <<i, j>> \in Bytes(t) <=> i \in 1 .. Len(s) - 1 /\ j \in 1 .. t[i]
  BY <1>1 DEF Bytes
<1>4. \A i, j : <<i, j>> \in Bytes(s) <=> i \in 1 .. Len(s) /\ j \in 1 .. s[i]
  BY <1>1 DEF Bytes
<1>5. \A b \in Bytes(t) : b = <<b[1], b[2]>>
  BY DEF Bytes
<1>6. \A b \in Bytes(s) : b = <<b[1], b[2]>>
  BY DEF Bytes
<1>7. ASSUME NEW b \in Bytes(t) PROVE f[b] \in U /\ b[1] \in Int
  <2>1. b[1] \in 1 .. Len(s) - 1 /\ b[2] \in 1 .. s[b[1] + 1]
    BY <1>2, <1>3, <1>5, ZenonT(60)
  <2>2. <<b[1] + 1, b[2]>> \in Bytes(s)
    <3>1. PICK i \in 1 .. Len(s) - 1 : i = b[1]
      BY <2>1
    <3>2. i + 1 \in 1 .. Len(s)
      BY <1>1
    <3>3. b[1] + 1 \in 1 .. Len(s)
      BY <3>1, <3>2
    <3> QED
      BY <1>4, <2>1, <3>3
  <2>3. <<b[1] + 1, b[2]>> \notin T
    BY <2>1
  <2> QED
    BY <2>1, <2>2, <2>3
<1>8. ASSUME NEW b \in Bytes(t), NEW c \in Bytes(t), f[b] = f[c] PROVE b = c
  <2>1. b[1] \in Int /\ c[1] \in Int
    BY <1>7
  <2>2. b[1] + 1 = c[1] + 1 /\ b[2] = c[2]
    BY <1>8
  <2> QED
    BY <2>1, <2>2, <1>5
<1>9. ASSUME NEW u \in U PROVE \E b \in Bytes(t) : f[b] = u
  <2>1. u = <<u[1], u[2]>> /\ u[1] \in 1 .. Len(s) /\ u[2] \in 1 .. s[u[1]] /\ u \notin T
    BY <1>4, <1>6
  <2>2. u[1] # 1
    BY <2>1
  <2>3. u[1] - 1 \in 1 .. Len(s) - 1 /\ (u[1] - 1) + 1 = u[1]
    <3>1. PICK i \in 1 .. Len(s) : i = u[1]
      BY <2>1
    <3>2. i # 1
      BY <2>2, <3>1
    <3>3. i - 1 \in 1 .. Len(s) - 1 /\ (i - 1) + 1 = i
      BY <1>1, <3>2
    <3> QED
      BY <3>1, <3>3
  <2>4. <<u[1] - 1, u[2]>> \in Bytes(t)
    BY <1>2, <1>3, <2>1, <2>3
  <2>5. f[<<u[1] - 1, u[2]>>] = u
    BY <2>1, <2>3, <2>4
  <2> QED
    BY <2>4, <2>5
<1>10. IsFiniteSet(Bytes(t)) /\ Cardinality(Bytes(t)) \in Nat /\ IsFiniteSet(Bytes(s)) /\ Cardinality(Bytes(s)) \in Nat
  BY <1>1, BytesFinite DEF Total
<1>11. Cardinality(U) = Cardinality(Bytes(t))
  <2>1. f \in Bijection(Bytes(t), U)
    BY <1>7, <1>8, <1>9, Fun_IsBij
  <2>2. ExistsBijection(Bytes(t), U)
    BY <2>1 DEF ExistsBijection
  <2> QED
    BY <1>10, <2>2, FS_Bijection
<1>12. Cardinality(T) = s[1]
  <2>1. IsFiniteSet({1}) /\ Cardinality({1}) = 1
    BY FS_Singleton
  <2>2. PICK n \in Nat : n = s[1]
    BY <1>1
  <2>3. IsFiniteSet(1 .. n) /\ Cardinality(1 .. n) = n
    BY FS_Interval
  <2>4. Cardinality({1} \X (1 .. n)) = Cardinality({1}) * Cardinality(1 .. n)
    BY <2>1, <2>3, FS_Product
  <2>5. Cardinality({1} \X (1 .. n)) = n
    BY <2>1, <2>3, <2>4
  <2> QED
    BY <2>2, <2>5
<1>13. Bytes(s) \cap T = T
  <2>1. ASSUME NEW b \in T PROVE b \in Bytes(s)
    <3>1. PICK j \in 1 .. s[1] : b = <<1, j>>
      OBVIOUS
    <3>2. <<1, j>> \in Bytes(s)
      <4>1. 1 \in 1 .. Len(s)
        BY <1>1
      <4> QED
        BY <1>4, <4>1
    <3> QED
      BY <3>1, <3>2
  <2> QED
    BY <2>1
<1>14. Cardinality(U) = Cardinality(Bytes(s)) - Cardinality(Bytes(s) \cap T)
  BY <1>10, FS_Difference
<1>15. Cardinality(Bytes(t)) = Cardinality(Bytes(s)) - s[1]
  BY <1>11, <1>12, <1>13, <1>14
<1> QED
  BY <1>1, <1>10, <1>15 DEF Total, t

\* A term of a sum moves to another place in it, or leaves it for another sum.
LEMMA GivenMoves ==
    ASSUME NEW f \in Nat, NEW a \in Nat, NEW b \in Nat, NEW c \in Nat, NEW g \in Nat, NEW w \in Nat, NEW n,
           f + a + b + c + (g + w) = n
    PROVE  (f + g) + a + b + c + w = n
  OBVIOUS

\* The same, of a term that is taken from one place and splits up.
LEMMA TakenMoves ==
    ASSUME NEW f \in Nat, NEW x \in Nat, NEW a \in Nat, NEW b \in Nat, NEW c \in Nat, NEW w \in Nat,
           NEW d \in Nat, NEW e \in Nat, NEW n,
           f + (x + a) + b + c + w = n, d + e = b + c + x
    PROVE  f + a + d + e + w = n
  OBVIOUS

\* What is taken from the first term is added to the second one.
LEMMA TakenLeaves ==
    ASSUME NEW f \in Nat, NEW g \in Nat, NEW x \in Nat, NEW a \in Nat, NEW b \in Nat, NEW c \in Nat, NEW w \in Nat, NEW n,
           f + a + b + c + w = n, g + x = f
    PROVE  g + (a + x) + b + c + w = n
  OBVIOUS

\* What is taken from the fourth term is added to the last one.
LEMMA GivenLeaves ==
    ASSUME NEW f \in Nat, NEW a \in Nat, NEW b \in Nat, NEW c \in Nat, NEW d \in Nat, NEW g \in Nat, NEW w \in Nat, NEW n,
           f + a + b + c + w = n, d + g = c
    PROVE  f + a + b + d + (w + g) = n
  OBVIOUS

\* The first of received messages, once read, is released.
LEMMA HeadMoves ==
    ASSUME NEW h \in Nat, NEW b \in Nat, NEW c \in Nat
    PROVE  b + (c + h) = (h + b) + c
  OBVIOUS

\* Nothing adds nothing.
LEMMA NothingAdded ==
    ASSUME NEW n \in Nat, NEW a \in Nat, NEW b \in Nat, NEW c \in Nat, NEW w \in Nat, n + a + b + c + w = n
    PROVE  b = 0 /\ c = 0
  OBVIOUS

\* Terms of a sum are no more than the sum.
LEMMA TermsFit ==
    ASSUME NEW f \in Nat, NEW a \in Nat, NEW b \in Nat, NEW c \in Nat, NEW g \in Nat, NEW w \in Nat, NEW n,
           f + a + b + c + (g + w) = n
    PROVE  f + g <= n
  OBVIOUS

\* The same, of other terms.
LEMMA TermsFitToo ==
    ASSUME NEW f \in Nat, NEW x \in Nat, NEW a \in Nat, NEW b \in Nat, NEW c \in Nat, NEW w \in Nat, NEW n,
           f + (x + a) + b + c + w = n
    PROVE  c + x <= n
  OBVIOUS

\* The same, of the first of received messages and what is released.
LEMMA HeadFits ==
    ASSUME NEW f \in Nat, NEW a \in Nat, NEW h \in Nat, NEW b \in Nat, NEW c \in Nat, NEW w \in Nat, NEW n,
           f + a + (h + b) + c + w = n
    PROVE  c + h <= n
  OBVIOUS

-----------------------------------------------------------------------------
(* uint16_t *)

\* The remainder is the only one in its range that differs by a multiple.
LEMMA Modulo ==
    ASSUME NEW m \in Nat \ {0}, NEW a \in Int, NEW k \in Int, NEW r \in 0 .. m - 1, a = m * k + r
    PROVE  a % m = r
<1> DEFINE q == a \div m
           s == a % m
<1>1. q \in Int /\ s \in 0 .. m - 1 /\ a = m * q + s
  OBVIOUS
<1> HIDE DEF q, s
<1>2. s - r = m * (k - q)
  BY <1>1
<1>3. PICK d \in Int : d = k - q
  BY <1>1
<1>4. CASE d >= 1
  <2>1. m * d >= m
    BY <1>4
  <2> QED
    BY <1>1, <1>2, <1>3, <2>1
<1>5. CASE d <= 0 - 1
  <2>1. m * d <= 0 - m
    BY <1>5
  <2> QED
    BY <1>1, <1>2, <1>3, <2>1
<1>6. CASE d = 0
  BY <1>1, <1>2, <1>3, <1>6 DEF s
<1> QED
  BY <1>3, <1>4, <1>5, <1>6

\* The modulus is a number.
LEMMA WordType == Word \in Nat \ {0}
  BY DEF Word

\* One overflow, or none.
LEMMA Wrapped ==
    ASSUME NEW m \in Nat \ {0}, NEW x \in Int, 0 - m <= x, x < m + m
    PROVE  x % m = IF x < 0 THEN x + m ELSE IF x < m THEN x ELSE x - m
<1>1. CASE x < 0
  <2>1. x = m * (0 - 1) + (x + m) /\ x + m \in 0 .. m - 1
    BY <1>1
  <2>2. x % m = x + m
    BY <2>1, Modulo
  <2> QED
    BY <1>1, <2>2
<1>2. CASE 0 <= x /\ x < m
  <2>1. x = m * 0 + x /\ x \in 0 .. m - 1
    BY <1>2
  <2>2. x % m = x
    BY <2>1, Modulo
  <2> QED
    BY <1>2, <2>2
<1>3. CASE m <= x
  <2>1. x = m * 1 + (x - m) /\ x - m \in 0 .. m - 1
    BY <1>3
  <2>2. x % m = x - m
    BY <2>1, Modulo
  <2> QED
    BY <1>3, <2>2
<1> QED
  BY <1>1, <1>2, <1>3

\* Without overflow, the operations are those of the integers.
LEMMA Uint16Facts ==
    ASSUME NEW a \in Uint16, NEW b \in Uint16
    PROVE  /\ a \in Nat /\ b \in Nat /\ a < Word
           /\ Plus(a, b) = IF a + b < Word THEN a + b ELSE a + b - Word
           /\ Minus(a, b) = IF b <= a THEN a - b ELSE a - b + Word
           /\ Plus(a, b) \in Uint16 /\ Minus(a, b) \in Uint16
<1>1. a \in Nat /\ b \in Nat /\ a < Word /\ b < Word /\ Word \in Nat \ {0}
  BY WordType DEF Uint16
<1>2. Plus(a, b) = IF a + b < Word THEN a + b ELSE a + b - Word
  <2>1. PICK x \in Int : x = a + b
    BY <1>1
  <2>2. 0 - Word <= x /\ x < Word + Word
    BY <1>1, <2>1
  <2>3. x % Word = IF x < 0 THEN x + Word ELSE IF x < Word THEN x ELSE x - Word
    BY <1>1, <2>2, Wrapped
  <2> QED
    BY <1>1, <2>1, <2>3 DEF Plus
<1>3. Minus(a, b) = IF b <= a THEN a - b ELSE a - b + Word
  <2>1. PICK x \in Int : x = a - b
    BY <1>1
  <2>2. 0 - Word <= x /\ x < Word + Word
    BY <1>1, <2>1
  <2>3. x % Word = IF x < 0 THEN x + Word ELSE IF x < Word THEN x ELSE x - Word
    BY <1>1, <2>2, Wrapped
  <2> QED
    BY <1>1, <2>1, <2>3 DEF Minus
<1> QED
  BY <1>1, <1>2, <1>3 DEF Uint16

\* Nothing is subtracted.
LEMMA MinusZero == ASSUME NEW a \in Uint16 PROVE Minus(a, 0) = a
<1>1. 0 \in Uint16 /\ a \in Nat
  BY WordType DEF Uint16
<1>2. Minus(a, 0) = IF 0 <= a THEN a - 0 ELSE a - 0 + Word
  BY <1>1, Uint16Facts
<1> QED
  BY <1>1, <1>2

\* What is added before a subtraction is added to its result, even if the sum overflows.
LEMMA PlusMinus ==
    ASSUME NEW a \in Uint16, NEW w \in Uint16, NEW c \in Uint16, Minus(a, c) + w < Word
    PROVE  Minus(Plus(a, w), c) = Minus(a, c) + w
<1>1. Word \in Nat /\ a \in Nat /\ w \in Nat /\ c \in Nat /\ a < Word /\ w < Word /\ c < Word
  BY WordType DEF Uint16
<1>2. Minus(a, c) = IF c <= a THEN a - c ELSE a - c + Word
  BY Uint16Facts
<1>3. Plus(a, w) = (IF a + w < Word THEN a + w ELSE a + w - Word) /\ Plus(a, w) \in Uint16
  BY Uint16Facts
<1>4. PICK u \in Uint16 : u = Plus(a, w)
  BY <1>3
<1>5. Minus(u, c) = IF c <= u THEN u - c ELSE u - c + Word
  BY Uint16Facts
<1>6. u \in Nat
  BY <1>4 DEF Uint16
<1> QED
  BY <1>1, <1>2, <1>3, <1>4, <1>5, <1>6

-----------------------------------------------------------------------------
(* Packets, and what they amount to *)

Taken(packet) == IF packet.operation = "init" THEN 0 ELSE packet.size
Given(packet) == IF packet.operation = "releaseWindow" THEN packet.window ELSE 0

\* The sizes, as the proofs need them.
LEMMA SizeFacts ==
    ASSUME Assumptions
    PROVE  /\ BufferSize \in Nat /\ BufferSize < Word /\ BufferSize \in Uint16 /\ 0 \in Uint16
           /\ ReleaseSize \in Nat /\ ReleaseSize > 0 /\ ReleaseSize <= BufferSize /\ ReleaseSize \in Uint16
           /\ MessageSizes \subseteq Nat /\ 0 \notin MessageSizes /\ \A n \in MessageSizes : n <= BufferSize
  BY WordType DEF Assumptions, SizesAssumption, Uint16

\* What the members' types hold.
LEMMA Fits ==
    ASSUME Assumptions
    PROVE  /\ 0 \in Capacity /\ BufferSize \in Capacity /\ ReleaseSize \in Capacity /\ MessageSizes \subseteq Capacity
           /\ 0 \in Uint16 /\ BufferSize \in Uint16 /\ ReleaseSize \in Uint16 /\ MessageSizes \subseteq Uint16
           /\ Capacity \subseteq Uint16 /\ Uint16 \subseteq Nat /\ Capacity \subseteq Nat
  BY SizeFacts, WordType DEF Capacity, Uint16

\* What a packet takes and gives are numbers of bytes.
LEMMA PacketFacts ==
    ASSUME Assumptions, NEW x \in Packets
    PROVE  /\ x.operation \in Operations /\ x.window \in Uint16 /\ x.size \in 0 .. BufferSize
           /\ Taken(x) \in Nat /\ Given(x) \in Nat
<1>1. x.operation \in Operations /\ x.window \in Uint16 /\ x.size \in 0 .. BufferSize
  BY DEF Packets
<1> QED
  BY <1>1, SizeFacts DEF Taken, Given, Uint16

\* The numbers of bytes of packets are sequences of numbers.
LEMMA AmountsType ==
    ASSUME Assumptions, NEW l \in Seq(Packets)
    PROVE  /\ Sizes(l) \in Seq(Nat) /\ Windows(l) \in Seq(Nat)
           /\ Len(Sizes(l)) = Len(l) /\ Len(Windows(l)) = Len(l)
           /\ \A i \in 1 .. Len(l) : Sizes(l)[i] = Taken(l[i]) /\ Windows(l)[i] = Given(l[i])
           /\ Total(Sizes(l)) \in Nat /\ Total(Windows(l)) \in Nat
<1>1. DOMAIN l = 1 .. Len(l) /\ Len(l) \in Nat
  OBVIOUS
<1>2. ASSUME NEW i \in 1 .. Len(l) PROVE Taken(l[i]) \in Nat /\ Given(l[i]) \in Nat
  BY PacketFacts
<1>3. Sizes(l) = [i \in 1 .. Len(l) |-> Taken(l[i])] /\ Windows(l) = [i \in 1 .. Len(l) |-> Given(l[i])]
  BY <1>1 DEF Sizes, Windows, Taken, Given
<1> HIDE DEF Sizes, Windows, Taken, Given
<1>4. Sizes(l) \in Seq(Nat) /\ Windows(l) \in Seq(Nat) /\ Len(Sizes(l)) = Len(l) /\ Len(Windows(l)) = Len(l)
  BY <1>1, <1>2, <1>3
<1>5. \A i \in 1 .. Len(l) : Sizes(l)[i] = Taken(l[i]) /\ Windows(l)[i] = Given(l[i])
  BY <1>3
<1>6. Total(Sizes(l)) \in Nat /\ Total(Windows(l)) \in Nat
  BY <1>4, BytesFinite
<1> QED
  BY <1>4, <1>5, <1>6

\* No packets amount to nothing.
LEMMA AmountsEmpty == Total(Sizes(<<>>)) = 0 /\ Total(Windows(<<>>)) = 0
<1>1. Sizes(<<>>) = <<>> /\ Windows(<<>>) = <<>>
  BY DEF Sizes, Windows
<1> QED
  BY <1>1, TotalEmpty

\* A sequence with one more element is the shorter one, appended to.
LEMMA Appended ==
    ASSUME NEW k \in Seq(Nat), NEW n \in Nat, NEW b \in Seq(Nat), Len(b) = Len(k) + 1,
           \A i \in 1 .. Len(k) : b[i] = k[i], b[Len(k) + 1] = n
    PROVE  b = Append(k, n)
<1> DEFINE e == Append(k, n)
<1>1. /\ e \in Seq(Nat) /\ Len(e) = Len(k) + 1 /\ Len(k) \in Nat
      /\ \A i \in 1 .. Len(k) : e[i] = k[i]
      /\ e[Len(k) + 1] = n
  OBVIOUS
<1> HIDE DEF e
<1>2. ASSUME NEW i \in 1 .. Len(b) PROVE b[i] = e[i]
  <2>1. i = Len(k) + 1 \/ i \in 1 .. Len(k)
    BY <1>1
  <2> QED
    BY <1>1, <2>1
<1>3. b = e
  BY <1>1, <1>2, SeqEqual
<1> QED
  BY <1>3 DEF e

\* A sequence with one element less is the longer one's tail.
LEMMA Tailed ==
    ASSUME NEW k \in Seq(Nat), NEW b \in Seq(Nat), Len(k) >= 1, Len(b) = Len(k) - 1,
           \A i \in 1 .. Len(b) : b[i] = k[i + 1]
    PROVE  b = Tail(k) /\ Head(k) = k[1] /\ k # <<>>
<1> DEFINE e == Tail(k)
<1>1. k # <<>> /\ Head(k) = k[1]
  OBVIOUS
<1>2. e \in Seq(Nat) /\ Len(e) = Len(k) - 1 /\ \A i \in 1 .. Len(e) : e[i] = k[i + 1]
  BY <1>1, HeadTailProperties
<1> HIDE DEF e
<1>3. b = e
  BY <1>2, SeqEqual
<1> QED
  BY <1>1, <1>3 DEF e

\* A packet adds what it takes and gives.
LEMMA AmountsAppend ==
    ASSUME Assumptions, NEW l \in Seq(Packets), NEW x \in Packets
    PROVE  /\ Append(l, x) \in Seq(Packets)
           /\ Total(Sizes(Append(l, x))) = Total(Sizes(l)) + Taken(x)
           /\ Total(Windows(Append(l, x))) = Total(Windows(l)) + Given(x)
<1> DEFINE a == Append(l, x)
<1>1. /\ a \in Seq(Packets) /\ Len(a) = Len(l) + 1 /\ Len(l) \in Nat
      /\ \A i \in 1 .. Len(l) : a[i] = l[i]
      /\ a[Len(l) + 1] = x
  OBVIOUS
<1> HIDE DEF a
<1>2. Taken(x) \in Nat /\ Given(x) \in Nat
  BY PacketFacts
<1>3. /\ Sizes(l) \in Seq(Nat) /\ Len(Sizes(l)) = Len(l) /\ \A i \in 1 .. Len(l) : Sizes(l)[i] = Taken(l[i])
      /\ Windows(l) \in Seq(Nat) /\ Len(Windows(l)) = Len(l) /\ \A i \in 1 .. Len(l) : Windows(l)[i] = Given(l[i])
  BY AmountsType
<1>4. /\ Sizes(a) \in Seq(Nat) /\ Len(Sizes(a)) = Len(a) /\ \A i \in 1 .. Len(a) : Sizes(a)[i] = Taken(a[i])
      /\ Windows(a) \in Seq(Nat) /\ Len(Windows(a)) = Len(a) /\ \A i \in 1 .. Len(a) : Windows(a)[i] = Given(a[i])
  BY <1>1, AmountsType
<1>5. Sizes(a) = Append(Sizes(l), Taken(x))
  <2>1. /\ Len(Sizes(a)) = Len(Sizes(l)) + 1
        /\ \A i \in 1 .. Len(Sizes(l)) : Sizes(a)[i] = Sizes(l)[i]
        /\ Sizes(a)[Len(Sizes(l)) + 1] = Taken(x)
    BY <1>1, <1>3, <1>4
  <2> QED
    BY <1>2, <1>3, <1>4, <2>1, Appended
<1>6. Windows(a) = Append(Windows(l), Given(x))
  <2>1. /\ Len(Windows(a)) = Len(Windows(l)) + 1
        /\ \A i \in 1 .. Len(Windows(l)) : Windows(a)[i] = Windows(l)[i]
        /\ Windows(a)[Len(Windows(l)) + 1] = Given(x)
    BY <1>1, <1>3, <1>4
  <2> QED
    BY <1>2, <1>3, <1>4, <2>1, Appended
<1> QED
  BY <1>1, <1>2, <1>3, <1>5, <1>6, TotalAppend DEF a

\* A packet that is received takes away what it takes and gives.
LEMMA AmountsTail ==
    ASSUME Assumptions, NEW l \in Seq(Packets), l # <<>>
    PROVE  /\ Tail(l) \in Seq(Packets) /\ Head(l) \in Packets
           /\ Total(Sizes(l)) = Taken(Head(l)) + Total(Sizes(Tail(l)))
           /\ Total(Windows(l)) = Given(Head(l)) + Total(Windows(Tail(l)))
<1> DEFINE t == Tail(l)
<1>1. /\ t \in Seq(Packets) /\ Len(t) = Len(l) - 1 /\ Len(l) \in Nat /\ Len(l) >= 1
      /\ \A i \in 1 .. Len(t) : t[i] = l[i + 1]
      /\ Head(l) = l[1] /\ Head(l) \in Packets
  OBVIOUS
<1> HIDE DEF t
<1>3. /\ Sizes(l) \in Seq(Nat) /\ Len(Sizes(l)) = Len(l) /\ \A i \in 1 .. Len(l) : Sizes(l)[i] = Taken(l[i])
      /\ Windows(l) \in Seq(Nat) /\ Len(Windows(l)) = Len(l) /\ \A i \in 1 .. Len(l) : Windows(l)[i] = Given(l[i])
  BY AmountsType
<1>4. /\ Sizes(t) \in Seq(Nat) /\ Len(Sizes(t)) = Len(t) /\ \A i \in 1 .. Len(t) : Sizes(t)[i] = Taken(t[i])
      /\ Windows(t) \in Seq(Nat) /\ Len(Windows(t)) = Len(t) /\ \A i \in 1 .. Len(t) : Windows(t)[i] = Given(t[i])
  BY <1>1, AmountsType
<1>5. Sizes(t) = Tail(Sizes(l)) /\ Head(Sizes(l)) = Taken(Head(l)) /\ Sizes(l) # <<>>
  <2>1. /\ Len(Sizes(l)) >= 1 /\ Len(Sizes(t)) = Len(Sizes(l)) - 1
        /\ \A i \in 1 .. Len(Sizes(t)) : Sizes(t)[i] = Sizes(l)[i + 1]
        /\ Sizes(l)[1] = Taken(Head(l))
    <3>1. ASSUME NEW i \in 1 .. Len(t) PROVE Sizes(t)[i] = Sizes(l)[i + 1]
      <4>1. i + 1 \in 1 .. Len(l) /\ t[i] = l[i + 1]
        BY <1>1
      <4> QED
        BY <1>3, <1>4, <4>1
    <3>2. Sizes(l)[1] = Taken(Head(l))
      BY <1>1, <1>3
    <3>3. Len(Sizes(l)) >= 1 /\ Len(Sizes(t)) = Len(Sizes(l)) - 1
      BY <1>1, <1>3, <1>4
    <3> QED
      BY <1>4, <3>1, <3>2, <3>3
  <2> QED
    BY <1>3, <1>4, <2>1, Tailed
<1>6. Windows(t) = Tail(Windows(l)) /\ Head(Windows(l)) = Given(Head(l)) /\ Windows(l) # <<>>
  <2>1. /\ Len(Windows(l)) >= 1 /\ Len(Windows(t)) = Len(Windows(l)) - 1
        /\ \A i \in 1 .. Len(Windows(t)) : Windows(t)[i] = Windows(l)[i + 1]
        /\ Windows(l)[1] = Given(Head(l))
    <3>1. ASSUME NEW i \in 1 .. Len(t) PROVE Windows(t)[i] = Windows(l)[i + 1]
      <4>1. i + 1 \in 1 .. Len(l) /\ t[i] = l[i + 1]
        BY <1>1
      <4> QED
        BY <1>3, <1>4, <4>1
    <3>2. Windows(l)[1] = Given(Head(l))
      BY <1>1, <1>3
    <3>3. Len(Windows(l)) >= 1 /\ Len(Windows(t)) = Len(Windows(l)) - 1
      BY <1>1, <1>3, <1>4
    <3> QED
      BY <1>4, <3>1, <3>2, <3>3
  <2> QED
    BY <1>3, <1>4, <2>1, Tailed
<1> QED
  BY <1>1, <1>3, <1>5, <1>6, TotalTail DEF t

-----------------------------------------------------------------------------
(* The members of one peer *)

\* Everything in the sum that is conserved is a number of bytes.
LEMMA MemberFacts ==
    ASSUME Assumptions, NEW r \in Record
    PROVE  /\ Free(r) \in Uint16 /\ Free(r) \in Nat
           /\ Counted(r) \in Uint16
           /\ Total(r.received) \in Nat /\ r.received \in Seq(Nat)
           /\ r.releasedWindow \in Nat /\ r.releasedWindow \in Uint16 /\ r.otherAvailableWindow \in Uint16
<1>1. /\ r.otherAvailableWindow \in Uint16 /\ r.releasedWindow \in Uint16 /\ r.encodedSize \in Capacity
      /\ r.received \in Seq(MessageSizes)
  BY DEF Record
<1>2. r.received \in Seq(Nat)
  BY <1>1, SizeFacts
<1>3. Counted(r) \in Uint16
  BY <1>1, Fits DEF Counted
<1>4. Minus(r.otherAvailableWindow, Counted(r)) \in Uint16
  BY <1>1, <1>3, Uint16Facts
<1>5. Free(r) \in Uint16
  BY <1>4, SizeFacts DEF Free
<1> QED
  BY <1>1, <1>2, <1>3, <1>5, BytesFinite DEF Uint16

\* What the peers agree on concerns some of the members only.
LEMMA SharedSame ==
    ASSUME NEW p, NEW r, NEW s, NEW toR, NEW toS, SharedInv(p, r, s, toR, toS),
           NEW m, Free(m) = Free(r), m.received = r.received, m.releasedWindow = r.releasedWindow,
           m.initialized = r.initialized, m.granting = r.granting,
           m.sentInitResponse = r.sentInitResponse, m.requestingInitialization = r.requestingInitialization,
           r.initialized \/ (m.sending = r.sending)
    PROVE  SharedInv(p, m, s, toR, toS)
<1>1. Conserved(m, s, toR, toS) /\ Conserved(s, m, toS, toR)
  BY DEF SharedInv, Conserved
<1>2. CASE p = Starter
  <2>1. HandshakeInv(r, s, toR, toS)
    BY <1>2 DEF SharedInv
  <2>2. HandshakeInv(m, s, toR, toS)
    BY <2>1 DEF HandshakeInv, InitSent, Answered, Done
  <2> QED
    BY <1>1, <1>2, <2>2 DEF SharedInv
<1>3. CASE p # Starter
  <2>1. HandshakeInv(s, r, toS, toR)
    BY <1>3 DEF SharedInv
  <2>2. HandshakeInv(s, m, toS, toR)
    BY <2>1 DEF HandshakeInv, InitSent, Answered, Done
  <2> QED
    BY <1>1, <1>3, <2>2 DEF SharedInv
<1> QED
  BY <1>2, <1>3

\* Before SetNextState: what is being sent, if anything, is as it should be.
Ready(r) ==
    /\ r.initialized /\ ~r.sendInitResponse
    /\ r.reading <=> r.received # <<>>
    /\ IF r.sending THEN Writing(r) ELSE r.encodedSize = NoSize

Settled(n) == IF WritesAtOnce(n) THEN WritePacket(n) ELSE n
Written(n, toS) == IF WritesAtOnce(n) THEN Append(toS, PacketOf(n)) ELSE toS

\* What a packet takes is no longer free but on its way, and so is what it gives.
LEMMA ConservedWritten ==
    ASSUME NEW r, NEW s, NEW m, NEW toR, NEW a, NEW toS, NEW taken \in Nat, NEW given \in Nat,
           Conserved(r, s, toR, toS), Conserved(s, r, toS, toR),
           Free(r) \in Nat, Free(s) \in Nat, Free(m) \in Nat,
           Total(Sizes(toS)) \in Nat, Total(Windows(toS)) \in Nat, Total(Sizes(toR)) \in Nat, Total(Windows(toR)) \in Nat,
           Total(r.received) \in Nat, Total(s.received) \in Nat,
           r.releasedWindow \in Nat, s.releasedWindow \in Nat, m.releasedWindow \in Nat,
           Total(Sizes(a)) = Total(Sizes(toS)) + taken, Total(Windows(a)) = Total(Windows(toS)) + given,
           Free(m) + taken = Free(r), m.releasedWindow + given = r.releasedWindow, Total(m.received) = Total(r.received)
    PROVE  Conserved(m, s, toR, a) /\ Conserved(s, m, a, toR)
<1>1. Conserved(m, s, toR, a)
  <2>1. Free(r) + Total(Sizes(toS)) + Total(s.received) + s.releasedWindow + Total(Windows(toR)) = BufferSize
    BY DEF Conserved
  <2>2. Free(m) + (Total(Sizes(toS)) + taken) + Total(s.received) + s.releasedWindow + Total(Windows(toR)) = BufferSize
    BY <2>1, TakenLeaves
  <2> QED
    BY <2>2 DEF Conserved
<1>2. Conserved(s, m, a, toR)
  <2>1. Free(s) + Total(Sizes(toR)) + Total(r.received) + r.releasedWindow + Total(Windows(toS)) = BufferSize
    BY DEF Conserved
  <2>2. Free(s) + Total(Sizes(toR)) + Total(r.received) + m.releasedWindow + (Total(Windows(toS)) + given) = BufferSize
    BY <2>1, GivenLeaves
  <2> QED
    BY <2>2 DEF Conserved
<1> QED
  BY <1>1, <1>2

\* Packets that an initialized peer sends do not disturb the handshake.
LEMMA SharedWritten ==
    ASSUME Assumptions, NEW p, NEW r \in Record, NEW s \in Record, NEW toR \in Seq(Packets), NEW toS \in Seq(Packets),
           SharedInv(p, r, s, toR, toS), r.initialized,
           NEW x \in Packets, Usual(x),
           NEW m \in Record, m.initialized, m.granting = r.granting,
           m.sentInitResponse = r.sentInitResponse, m.requestingInitialization = r.requestingInitialization,
           Free(m) + x.size = Free(r), m.received = r.received, m.releasedWindow + Given(x) = r.releasedWindow
    PROVE  SharedInv(p, m, s, toR, Append(toS, x))
<1> DEFINE a == Append(toS, x)
<1>0. /\ a \in Seq(Packets) /\ Len(a) = Len(toS) + 1 /\ Len(toS) \in Nat
      /\ \A i \in 1 .. Len(toS) : a[i] = toS[i]
      /\ a[Len(toS) + 1] = x
  OBVIOUS
<1>1. /\ Total(Sizes(a)) = Total(Sizes(toS)) + x.size
      /\ Total(Windows(a)) = Total(Windows(toS)) + Given(x)
  BY AmountsAppend DEF Taken, Usual
<1> HIDE DEF a
<1>2. /\ Total(Sizes(toS)) \in Nat /\ Total(Windows(toS)) \in Nat /\ Total(Sizes(toR)) \in Nat /\ Total(Windows(toR)) \in Nat
      /\ x.size \in Nat /\ Given(x) \in Nat
  BY AmountsType, PacketFacts, SizeFacts
<1>3. /\ Free(m) \in Nat /\ Free(r) \in Nat /\ Free(s) \in Nat /\ Total(r.received) \in Nat /\ Total(s.received) \in Nat
      /\ r.releasedWindow \in Nat /\ s.releasedWindow \in Nat /\ m.releasedWindow \in Nat
  BY MemberFacts
<1>4. Conserved(r, s, toR, toS) /\ Conserved(s, r, toS, toR) /\ Total(m.received) = Total(r.received)
  BY DEF SharedInv
<1>5. Conserved(m, s, toR, a) /\ Conserved(s, m, a, toR)
  BY <1>1, <1>2, <1>3, <1>4, ConservedWritten
<1>7. /\ a # <<>> /\ (toS # <<>> => Head(a) = Head(toS) /\ (Ordinary(Tail(toS)) => Ordinary(Tail(a))))
      /\ Ordinary(toS) => Ordinary(a)
  <2>1. /\ a \in Seq(Packets) /\ Len(a) = Len(toS) + 1 /\ Len(toS) \in Nat
        /\ \A i \in 1 .. Len(toS) : a[i] = toS[i]
        /\ a[Len(toS) + 1] = x
    BY <1>0
  <2>2. Ordinary(toS) => Ordinary(a)
    BY <2>1 DEF Ordinary
  <2>3. a # <<>>
    BY <2>1
  <2>4. CASE toS # <<>>
    <3>1. /\ Len(toS) >= 1 /\ Head(a) = Head(toS)
          /\ Len(Tail(a)) = Len(toS) /\ Len(Tail(toS)) = Len(toS) - 1
          /\ \A i \in 1 .. Len(toS) : Tail(a)[i] = a[i + 1]
          /\ \A i \in 1 .. Len(toS) - 1 : Tail(toS)[i] = toS[i + 1]
      BY <2>1, <2>3, <2>4
    <3>2. Ordinary(Tail(toS)) => Ordinary(Tail(a))
      BY <2>1, <3>1, SMTT(30) DEF Ordinary
    <3> QED
      BY <2>2, <2>3, <3>1, <3>2
  <2> QED
    BY <2>2, <2>3, <2>4
<1> HIDE DEF a
<1>8. CASE p = Starter
  <2>1. HandshakeInv(r, s, toR, toS)
    BY <1>8 DEF SharedInv
  <2>2. HandshakeInv(m, s, toR, a)
    BY <1>7, <2>1 DEF HandshakeInv, InitSent, Answered, Done
  <2> QED
    BY <1>5, <1>8, <2>2 DEF SharedInv, a
<1>9. CASE p # Starter
  <2>1. HandshakeInv(s, r, toS, toR)
    BY <1>9 DEF SharedInv
  <2>2. HandshakeInv(s, m, a, toR)
    BY <1>7, <2>1 DEF HandshakeInv, InitSent, Answered, Done
  <2> QED
    BY <1>5, <1>9, <2>2 DEF SharedInv, a
<1> QED
  BY <1>8, <1>9

\* SetNextState, with the packet that is written at once, keeps what the peers agree on.
LEMMA NextState ==
    ASSUME Assumptions, NEW p, NEW r \in Record, NEW s \in Record, NEW toR \in Seq(Packets), NEW toS \in Seq(Packets),
           SharedInv(p, r, s, toR, toS), Ready(r)
    PROVE  LET n == SetNextState(r)
           IN  /\ Settled(n) \in Record /\ Written(n, toS) \in Seq(Packets)
               /\ LocalInv(Settled(n))
               /\ SharedInv(p, Settled(n), s, toR, Written(n, toS))
<1> DEFINE n == SetNextState(r)
<1>1. CASE r.sending
  <2>1. n = r /\ Writing(r)
    BY <1>1 DEF SetNextState, Ready
  <2>2. ~WritesAtOnce(n)
    BY <1>1, <2>1 DEF WritesAtOnce, Writing
  <2>3. Settled(n) = r /\ Written(n, toS) = toS
    BY <2>1, <2>2 DEF Settled, Written
  <2>4. LocalInv(r)
    BY <2>1 DEF LocalInv, Ready
  <2> QED
    BY <2>3, <2>4
<1>2. ASSUME ~r.sending
      PROVE  r.initialized /\ ~r.sendInitResponse /\ r.encodedSize = 0 /\ Free(r) = r.otherAvailableWindow
             /\ r.otherAvailableWindow \in Nat /\ r.otherAvailableWindow \in Uint16
             /\ (r.reading <=> r.received # <<>>)
  <2>1. r.initialized /\ ~r.sendInitResponse /\ r.encodedSize = 0 /\ (r.reading <=> r.received # <<>>)
    BY <1>2 DEF Ready, NoSize
  <2>2. Counted(r) = 0
    BY <2>1 DEF Counted
  <2>3. r.otherAvailableWindow \in Nat /\ r.otherAvailableWindow \in Uint16
    BY MemberFacts DEF Uint16
  <2>4. Minus(r.otherAvailableWindow, 0) = r.otherAvailableWindow
    BY <2>3, MinusZero
  <2> QED
    BY <2>1, <2>2, <2>3, <2>4 DEF Free
<1>3. CASE ~r.sending /\ MaySendMessage(r)
  <2>1. n = StartMessage(r)
    BY <1>2, <1>3 DEF SetNextState
  <2>2. n = [r EXCEPT !.state = "sendingMessage", !.sending = TRUE,
                      !.requestedSize = r.requestedSendMessageSize, !.requestedSendMessageSize = NoSize]
    BY <2>1 DEF StartMessage, StartSending, Record
  <2>3. r.requestedSendMessageSize \in MessageSizes /\ r.requestedSendMessageSize <= r.otherAvailableWindow
    <3>1. r.requestedSendMessageSize \in MessageSizes /\ r.requestedSendMessageSize + ReleaseSize <= r.otherAvailableWindow
      BY <1>3 DEF MaySendMessage, Record
    <3> QED
      BY <1>2, <1>3, <3>1, SizeFacts
  <2>4. n \in Record
    BY <2>2, <2>3, ZenonT(60) DEF Record, States
  <2>5. /\ n.state = "sendingMessage" /\ n.sending = TRUE /\ n.requestedSize = r.requestedSendMessageSize
        /\ n.received = r.received /\ n.releasedWindow = r.releasedWindow /\ n.initialized = r.initialized
        /\ n.granting = r.granting /\ n.sentInitResponse = r.sentInitResponse
        /\ n.requestingInitialization = r.requestingInitialization /\ n.otherAvailableWindow = r.otherAvailableWindow
        /\ n.encodedSize = r.encodedSize /\ n.sendInitResponse = r.sendInitResponse /\ n.reading = r.reading
    BY <2>2 DEF Record
  <2> HIDE DEF n
  <2>6. ~WritesAtOnce(n)
    BY <2>5 DEF WritesAtOnce
  <2>7. Settled(n) = n /\ Written(n, toS) = toS
    BY <2>6 DEF Settled, Written
  <2>8. LocalInv(n)
    BY <1>2, <1>3, <2>3, <2>5, SizeFacts DEF LocalInv, Writing, NoSize
  <2>9. Free(n) = Free(r)
    BY <1>2, <1>3, <2>5 DEF Free, Counted
  <2>10. SharedInv(p, n, s, toR, toS)
    BY <1>2, <1>3, <2>5, <2>9, SharedSame
  <2> QED
    BY <2>4, <2>7, <2>8, <2>10 DEF n
<1>4. CASE ~r.sending /\ ~MaySendMessage(r) /\ MayRelease(r)
  <2> DEFINE m == WritePacket(n)
             x == Packet("releaseWindow", r.releasedWindow, ReleaseSize)
  <2>1. n = [r EXCEPT !.state = "sendingReleaseWindow", !.sending = TRUE]
    BY <1>2, <1>4 DEF SetNextState, StartSending
  <2>2. /\ n \in Record /\ n.state = "sendingReleaseWindow" /\ n.sending = TRUE /\ n.encodedSize = r.encodedSize
        /\ n.releasedWindow = r.releasedWindow
    BY <2>1 DEF Record, States
  <2>3. m = [r EXCEPT !.state = "sendingReleaseWindow", !.sending = TRUE, !.encodedSize = ReleaseSize,
                      !.releasedWindow = 0, !.sendInitResponse = FALSE]
    <3>1. (n.sendInitResponse /\ n.state # "sendingInitResponse") = FALSE
      BY <1>2, <1>4, <2>1 DEF Record
    <3>2. m = [n EXCEPT !.encodedSize = ReleaseSize, !.releasedWindow = 0, !.sendInitResponse = FALSE]
      BY <3>1 DEF WritePacket
    <3> QED
      BY <2>1, <3>2 DEF Record
  <2>4. WritesAtOnce(n)
    BY <1>2, <1>4, <2>2 DEF WritesAtOnce, NoSize
  <2>5. PacketOf(n) = x /\ x \in Packets /\ x.operation = "releaseWindow" /\ x.size = ReleaseSize /\ x.window = r.releasedWindow
    <3>1. PacketOf(n) = x
      BY <2>2 DEF PacketOf
    <3>2. r.releasedWindow \in Uint16 /\ ReleaseSize \in 0 .. BufferSize
      BY MemberFacts, SizeFacts
    <3> QED
      BY <3>1, <3>2 DEF Packet, Packets, Operations
  <2>6. m \in Record
    <3>1. "sendingReleaseWindow" \in States
      BY DEF States
    <3> QED
      BY <2>3, <3>1, Fits, ZenonT(60) DEF Record
  <2>7. /\ m.state = "sendingReleaseWindow" /\ m.sending = TRUE /\ m.encodedSize = ReleaseSize /\ m.sendInitResponse = FALSE
        /\ m.received = r.received /\ m.releasedWindow = 0 /\ m.initialized = r.initialized
        /\ m.granting = r.granting /\ m.sentInitResponse = r.sentInitResponse
        /\ m.requestingInitialization = r.requestingInitialization /\ m.otherAvailableWindow = r.otherAvailableWindow
        /\ m.reading = r.reading
    BY <2>3 DEF Record
  <2>8. Settled(n) = m /\ Written(n, toS) = Append(toS, x)
    BY <2>4, <2>5 DEF Settled, Written
  <2> HIDE DEF n, m, x
  <2>9. LocalInv(m)
    BY <1>2, <1>4, <2>7, SizeFacts DEF LocalInv, Writing, NoSize
  <2>10. Free(m) + x.size = Free(r)
    <3>1. Counted(m) = ReleaseSize
      BY <2>7 DEF Counted
    <3>2. ReleaseSize <= r.otherAvailableWindow
      BY <1>4 DEF MayRelease
    <3>3. Minus(r.otherAvailableWindow, ReleaseSize) = r.otherAvailableWindow - ReleaseSize
      BY <1>2, <1>4, <3>2, SizeFacts, Uint16Facts
    <3>4. Free(m) = r.otherAvailableWindow - ReleaseSize
      BY <1>2, <1>4, <2>7, <3>1, <3>3 DEF Free
    <3> QED
      BY <1>2, <1>4, <2>5, <3>4, SizeFacts
  <2>11. m.releasedWindow + Given(x) = r.releasedWindow
    BY <2>5, <2>7, MemberFacts DEF Given
  <2>12. SharedInv(p, m, s, toR, Append(toS, x))
    BY <1>2, <1>4, <2>5, <2>6, <2>7, <2>10, <2>11, SharedWritten DEF Usual
  <2>13. Append(toS, x) \in Seq(Packets)
    BY <2>5
  <2> QED
    BY <2>6, <2>8, <2>9, <2>12, <2>13 DEF n
<1>5. CASE ~r.sending /\ ~MaySendMessage(r) /\ ~MayRelease(r)
  <2>1. n = [r EXCEPT !.state = "operational"]
    BY <1>2, <1>5 DEF SetNextState
  <2>2. n \in Record
    BY <2>1, ZenonT(60) DEF Record, States
  <2>3. /\ n.state = "operational" /\ n.sending = r.sending
        /\ n.received = r.received /\ n.releasedWindow = r.releasedWindow /\ n.initialized = r.initialized
        /\ n.granting = r.granting /\ n.sentInitResponse = r.sentInitResponse
        /\ n.requestingInitialization = r.requestingInitialization /\ n.otherAvailableWindow = r.otherAvailableWindow
        /\ n.encodedSize = r.encodedSize /\ n.sendInitResponse = r.sendInitResponse /\ n.reading = r.reading
    BY <2>1 DEF Record
  <2> HIDE DEF n
  <2>4. Settled(n) = n /\ Written(n, toS) = toS
    BY <1>5, <2>3 DEF Settled, Written, WritesAtOnce
  <2>5. LocalInv(n)
    BY <1>2, <1>5, <2>3 DEF LocalInv, Writing, NoSize
  <2>6. Free(n) = Free(r)
    BY <1>2, <1>5, <2>3 DEF Free, Counted
  <2>7. SharedInv(p, n, s, toR, toS)
    BY <1>2, <1>5, <2>3, <2>6, SharedSame
  <2> QED
    BY <2>2, <2>4, <2>5, <2>7 DEF n
<1> QED
  BY <1>1, <1>3, <1>4, <1>5

-----------------------------------------------------------------------------
(* The handshake *)

\* What a peer that is not initialized knows.
LEMMA FreshFacts ==
    ASSUME Assumptions, NEW r \in Record, LocalInv(r), ~r.initialized
    PROVE  /\ r.state = "sendingInit" /\ (r.sending <=> r.encodedSize # 0) /\ r.received = <<>>
           /\ r.releasedWindow = 0 /\ ~r.sendInitResponse /\ ~r.reading /\ Free(r) = BufferSize
  BY DEF LocalInv, Fresh, NoSize, Free

\* The packets of the handshake, of which only the answer takes room.
LEMMA ResponseFacts ==
    ASSUME Assumptions
    PROVE  /\ Response \in Packets /\ Response.operation = "initResponse" /\ Response.window = BufferSize
           /\ Response.size = ReleaseSize /\ Taken(Response) = ReleaseSize /\ Given(Response) = 0
           /\ InitPacket \in Packets /\ InitPacket.operation = "init" /\ InitPacket.window = BufferSize
           /\ Taken(InitPacket) = 0 /\ Given(InitPacket) = 0
<1>1. BufferSize \in Uint16 /\ ReleaseSize \in 0 .. BufferSize
  BY SizeFacts
<1>2. /\ Response \in Packets /\ Response.operation = "initResponse" /\ Response.window = BufferSize
      /\ Response.size = ReleaseSize
  BY <1>1 DEF Response, Packet, Packets, Operations
<1>3. InitPacket \in Packets /\ InitPacket.operation = "init" /\ InitPacket.window = BufferSize
  BY <1>1 DEF InitPacket, Packet, Packets, Operations
<1> QED
  BY <1>2, <1>3 DEF Taken, Given

\* The window that is granted is that of the peer that started, which has not sent anything against it.
LEMMA Granted ==
    ASSUME Assumptions, NEW p, p # Starter,
           NEW r \in Record, NEW s \in Record, NEW toR \in Seq(Packets), NEW toS \in Seq(Packets),
           LocalInv(r), LocalInv(s), SharedInv(p, r, s, toR, toS), InitSent(s, r, toS, toR)
    PROVE  LET n == InitializationGranted(r, BufferSize)
           IN  /\ SetNextState(n) = n
               /\ Settled(n) \in Record /\ Written(n, toS) \in Seq(Packets)
               /\ LocalInv(Settled(n))
               /\ SharedInv(p, Settled(n), s, <<>>, Written(n, toS))
<1> DEFINE n == InitializationGranted(r, BufferSize)
           g == [r EXCEPT !.otherAvailableWindow = BufferSize, !.sendInitResponse = TRUE,
                          !.requestingInitialization = FALSE, !.granting = 0,
                          !.maxUsableBufferSize = BufferSize, !.initialized = TRUE]
           m == WritePacket(n)
<1>1. /\ ~r.initialized /\ ~r.sending /\ ~s.initialized /\ toS = <<>>
      /\ r.state = "sendingInit" /\ r.encodedSize = 0 /\ r.received = <<>> /\ r.releasedWindow = 0 /\ ~r.reading
  BY FreshFacts DEF InitSent
<1>2. n = SetNextState(g)
  <2>1. Least(BufferSize, BufferSize) = BufferSize
    BY DEF Least
  <2>2. ReceivedInitialize([r EXCEPT !.otherAvailableWindow = BufferSize, !.sendInitResponse = TRUE,
                                     !.requestingInitialization = FALSE, !.granting = NoSize]) = g
    BY <2>1 DEF ReceivedInitialize, Record, NoSize
  <2> QED
    BY <2>2 DEF InitializationGranted
<1>3. n = [g EXCEPT !.state = "sendingInitResponse", !.sending = TRUE, !.sentInitResponse = TRUE]
  <2>1. g.sending = r.sending /\ g.initialized = TRUE /\ g.sendInitResponse = TRUE /\ g.reading = r.reading
    BY DEF Record
  <2>2. SetNextState(g) = RespondInit(g)
    BY <1>1, <2>1 DEF SetNextState
  <2>3. RespondInit(g) = [g EXCEPT !.state = "sendingInitResponse", !.sending = TRUE, !.sentInitResponse = TRUE]
    BY <1>1, <2>1 DEF RespondInit, StartSending
  <2> QED
    BY <1>2, <2>2, <2>3
<1>4. /\ n.sending = TRUE /\ n.state = "sendingInitResponse" /\ n.encodedSize = r.encodedSize
  BY <1>3 DEF Record
<1>5. SetNextState(n) = n /\ WritesAtOnce(n) /\ PacketOf(n) = Response
  BY <1>1, <1>4 DEF SetNextState, WritesAtOnce, PacketOf, Response, NoSize
<1>6. m = [n EXCEPT !.encodedSize = ReleaseSize, !.releasedWindow = 0, !.sendInitResponse = FALSE]
  <2>1. (n.sendInitResponse /\ n.state # "sendingInitResponse") = FALSE
    BY <1>4
  <2> QED
    BY <2>1 DEF WritePacket
<1>7. m \in Record
  <2>1. g \in Record
    BY Fits, ZenonT(60) DEF Record
  <2>2. n \in Record
    <3>1. "sendingInitResponse" \in States
      BY DEF States
    <3> HIDE DEF g
    <3> QED
      BY <1>3, <2>1, <3>1, ZenonT(60) DEF Record
  <2> QED
    BY <1>6, <2>2, Fits, ZenonT(60) DEF Record
<1>8. /\ m.state = "sendingInitResponse" /\ m.sending = TRUE /\ m.encodedSize = ReleaseSize /\ m.sendInitResponse = FALSE
      /\ m.received = r.received /\ m.releasedWindow = 0 /\ m.initialized = TRUE /\ m.granting = 0
      /\ m.otherAvailableWindow = BufferSize /\ m.reading = r.reading
  <2>1. /\ g \in Record /\ g.received = r.received /\ g.initialized = TRUE /\ g.granting = 0
        /\ g.otherAvailableWindow = BufferSize /\ g.reading = r.reading
    BY Fits, ZenonT(60) DEF Record
  <2>2. /\ n.received = g.received /\ n.initialized = g.initialized /\ n.granting = g.granting
        /\ n.otherAvailableWindow = g.otherAvailableWindow /\ n.reading = g.reading
        /\ DOMAIN n = DOMAIN g
    <3> HIDE DEF g
    <3> QED
      BY <1>3, <2>1 DEF Record
  <2>3. /\ m.received = n.received /\ m.initialized = n.initialized /\ m.granting = n.granting
        /\ m.otherAvailableWindow = n.otherAvailableWindow /\ m.reading = n.reading
        /\ m.state = n.state /\ m.sending = n.sending
        /\ m.encodedSize = ReleaseSize /\ m.releasedWindow = 0 /\ m.sendInitResponse = FALSE
    <3>1. DOMAIN n = DOMAIN r
      <4> HIDE DEF g
      <4> QED
        BY <2>1, <2>2 DEF Record
    <3> HIDE DEF n, m, g
    <3> QED
      BY <1>6, <3>1 DEF Record
  <2> HIDE DEF n, m, g
  <2> QED
    BY <1>4, <2>1, <2>2, <2>3
<1>9. Settled(n) = m /\ Written(n, toS) = Append(<<>>, Response)
  BY <1>1, <1>5 DEF Settled, Written
<1> HIDE DEF n, g, m
<1>10. LocalInv(m)
  BY <1>1, <1>8, SizeFacts DEF LocalInv, Writing, NoSize
<1>11. Free(m) = BufferSize - ReleaseSize
  <2>1. Counted(m) = ReleaseSize
    BY <1>8 DEF Counted
  <2>2. Minus(BufferSize, ReleaseSize) = BufferSize - ReleaseSize
    BY SizeFacts, Uint16Facts
  <2> QED
    BY <1>8, <2>1, <2>2 DEF Free
<1>12. /\ Append(<<>>, Response) \in Seq(Packets)
       /\ Total(Sizes(Append(<<>>, Response))) = ReleaseSize /\ Total(Windows(Append(<<>>, Response))) = 0
  <2>1. /\ Total(Sizes(Append(<<>>, Response))) = Total(Sizes(<<>>)) + Taken(Response)
        /\ Total(Windows(Append(<<>>, Response))) = Total(Windows(<<>>)) + Given(Response)
        /\ Append(<<>>, Response) \in Seq(Packets)
    <3>1. <<>> \in Seq(Packets) /\ Response \in Packets
      BY ResponseFacts
    <3> QED
      BY <3>1, AmountsAppend
  <2> QED
    BY <2>1, AmountsEmpty, ResponseFacts, SizeFacts
<1>13. Total(s.received) = 0 /\ s.releasedWindow = 0
  <2>1. BufferSize + Total(Sizes(toS)) + Total(s.received) + s.releasedWindow + Total(Windows(toR)) = BufferSize
    BY <1>1 DEF SharedInv, Conserved, Free
  <2> QED
    <3>1. /\ Total(Sizes(toS)) \in Nat /\ Total(Windows(toR)) \in Nat
          /\ Total(s.received) \in Nat /\ s.releasedWindow \in Nat /\ BufferSize \in Nat
      BY MemberFacts, AmountsType, SizeFacts
    <3> QED
      BY <2>1, <3>1, NothingAdded
<1>14. Conserved(m, s, <<>>, Append(<<>>, Response))
  <2>1. Free(m) + Total(Sizes(Append(<<>>, Response))) + Total(s.received) + s.releasedWindow + Total(Windows(<<>>)) = BufferSize
    BY <1>11, <1>12, <1>13, AmountsEmpty, SizeFacts
  <2> QED
    BY <2>1 DEF Conserved
<1>15. Conserved(s, m, Append(<<>>, Response), <<>>)
  <2>1. Free(s) = BufferSize
    BY <1>1 DEF Free
  <2>2. Total(m.received) = 0 /\ m.releasedWindow = 0
    BY <1>1, <1>8, TotalEmpty
  <2>3. Free(s) + Total(Sizes(<<>>)) + Total(m.received) + m.releasedWindow + Total(Windows(Append(<<>>, Response))) = BufferSize
    BY <1>12, <2>1, <2>2, AmountsEmpty, SizeFacts
  <2> QED
    BY <2>3 DEF Conserved
<1>16. HandshakeInv(s, m, Append(<<>>, Response), <<>>)
  <2>1. ~s.sentInitResponse /\ ~s.requestingInitialization /\ s.granting = NoSize
    BY DEF SharedInv, HandshakeInv
  <2>2. /\ Append(<<>>, Response) # <<>> /\ Head(Append(<<>>, Response)) = Response
        /\ Tail(Append(<<>>, Response)) = <<>>
    BY ResponseFacts
  <2>3. Ordinary(Tail(Append(<<>>, Response)))
    BY <2>2 DEF Ordinary
  <2>4. Answered(s, m, Append(<<>>, Response), <<>>)
    BY <1>1, <1>8, <2>2, <2>3 DEF Answered, NoSize
  <2> QED
    BY <2>1, <2>4 DEF HandshakeInv
<1>17. SharedInv(p, m, s, <<>>, Append(<<>>, Response))
  BY <1>14, <1>15, <1>16 DEF SharedInv
<1> QED
  BY <1>5, <1>7, <1>9, <1>10, <1>12, <1>17 DEF n

-----------------------------------------------------------------------------
(* Receiving *)

\* A step leaves p with members n, and then with the packet written that it is about to send.
Kept(p, n, s, toR, toS) ==
    /\ Settled(n) \in Record /\ Written(n, toS) \in Seq(Packets)
    /\ LocalInv(Settled(n))
    /\ SharedInv(p, Settled(n), s, toR, Written(n, toS))

\* What is first on its way depends on how far the handshake is.
LEMMA FirstPacket ==
    ASSUME Assumptions, NEW p, NEW r \in Record, NEW s \in Record, NEW toR \in Seq(Packets), NEW toS \in Seq(Packets),
           SharedInv(p, r, s, toR, toS), toR # <<>>
    PROVE  \/ p # Starter /\ InitSent(s, r, toS, toR) /\ toR = <<InitPacket>>
           \/ p = Starter /\ Answered(r, s, toR, toS)
           \/ r.initialized /\ s.initialized /\ Ordinary(toR) /\ Ordinary(toS)
<1>1. CASE p = Starter
  <2>1. HandshakeInv(r, s, toR, toS)
    BY <1>1 DEF SharedInv
  <2> QED
    BY <1>1, <2>1 DEF HandshakeInv, InitSent, Answered, Done
<1>2. CASE p # Starter
  <2>1. HandshakeInv(s, r, toS, toR)
    BY <1>2 DEF SharedInv
  <2> QED
    BY <1>2, <2>1 DEF HandshakeInv, InitSent, Answered, Done
<1> QED
  BY <1>1, <1>2

\* What a packet gives is no longer on its way but free, and what it takes is held.
LEMMA ConservedReceived ==
    ASSUME NEW r, NEW s, NEW m, NEW toR, NEW t, NEW toS, NEW taken \in Nat, NEW given \in Nat,
           Conserved(r, s, toR, toS), Conserved(s, r, toS, toR),
           Free(r) \in Nat, Free(s) \in Nat,
           Total(Sizes(toS)) \in Nat, Total(Windows(toS)) \in Nat, Total(Sizes(t)) \in Nat, Total(Windows(t)) \in Nat,
           Total(r.received) \in Nat, Total(s.received) \in Nat, Total(m.received) \in Nat,
           r.releasedWindow \in Nat, s.releasedWindow \in Nat, m.releasedWindow \in Nat,
           Total(Sizes(toR)) = taken + Total(Sizes(t)), Total(Windows(toR)) = given + Total(Windows(t)),
           Free(m) = Free(r) + given,
           Total(m.received) + m.releasedWindow = Total(r.received) + r.releasedWindow + taken
    PROVE  Conserved(m, s, t, toS) /\ Conserved(s, m, toS, t)
<1>1. Conserved(m, s, t, toS)
  <2>1. Free(r) + Total(Sizes(toS)) + Total(s.received) + s.releasedWindow + (given + Total(Windows(t))) = BufferSize
    BY DEF Conserved
  <2>2. (Free(r) + given) + Total(Sizes(toS)) + Total(s.received) + s.releasedWindow + Total(Windows(t)) = BufferSize
    BY <2>1, GivenMoves
  <2> QED
    BY <2>2 DEF Conserved
<1>2. Conserved(s, m, toS, t)
  <2>1. Free(s) + (taken + Total(Sizes(t))) + Total(r.received) + r.releasedWindow + Total(Windows(toS)) = BufferSize
    BY DEF Conserved
  <2>2. Free(s) + Total(Sizes(t)) + Total(m.received) + m.releasedWindow + Total(Windows(toS)) = BufferSize
    BY <2>1, TakenMoves
  <2> QED
    BY <2>2 DEF Conserved
<1> QED
  BY <1>1, <1>2

\* There is room for what a packet takes and gives.
LEMMA ConservedFits ==
    ASSUME NEW r, NEW s, NEW toR, NEW t, NEW toS, NEW taken \in Nat, NEW given \in Nat,
           Conserved(r, s, toR, toS), Conserved(s, r, toS, toR),
           Free(r) \in Nat, Free(s) \in Nat,
           Total(Sizes(toS)) \in Nat, Total(Windows(toS)) \in Nat, Total(Sizes(t)) \in Nat, Total(Windows(t)) \in Nat,
           Total(r.received) \in Nat, Total(s.received) \in Nat, r.releasedWindow \in Nat, s.releasedWindow \in Nat,
           Total(Sizes(toR)) = taken + Total(Sizes(t)), Total(Windows(toR)) = given + Total(Windows(t))
    PROVE  Free(r) + given <= BufferSize /\ r.releasedWindow + taken <= BufferSize
<1>1. Free(r) + given <= BufferSize
  <2>1. Free(r) + Total(Sizes(toS)) + Total(s.received) + s.releasedWindow + (given + Total(Windows(t))) = BufferSize
    BY DEF Conserved
  <2> QED
    BY <2>1, TermsFit
<1>2. r.releasedWindow + taken <= BufferSize
  <2>1. Free(s) + (taken + Total(Sizes(t))) + Total(r.received) + r.releasedWindow + Total(Windows(toS)) = BufferSize
    BY DEF Conserved
  <2> QED
    BY <2>1, TermsFitToo
<1> QED
  BY <1>1, <1>2

\* A packet that is received leaves the line, and what it took and gave goes to the members.
LEMMA SharedReceived ==
    ASSUME Assumptions, NEW p, NEW r \in Record, NEW s \in Record, NEW toR \in Seq(Packets), NEW toS \in Seq(Packets),
           SharedInv(p, r, s, toR, toS), toR # <<>>, r.initialized, s.initialized, Ordinary(toR), Ordinary(toS),
           NEW m \in Record, m.initialized, m.granting = r.granting,
           m.sentInitResponse = r.sentInitResponse, m.requestingInitialization = r.requestingInitialization,
           Free(m) = Free(r) + Given(Head(toR)),
           Total(m.received) + m.releasedWindow = Total(r.received) + r.releasedWindow + Taken(Head(toR))
    PROVE  SharedInv(p, m, s, Tail(toR), toS)
<1> DEFINE x == Head(toR)
           t == Tail(toR)
<1>1. /\ x \in Packets /\ t \in Seq(Packets)
      /\ Total(Sizes(toR)) = Taken(x) + Total(Sizes(t))
      /\ Total(Windows(toR)) = Given(x) + Total(Windows(t))
  BY AmountsTail
<1>2. /\ Total(Sizes(toS)) \in Nat /\ Total(Windows(toS)) \in Nat /\ Total(Sizes(t)) \in Nat /\ Total(Windows(t)) \in Nat
      /\ Taken(x) \in Nat /\ Given(x) \in Nat
  BY <1>1, AmountsType, PacketFacts
<1>3. /\ Free(m) \in Nat /\ Free(r) \in Nat /\ Free(s) \in Nat /\ Total(r.received) \in Nat /\ Total(s.received) \in Nat
      /\ r.releasedWindow \in Nat /\ s.releasedWindow \in Nat /\ m.releasedWindow \in Nat /\ Total(m.received) \in Nat
  BY MemberFacts
<1>4. /\ Conserved(r, s, toR, toS) /\ Conserved(s, r, toS, toR)
      /\ Free(m) = Free(r) + Given(x) /\ Total(m.received) + m.releasedWindow = Total(r.received) + r.releasedWindow + Taken(x)
  BY DEF SharedInv
<1>5. Conserved(m, s, t, toS) /\ Conserved(s, m, toS, t)
  <2> HIDE DEF x, t
  <2> QED
    BY <1>1, <1>2, <1>3, <1>4, ConservedReceived
<1>7. Ordinary(t)
  <2>1. Len(t) = Len(toR) - 1 /\ \A i \in 1 .. Len(t) : t[i] = toR[i + 1] /\ i + 1 \in 1 .. Len(toR)
    OBVIOUS
  <2> QED
    BY <2>1 DEF Ordinary
<1> HIDE DEF x, t
<1>8. CASE p = Starter
  <2>1. HandshakeInv(r, s, toR, toS)
    BY <1>8 DEF SharedInv
  <2>2. HandshakeInv(m, s, t, toS)
    BY <1>7, <2>1 DEF HandshakeInv, InitSent, Answered, Done
  <2> QED
    BY <1>5, <1>8, <2>2 DEF SharedInv, t
<1>9. CASE p # Starter
  <2>1. HandshakeInv(s, r, toS, toR)
    BY <1>9 DEF SharedInv
  <2>2. HandshakeInv(s, m, toS, t)
    BY <1>7, <2>1 DEF HandshakeInv, InitSent, Answered, Done
  <2> QED
    BY <1>5, <1>9, <2>2 DEF SharedInv, t
<1> QED
  BY <1>8, <1>9

\* A peer that is initialized is ready for what comes.
LEMMA LocalReady ==
    ASSUME NEW r, LocalInv(r), r.initialized
    PROVE  Ready(r)
  BY DEF LocalInv, Ready, Writing

\* SaveReceivedMessage: the bytes go from the line to the buffer.
LEMMA MessageReceived ==
    ASSUME Assumptions, NEW p, NEW r \in Record, NEW s \in Record, NEW toR \in Seq(Packets), NEW toS \in Seq(Packets),
           LocalInv(r), SharedInv(p, r, s, toR, toS), toR # <<>>,
           r.initialized, s.initialized, Ordinary(toR), Ordinary(toS),
           Head(toR).operation = "message", Head(toR).size \in MessageSizes
    PROVE  Kept(p, SetNextState(SaveReceivedMessage(r, Head(toR))), s, Tail(toR), toS)
<1> DEFINE x == Head(toR)
           m == [r EXCEPT !.received = Append(r.received, x.size), !.reading = TRUE]
<1>1. r.received \in Seq(MessageSizes) /\ Append(r.received, x.size) \in Seq(MessageSizes) /\ Append(r.received, x.size) # <<>>
  <2>1. PICK l \in Seq(MessageSizes), n \in MessageSizes : l = r.received /\ n = x.size
    BY DEF Record
  <2>2. Append(l, n) \in Seq(MessageSizes) /\ Append(l, n) # <<>>
    BY AppendProperties
  <2> QED
    BY <2>1, <2>2
<1>2. SaveReceivedMessage(r, x) = m
  <2> DEFINE a == [r EXCEPT !.received = Append(r.received, x.size)]
  <2>1. SaveReceivedMessage(r, x) = TryForwardReceivedMessage(a)
    BY DEF SaveReceivedMessage, Record
  <2>2. a.received = Append(r.received, x.size)
    BY DEF Record
  <2>3. (a.received # <<>>) = TRUE
    BY <1>1, <2>2
  <2>4. TryForwardReceivedMessage(a) = [a EXCEPT !.reading = TRUE]
    BY <2>3 DEF TryForwardReceivedMessage
  <2>5. [a EXCEPT !.reading = TRUE] = m
    BY DEF Record
  <2> QED
    BY <2>1, <2>4, <2>5
<1>3. m \in Record
  BY <1>1 DEF Record
<1>4. /\ m.received = Append(r.received, x.size) /\ m.reading = TRUE
      /\ m.state = r.state /\ m.sending = r.sending /\ m.encodedSize = r.encodedSize /\ m.requestedSize = r.requestedSize
      /\ m.releasedWindow = r.releasedWindow /\ m.initialized = r.initialized /\ m.sendInitResponse = r.sendInitResponse
      /\ m.granting = r.granting /\ m.sentInitResponse = r.sentInitResponse
      /\ m.requestingInitialization = r.requestingInitialization /\ m.otherAvailableWindow = r.otherAvailableWindow
  BY DEF Record
<1>5. x.size \in Nat /\ Taken(x) = x.size /\ Given(x) = 0
  BY SizeFacts DEF Taken, Given
<1> HIDE DEF m
<1>6. Ready(m)
  BY <1>1, <1>4, LocalReady DEF Ready, Writing
<1>7. Free(m) = Free(r) + Given(x)
  <2>1. Free(m) = Free(r)
    BY <1>4 DEF Free, Counted
  <2> QED
    BY <1>5, <2>1, MemberFacts
<1>8. Total(m.received) + m.releasedWindow = Total(r.received) + r.releasedWindow + Taken(x)
  <2>1. Total(m.received) = Total(r.received) + x.size
    BY <1>4, <1>5, MemberFacts, TotalAppend
  <2> QED
    BY <1>4, <1>5, <2>1, MemberFacts, SMTT(30)
<1>9. SharedInv(p, m, s, Tail(toR), toS)
  BY <1>3, <1>4, <1>7, <1>8, SharedReceived
<1>10. Tail(toR) \in Seq(Packets)
  BY AmountsTail
<1> HIDE DEF x
<1> QED
  BY <1>2, <1>3, <1>6, <1>9, <1>10, NextState DEF Kept, x

\* ReleaseWindow: its window becomes available, and its size is to be released.
LEMMA ReleaseReceived ==
    ASSUME Assumptions, NEW p, NEW r \in Record, NEW s \in Record, NEW toR \in Seq(Packets), NEW toS \in Seq(Packets),
           LocalInv(r), SharedInv(p, r, s, toR, toS), toR # <<>>,
           r.initialized, s.initialized, Ordinary(toR), Ordinary(toS),
           Head(toR).operation = "releaseWindow"
    PROVE  Kept(p, SetNextState(ReceivedReleaseWindow(r, Head(toR))), s, Tail(toR), toS)
<1> DEFINE x == Head(toR)
           m == [r EXCEPT !.releasedWindow = Plus(r.releasedWindow, x.size),
                          !.otherAvailableWindow = Plus(r.otherAvailableWindow, x.window)]
<1>1. ReceivedReleaseWindow(r, x) = m
  BY DEF ReceivedReleaseWindow, Record
<1>2. /\ x \in Packets /\ x.size \in Nat /\ x.size \in Uint16 /\ x.window \in Uint16 /\ x.window \in Nat
      /\ Taken(x) = x.size /\ Given(x) = x.window
  <2>1. x \in Packets
    BY AmountsTail
  <2> QED
    BY <2>1, PacketFacts, Fits DEF Taken, Given, Capacity
<1>3. /\ r.releasedWindow + x.size <= BufferSize
      /\ Free(r) + x.window <= BufferSize
  <2>1. /\ Total(Sizes(toR)) = x.size + Total(Sizes(Tail(toR))) /\ Total(Windows(toR)) = x.window + Total(Windows(Tail(toR)))
        /\ Total(Sizes(Tail(toR))) \in Nat /\ Total(Windows(Tail(toR))) \in Nat
    BY <1>2, AmountsTail, AmountsType
  <2>2. /\ Total(Sizes(toS)) \in Nat /\ Total(Windows(toS)) \in Nat
        /\ Free(r) \in Nat /\ Free(s) \in Nat /\ Total(r.received) \in Nat /\ Total(s.received) \in Nat
        /\ r.releasedWindow \in Nat /\ s.releasedWindow \in Nat /\ BufferSize \in Nat
    BY AmountsType, MemberFacts, SizeFacts
  <2>3. Conserved(r, s, toR, toS) /\ Conserved(s, r, toS, toR)
    BY DEF SharedInv
  <2> HIDE DEF x
  <2> QED
    BY <1>2, <2>1, <2>2, <2>3, ConservedFits
<1>4. Plus(r.releasedWindow, x.size) = r.releasedWindow + x.size /\ Plus(r.releasedWindow, x.size) \in Uint16
  <2>1. PICK a \in Uint16, b \in Uint16 : a = r.releasedWindow /\ b = x.size
    BY <1>2, MemberFacts
  <2>2. a + b < Word
    BY <1>2, <1>3, <2>1, SizeFacts, WordType, SMTT(30) DEF Uint16
  <2>3. Plus(a, b) = a + b /\ Plus(a, b) \in Uint16
    BY <2>2, Uint16Facts
  <2> QED
    BY <2>1, <2>3
<1>5. m \in Record
  <2>1. Plus(r.otherAvailableWindow, x.window) \in Uint16
    BY <1>2, MemberFacts, Uint16Facts
  <2> QED
    BY <1>4, <2>1 DEF Record
<1>6. /\ m.releasedWindow = Plus(r.releasedWindow, x.size) /\ m.otherAvailableWindow = Plus(r.otherAvailableWindow, x.window)
      /\ m.received = r.received /\ m.reading = r.reading
      /\ m.state = r.state /\ m.sending = r.sending /\ m.encodedSize = r.encodedSize /\ m.requestedSize = r.requestedSize
      /\ m.initialized = r.initialized /\ m.sendInitResponse = r.sendInitResponse
      /\ m.granting = r.granting /\ m.sentInitResponse = r.sentInitResponse
      /\ m.requestingInitialization = r.requestingInitialization
  BY DEF Record
<1> HIDE DEF m, x
<1>7. Free(m) = Free(r) + Given(x)
  <2>1. Counted(m) = Counted(r)
    BY <1>6 DEF Counted
  <2>2. Minus(r.otherAvailableWindow, Counted(r)) + x.window < Word
    <3>1. Free(r) = Minus(r.otherAvailableWindow, Counted(r)) /\ Free(r) \in Nat
      BY MemberFacts DEF Free
    <3>2. Free(r) + x.window < Word
      BY <1>2, <1>3, <3>1, SizeFacts, WordType
    <3> QED
      BY <3>1, <3>2
  <2>3. Minus(Plus(r.otherAvailableWindow, x.window), Counted(r)) = Minus(r.otherAvailableWindow, Counted(r)) + x.window
    BY <1>2, <2>2, MemberFacts, PlusMinus
  <2> QED
    BY <1>2, <1>6, <2>1, <2>3 DEF Free
<1>8. Ready(m)
  <2>1. Ready(r)
    BY LocalReady
  <2>2. CASE ~r.sending
    BY <1>6, <2>1, <2>2 DEF Ready
  <2>3. CASE r.sending /\ r.encodedSize # NoSize
    BY <1>6, <2>1, <2>3 DEF Ready, Writing
  <2>4. CASE r.sending /\ r.encodedSize = NoSize
    <3>1. r.state = "sendingMessage" /\ r.requestedSize # NoSize /\ r.requestedSize <= r.otherAvailableWindow
      BY <2>1, <2>4 DEF Ready, Writing
    <3>2. Counted(r) = 0 /\ Counted(m) = 0
      BY <1>6, <2>4, <3>1 DEF Counted, NoSize
    <3>3. Minus(r.otherAvailableWindow, 0) = r.otherAvailableWindow /\ Minus(m.otherAvailableWindow, 0) = m.otherAvailableWindow
      BY <1>5, MemberFacts, MinusZero
    <3>4. Free(r) = r.otherAvailableWindow /\ Free(m) = m.otherAvailableWindow
      BY <1>6, <3>2, <3>3 DEF Free
    <3>5. r.requestedSize \in Nat
      BY Fits DEF Record, NoSize
    <3>6. r.requestedSize <= m.otherAvailableWindow
      BY <1>2, <1>7, <3>1, <3>4, <3>5, MemberFacts, SMTT(30)
    <3> QED
      BY <1>6, <2>1, <2>4, <3>1, <3>6 DEF Ready, Writing
  <2> QED
    BY <2>2, <2>3, <2>4
<1>9. Total(m.received) + m.releasedWindow = Total(r.received) + r.releasedWindow + Taken(x)
  BY <1>2, <1>4, <1>6, MemberFacts, SMTT(30)
<1>10. SharedInv(p, m, s, Tail(toR), toS)
  BY <1>5, <1>6, <1>7, <1>9, SharedReceived DEF x
<1>11. Tail(toR) \in Seq(Packets)
  BY AmountsTail
<1> QED
  BY <1>1, <1>5, <1>8, <1>10, <1>11, NextState DEF Kept, x

\* InitResponse: the peer that started may send as much as the other one's buffer holds, which has
\* received nothing yet. The response is the first that takes room in its own.
LEMMA ResponseReceived ==
    ASSUME Assumptions, NEW p, p = Starter, NEW r \in Record, NEW s \in Record,
           NEW toR \in Seq(Packets), NEW toS \in Seq(Packets),
           LocalInv(r), SharedInv(p, r, s, toR, toS), Answered(r, s, toR, toS)
    PROVE  Kept(p, SetNextState(ReceivedInitResponse(r, Head(toR))), s, Tail(toR), toS)
<1> DEFINE x == Head(toR)
           m == [r EXCEPT !.otherAvailableWindow = BufferSize, !.releasedWindow = ReleaseSize,
                          !.maxUsableBufferSize = BufferSize, !.initialized = TRUE]
<1>1. /\ x = Response /\ toR # <<>> /\ toS = <<>> /\ Ordinary(Tail(toR)) /\ ~r.initialized /\ s.initialized
      /\ s.granting = NoSize
  BY DEF Answered
<1>2. ~r.sentInitResponse /\ ~r.requestingInitialization /\ r.granting = NoSize
  BY DEF SharedInv, HandshakeInv
<1>3. ReceivedInitResponse(r, x) = m
  <2>1. Least(BufferSize, BufferSize) = BufferSize
    BY DEF Least
  <2> DEFINE a == [r EXCEPT !.otherAvailableWindow = x.window, !.releasedWindow = x.size]
  <2>2. ReceivedInitResponse(r, x) = ReceivedInitialize(a)
    BY <1>2 DEF ReceivedInitResponse
  <2>3. a.otherAvailableWindow = BufferSize
    BY <1>1, ResponseFacts DEF Record
  <2>4. ReceivedInitialize(a) = [a EXCEPT !.maxUsableBufferSize = BufferSize, !.initialized = TRUE]
    BY <2>1, <2>3 DEF ReceivedInitialize
  <2>5. [a EXCEPT !.maxUsableBufferSize = BufferSize, !.initialized = TRUE] = m
    BY <1>1, ResponseFacts DEF Record
  <2> QED
    BY <2>2, <2>4, <2>5
<1>4. m \in Record
  BY Fits DEF Record
<1>5. /\ m.releasedWindow = ReleaseSize /\ m.otherAvailableWindow = BufferSize /\ m.initialized = TRUE
      /\ m.received = r.received /\ m.reading = r.reading
      /\ m.state = r.state /\ m.sending = r.sending /\ m.encodedSize = r.encodedSize
      /\ m.sendInitResponse = r.sendInitResponse
      /\ m.granting = r.granting /\ m.sentInitResponse = r.sentInitResponse
      /\ m.requestingInitialization = r.requestingInitialization
  BY DEF Record
<1> HIDE DEF m
<1>6. /\ r.state = "sendingInit" /\ (r.sending <=> r.encodedSize # 0) /\ r.received = <<>> /\ ~r.reading
      /\ r.releasedWindow = 0 /\ ~r.sendInitResponse /\ Free(r) = BufferSize
  BY <1>1, FreshFacts
<1>7. Ready(m)
  BY <1>5, <1>6 DEF Ready, Writing, NoSize
<1>8. Free(m) = BufferSize
  <2>1. Counted(m) = 0
    BY <1>5, <1>6 DEF Counted
  <2>2. Minus(BufferSize, 0) = BufferSize
    BY SizeFacts, Uint16Facts
  <2> QED
    BY <1>5, <2>1, <2>2 DEF Free
<1>9. /\ Total(Sizes(toR)) = ReleaseSize + Total(Sizes(Tail(toR))) /\ Total(Windows(toR)) = 0 + Total(Windows(Tail(toR)))
      /\ Total(Sizes(Tail(toR))) \in Nat /\ Total(Windows(Tail(toR))) \in Nat /\ Tail(toR) \in Seq(Packets)
  BY <1>1, AmountsTail, AmountsType, ResponseFacts
<1>10. /\ Free(r) + Total(Sizes(toS)) + Total(s.received) + s.releasedWindow + Total(Windows(toR)) = BufferSize
       /\ Free(s) + Total(Sizes(toR)) + Total(r.received) + r.releasedWindow + Total(Windows(toS)) = BufferSize
  BY DEF SharedInv, Conserved
<1>11. Conserved(m, s, Tail(toR), toS)
  <2>1. Free(m) + Total(Sizes(toS)) + Total(s.received) + s.releasedWindow + Total(Windows(Tail(toR))) = BufferSize
    BY <1>6, <1>8, <1>9, <1>10
  <2> QED
    BY <2>1 DEF Conserved
<1>12. Conserved(s, m, toS, Tail(toR))
  <2>1. /\ Conserved(r, s, toR, toS) /\ Conserved(s, r, toS, toR)
    BY DEF SharedInv
  <2>2. Total(m.received) + m.releasedWindow = Total(r.received) + r.releasedWindow + ReleaseSize
    BY <1>5, <1>6, MemberFacts, SizeFacts
  <2>3. Free(m) = Free(r) + 0
    BY <1>6, <1>8, SizeFacts
  <2>4. /\ Free(r) \in Nat /\ Free(s) \in Nat /\ Total(Sizes(toS)) \in Nat /\ Total(Windows(toS)) \in Nat
        /\ Total(r.received) \in Nat /\ Total(s.received) \in Nat /\ Total(m.received) \in Nat
        /\ r.releasedWindow \in Nat /\ s.releasedWindow \in Nat /\ m.releasedWindow \in Nat
        /\ ReleaseSize \in Nat /\ 0 \in Nat
    BY <1>4, MemberFacts, AmountsType, SizeFacts
  <2> QED
    BY <1>9, <2>1, <2>2, <2>3, <2>4, ConservedReceived
<1>13. HandshakeInv(m, s, Tail(toR), toS)
  <2>1. Ordinary(toS)
    BY <1>1 DEF Ordinary
  <2>2. Done(m, s, Tail(toR), toS)
    BY <1>1, <1>5, <2>1 DEF Done
  <2> QED
    BY <1>2, <1>5, <2>2 DEF HandshakeInv
<1>14. SharedInv(p, m, s, Tail(toR), toS)
  BY <1>11, <1>12, <1>13 DEF SharedInv
<1> QED
  BY <1>3, <1>4, <1>7, <1>9, <1>14, NextState DEF Kept

\* Init: it is granted at once, or is to be granted later.
LEMMA InitReceived ==
    ASSUME Assumptions, NEW p, p # Starter, NEW r \in Record, NEW s \in Record,
           NEW toR \in Seq(Packets), NEW toS \in Seq(Packets),
           LocalInv(r), LocalInv(s), SharedInv(p, r, s, toR, toS), InitSent(s, r, toS, toR), toR = <<InitPacket>>
    PROVE  Kept(p, SetNextState(ReceivedInit(p, r, InitPacket)), s, <<>>, toS)
<1>1. InitPacket.window = BufferSize
  BY ResponseFacts
<1>2. CASE p \notin Delayers
  <2>1. ReceivedInit(p, r, InitPacket) = InitializationGranted(r, BufferSize)
    BY <1>1, <1>2 DEF ReceivedInit
  <2> QED
    BY <2>1, Granted DEF Kept
<1>3. CASE p \in Delayers
  <2> DEFINE m == [r EXCEPT !.requestingInitialization = TRUE, !.granting = BufferSize]
  <2>1. ReceivedInit(p, r, InitPacket) = m
    BY <1>1, <1>3 DEF ReceivedInit
  <2>2. m \in Record
    BY Fits DEF Record
  <2>3. /\ m.granting = BufferSize /\ m.initialized = r.initialized
        /\ m.received = r.received /\ m.reading = r.reading
        /\ m.state = r.state /\ m.sending = r.sending /\ m.encodedSize = r.encodedSize
        /\ m.sendInitResponse = r.sendInitResponse /\ m.releasedWindow = r.releasedWindow
    BY DEF Record
  <2> HIDE DEF m
  <2>4. ~r.initialized /\ ~r.sending /\ ~s.initialized /\ toS = <<>>
    BY DEF InitSent
  <2>5. SetNextState(m) = m /\ Settled(m) = m /\ Written(m, toS) = toS
    BY <2>3, <2>4 DEF SetNextState, Settled, Written, WritesAtOnce
  <2>6. LocalInv(m)
    BY <2>3, <2>4 DEF LocalInv, Fresh
  <2>7. Total(Sizes(toR)) = 0 /\ Total(Windows(toR)) = 0
    <3>1. toR # <<>> /\ Tail(toR) = <<>> /\ Head(toR) = InitPacket
      BY ResponseFacts
    <3> QED
      <4>1. Total(Sizes(Tail(toR))) = 0 /\ Total(Windows(Tail(toR))) = 0
        BY <3>1, AmountsEmpty
      <4>2. Taken(Head(toR)) = 0 /\ Given(Head(toR)) = 0
        BY <3>1, ResponseFacts
      <4>3. Total(Sizes(toR)) = 0 + 0 /\ Total(Windows(toR)) = 0 + 0
        BY <3>1, <4>1, <4>2, AmountsTail
      <4> QED
        BY <4>3
  <2>8. Free(m) = Free(r)
    BY <2>3, <2>4 DEF Free
  <2>9. Conserved(m, s, <<>>, toS) /\ Conserved(s, m, toS, <<>>)
    <3>1. /\ Free(r) + Total(Sizes(toS)) + Total(s.received) + s.releasedWindow + Total(Windows(toR)) = BufferSize
          /\ Free(s) + Total(Sizes(toR)) + Total(r.received) + r.releasedWindow + Total(Windows(toS)) = BufferSize
      BY DEF SharedInv, Conserved
    <3> QED
      BY <2>3, <2>7, <2>8, <3>1, AmountsEmpty DEF Conserved
  <2>10. HandshakeInv(s, m, toS, <<>>)
    <3>1. ~s.sentInitResponse /\ ~s.requestingInitialization /\ s.granting = NoSize
      BY DEF SharedInv, HandshakeInv
    <3>2. InitSent(s, m, toS, <<>>)
      BY <2>3, <2>4 DEF InitSent
    <3> QED
      BY <3>1, <3>2 DEF HandshakeInv
  <2>11. SharedInv(p, m, s, <<>>, toS)
    BY <2>9, <2>10 DEF SharedInv
  <2> QED
    BY <2>1, <2>2, <2>5, <2>6, <2>11 DEF Kept
<1> QED
  BY <1>2, <1>3

\* Whatever is received, nothing is lost.
LEMMA ReceivedKept ==
    ASSUME Assumptions, NEW p, NEW r \in Record, NEW s \in Record, NEW toR \in Seq(Packets), NEW toS \in Seq(Packets),
           LocalInv(r), LocalInv(s), SharedInv(p, r, s, toR, toS), toR # <<>>
    PROVE  Kept(p, Received(p, r, Head(toR)), s, Tail(toR), toS)
<1>1. CASE p # Starter /\ InitSent(s, r, toS, toR) /\ toR = <<InitPacket>>
  <2>1. Head(toR) = InitPacket /\ Tail(toR) = <<>> /\ InitPacket.operation = "init"
    BY <1>1, ResponseFacts
  <2>2. Received(p, r, InitPacket) = SetNextState(ReceivedInit(p, r, InitPacket))
    BY <2>1 DEF Received
  <2> QED
    BY <1>1, <2>1, <2>2, InitReceived
<1>2. CASE p = Starter /\ Answered(r, s, toR, toS)
  <2>1. Head(toR).operation = "initResponse"
    BY <1>2, ResponseFacts DEF Answered
  <2>2. Received(p, r, Head(toR)) = SetNextState(ReceivedInitResponse(r, Head(toR)))
    BY <2>1 DEF Received
  <2> QED
    BY <1>2, <2>2, ResponseReceived
<1>3. CASE r.initialized /\ s.initialized /\ Ordinary(toR) /\ Ordinary(toS)
  <2>1. Usual(Head(toR))
    <3>1. Head(toR) = toR[1] /\ 1 \in 1 .. Len(toR)
      OBVIOUS
    <3> QED
      BY <1>3, <3>1 DEF Ordinary
  <2>2. CASE Head(toR).operation = "releaseWindow"
    <3>1. Received(p, r, Head(toR)) = SetNextState(ReceivedReleaseWindow(r, Head(toR)))
      BY <2>2 DEF Received
    <3> QED
      BY <1>3, <2>2, <3>1, ReleaseReceived
  <2>3. CASE Head(toR).operation = "message" /\ Head(toR).size \in MessageSizes
    <3>1. Received(p, r, Head(toR)) = SetNextState(SaveReceivedMessage(r, Head(toR)))
      BY <2>3 DEF Received
    <3> QED
      BY <1>3, <2>3, <3>1, MessageReceived
  <2> QED
    BY <2>1, <2>2, <2>3 DEF Usual
<1> QED
  BY <1>1, <1>2, <1>3, FirstPacket

-----------------------------------------------------------------------------
(* Steps *)

\* There are two peers, one of which starts.
LEMMA TwoPeers ==
    ASSUME Assumptions, OneStarts, NEW p \in Peers
    PROVE  /\ Other(p) \in Peers /\ Other(p) # p /\ Other(Other(p)) = p /\ \A q \in Peers : q = p \/ q = Other(p)
           /\ Starter \in Peers /\ Initiators = {Starter}
           /\ p = Starter <=> Other(p) # Starter
<1>1. PICK a, b \in Peers : a # b /\ Peers = {a, b}
  BY DEF Assumptions, PeersAssumption
<1>2. /\ Other(p) \in Peers /\ Other(p) # p
  BY <1>1 DEF Other
<1>3. Other(Other(p)) \in Peers /\ Other(Other(p)) # Other(p)
  BY <1>1, <1>2 DEF Other
<1>4. Starter \in Peers /\ Initiators = {Starter}
  BY DEF OneStarts, Starter
<1> QED
  BY <1>1, <1>2, <1>3, <1>4

\* What a step of p must keep.
LEMMA PeerStep ==
    ASSUME Assumptions, OneStarts, IInv, NEW p \in Peers,
           NEW m \in Record, LocalInv(m), NEW toR \in Seq(Packets), NEW toS \in Seq(Packets),
           SharedInv(p, m, peer[Other(p)], toR, toS),
           peer' = [peer EXCEPT ![p] = m], line' = [line EXCEPT ![p] = toR, ![Other(p)] = toS], UNCHANGED restarts
    PROVE  IInv'
<1> DEFINE q == Other(p)
<1>1. q \in Peers /\ q # p /\ Other(q) = p /\ (\A a \in Peers : a = p \/ a = q) /\ (p = Starter <=> q # Starter)
  BY TwoPeers
<1>2. peer \in [Peers -> Record] /\ line \in [Peers -> Seq(Packets)] /\ restarts \in 0 .. MaxRestarts
  BY DEF IInv, TypeOK, Record, Capacity
<1> HIDE DEF q
<1>3. /\ peer' \in [Peers -> Record] /\ line' \in [Peers -> Seq(Packets)] /\ restarts' \in 0 .. MaxRestarts
      /\ peer'[p] = m /\ peer'[q] = peer[q] /\ line'[p] = toR /\ line'[q] = toS
  BY <1>1, <1>2 DEF q
<1>4. TypeOK'
  BY <1>3 DEF TypeOK, Record, Capacity
<1>5. SharedInv(p, m, peer[q], toR, toS) /\ SharedInv(q, peer[q], m, toS, toR)
  <2>1. SharedInv(p, m, peer[q], toR, toS)
    BY DEF q
  <2> QED
    BY <1>1, <2>1 DEF SharedInv
<1>6. LocalInv(peer[q])
  BY <1>1 DEF IInv
<1>7. ASSUME NEW a \in Peers
      PROVE  LocalInv(peer'[a]) /\ SharedInv(a, peer'[a], peer'[Other(a)], line'[a], line'[Other(a)])
  <2>1. CASE a = p
    BY <1>3, <1>5, <2>1 DEF q
  <2>2. CASE a = q
    BY <1>1, <1>3, <1>5, <1>6, <2>2
  <2> QED
    BY <1>1, <2>1, <2>2
<1> QED
  BY <1>4, <1>7 DEF IInv

\* The same of a step that ends with SetNextState, or that does not change what is being sent.
LEMMA BecomeStep ==
    ASSUME Assumptions, OneStarts, IInv, NEW p \in Peers, NEW n, NEW toR \in Seq(Packets),
           Kept(p, n, peer[Other(p)], toR, line[Other(p)]), Become(p, n, toR), UNCHANGED restarts
    PROVE  IInv'
<1>1. peer' = [peer EXCEPT ![p] = Settled(n)]
  BY DEF Become, Settled
<1>2. line' = [line EXCEPT ![p] = toR, ![Other(p)] = Written(n, line[Other(p)])]
  <2>1. line \in [Peers -> Seq(Packets)] /\ Other(p) \in Peers /\ Other(p) # p
    BY TwoPeers DEF IInv, TypeOK
  <2> QED
    BY <2>1 DEF Become, Written
<1> QED
  BY <1>1, <1>2, PeerStep DEF Kept

\* The invariant, as a step of p finds it.
LEMMA PeerFacts ==
    ASSUME Assumptions, OneStarts, IInv, NEW p \in Peers
    PROVE  /\ peer[p] \in Record /\ peer[Other(p)] \in Record
           /\ line[p] \in Seq(Packets) /\ line[Other(p)] \in Seq(Packets)
           /\ LocalInv(peer[p]) /\ LocalInv(peer[Other(p)])
           /\ SharedInv(p, peer[p], peer[Other(p)], line[p], line[Other(p)])
<1>1. Other(p) \in Peers
  BY TwoPeers
<1>2. peer \in [Peers -> Record] /\ line \in [Peers -> Seq(Packets)]
  BY DEF IInv, TypeOK, Record, Capacity
<1> QED
  BY <1>1, <1>2 DEF IInv

\* A packet is received.
LEMMA ReceiveMessageStep ==
    ASSUME Assumptions, OneStarts, IInv, NEW p \in Peers, ReceiveMessage(p)
    PROVE  IInv'
<1>1. line[p] # <<>> /\ Become(p, Received(p, peer[p], Head(line[p])), Tail(line[p])) /\ UNCHANGED restarts
  BY DEF ReceiveMessage
<1>2. Kept(p, Received(p, peer[p], Head(line[p])), peer[Other(p)], Tail(line[p]), line[Other(p)])
  BY <1>1, PeerFacts, ReceivedKept
<1>3. Tail(line[p]) \in Seq(Packets)
  BY <1>1, PeerFacts, AmountsTail
<1> QED
  BY <1>1, <1>2, <1>3, BecomeStep

\* The observer requests to send, which starts at once when nothing is being sent.
LEMMA RequestSendMessageStep ==
    ASSUME Assumptions, OneStarts, IInv, NEW p \in Peers, NEW size \in MessageSizes, RequestSendMessage(p, size)
    PROVE  IInv'
<1> DEFINE r == peer[p]
           m == [r EXCEPT !.requestedSendMessageSize = size]
<1>1. r \in Record /\ LocalInv(r) /\ line[p] \in Seq(Packets)
  BY PeerFacts
<1>2. r.initialized /\ UNCHANGED restarts
      /\ Become(p, IF r.state = "operational" THEN SetNextState(m) ELSE m, line[p])
  BY DEF RequestSendMessage, Requested
<1> HIDE DEF r
<1>3. m \in Record
  BY <1>1 DEF Record
<1>4. /\ m.initialized = r.initialized
      /\ m.received = r.received /\ m.reading = r.reading /\ m.requestedSize = r.requestedSize
      /\ m.state = r.state /\ m.sending = r.sending /\ m.encodedSize = r.encodedSize
      /\ m.sendInitResponse = r.sendInitResponse /\ m.releasedWindow = r.releasedWindow
      /\ m.granting = r.granting /\ m.sentInitResponse = r.sentInitResponse
      /\ m.requestingInitialization = r.requestingInitialization /\ m.otherAvailableWindow = r.otherAvailableWindow
  BY <1>1 DEF Record
<1> HIDE DEF m
<1>5. Become(p, SetNextState(m), line[p])
  <2>1. CASE r.state = "operational"
    BY <1>2, <2>1
  <2>2. CASE r.state # "operational"
    <3>1. m.sending
      BY <1>1, <1>2, <1>4, <2>2 DEF LocalInv, Writing
    <3>2. SetNextState(m) = m
      BY <3>1 DEF SetNextState
    <3> QED
      BY <1>2, <2>2, <3>2
  <2> QED
    BY <2>1, <2>2
<1>6. Ready(m)
  BY <1>1, <1>2, <1>4, LocalReady DEF Ready, Writing
<1>7. SharedInv(p, m, peer[Other(p)], line[p], line[Other(p)])
  <2>1. Free(m) = Free(r)
    BY <1>4 DEF Free, Counted
  <2>2. SharedInv(p, r, peer[Other(p)], line[p], line[Other(p)])
    BY PeerFacts DEF r
  <2> QED
    BY <1>2, <1>4, <2>1, <2>2, SharedSame
<1>8. Kept(p, SetNextState(m), peer[Other(p)], line[p], line[Other(p)])
  BY <1>3, <1>6, <1>7, PeerFacts, NextState DEF Kept
<1> QED
  BY <1>1, <1>2, <1>5, <1>8, BecomeStep

\* The observer has written its message, for which room was kept.
LEMMA SendMessageStep ==
    ASSUME Assumptions, OneStarts, IInv, NEW p \in Peers, NEW size \in MessageSizes, SendMessage(p, size)
    PROVE  IInv'
<1> DEFINE r == peer[p]
           m == [r EXCEPT !.encodedSize = size, !.requestedSize = NoSize]
           x == Packet("message", 0, size)
           q == Other(p)
<1>1. r \in Record /\ LocalInv(r) /\ line[p] \in Seq(Packets) /\ line[q] \in Seq(Packets) /\ q \in Peers /\ q # p
  BY PeerFacts, TwoPeers
<1>2. /\ r.state = "sendingMessage" /\ r.encodedSize = 0 /\ size <= r.requestedSize /\ UNCHANGED restarts
      /\ peer' = [peer EXCEPT ![p].encodedSize = size, ![p].requestedSize = NoSize]
      /\ line' = [line EXCEPT ![q] = Append(@, x)]
  BY DEF SendMessage, NoSize
<1>3. peer' = [peer EXCEPT ![p] = m]
  <2>1. peer \in [Peers -> Record]
    BY DEF IInv, TypeOK, Record, Capacity
  <2> QED
    BY <1>2, <2>1 DEF Record
<1>4. line' = [line EXCEPT ![p] = line[p], ![q] = Append(line[q], x)]
  <2>1. line \in [Peers -> Seq(Packets)]
    BY DEF IInv, TypeOK
  <2> QED
    BY <1>1, <1>2, <2>1
<1> HIDE DEF r, q
<1>5. m \in Record
  BY <1>1, Fits DEF Record
<1>6. /\ m.initialized = r.initialized /\ m.encodedSize = size
      /\ m.received = r.received /\ m.reading = r.reading
      /\ m.state = r.state /\ m.sending = r.sending
      /\ m.sendInitResponse = r.sendInitResponse /\ m.releasedWindow = r.releasedWindow
      /\ m.granting = r.granting /\ m.sentInitResponse = r.sentInitResponse
      /\ m.requestingInitialization = r.requestingInitialization /\ m.otherAvailableWindow = r.otherAvailableWindow
  BY <1>1 DEF Record
<1>7. x \in Packets /\ x.operation = "message" /\ x.size = size /\ Given(x) = 0 /\ Usual(x)
  <2>1. x \in Packets /\ x.operation = "message" /\ x.size = size
    BY SizeFacts DEF Packet, Packets, Operations
  <2> QED
    BY <2>1 DEF Given, Usual
<1> HIDE DEF m, x
<1>8. r.initialized /\ r.sending /\ r.requestedSize # 0 /\ r.requestedSize <= r.otherAvailableWindow
  BY <1>1, <1>2 DEF LocalInv, Writing, Fresh, NoSize
<1>9. size \in Nat /\ size # 0 /\ size <= r.otherAvailableWindow /\ size \in Uint16
  <2>1. size \in Nat /\ size # 0 /\ size \in Uint16
    BY SizeFacts, Fits
  <2>2. r.requestedSize \in Nat /\ r.otherAvailableWindow \in Nat
    BY <1>1, Fits DEF Record, NoSize, Uint16
  <2> QED
    BY <1>2, <1>8, <2>1, <2>2
<1>10. LocalInv(m)
  BY <1>1, <1>2, <1>6, <1>8, <1>9 DEF LocalInv, Writing, NoSize
<1>11. Free(m) + x.size = Free(r)
  <2>1. Counted(r) = 0 /\ Counted(m) = size
    BY <1>2, <1>6 DEF Counted
  <2>2. /\ Minus(r.otherAvailableWindow, 0) = r.otherAvailableWindow
        /\ Minus(r.otherAvailableWindow, size) = r.otherAvailableWindow - size
        /\ r.otherAvailableWindow \in Nat
    <3>1. PICK a \in Uint16 : a = r.otherAvailableWindow
      BY <1>1, MemberFacts
    <3>2. Minus(a, 0) = a
      BY MinusZero
    <3>3. Minus(a, size) = a - size /\ a \in Nat
      BY <1>9, <3>1, Uint16Facts
    <3> QED
      BY <3>1, <3>2, <3>3
  <2>3. Free(r) = r.otherAvailableWindow /\ Free(m) = r.otherAvailableWindow - size
    BY <1>6, <1>8, <2>1, <2>2 DEF Free
  <2> QED
    BY <1>7, <1>9, <2>2, <2>3
<1>12. m.releasedWindow + Given(x) = r.releasedWindow
  BY <1>1, <1>6, <1>7, MemberFacts
<1>13. SharedInv(p, r, peer[q], line[p], line[q]) /\ peer[q] \in Record
  BY PeerFacts DEF r, q
<1>14. SharedInv(p, m, peer[q], line[p], Append(line[q], x))
  BY <1>1, <1>5, <1>6, <1>7, <1>8, <1>11, <1>12, <1>13, SharedWritten
<1>15. Append(line[q], x) \in Seq(Packets)
  BY <1>1, <1>7
<1> QED
  BY <1>1, <1>2, <1>3, <1>4, <1>5, <1>10, <1>14, <1>15, PeerStep DEF q

\* A packet that was sent is subtracted from the window, in which it was counted already.
LEMMA MessageSentStep ==
    ASSUME Assumptions, OneStarts, IInv, NEW p \in Peers, MessageSent(p)
    PROVE  IInv'
<1> DEFINE r == peer[p]
           o == IF r.state = "sendingInit" THEN r.otherAvailableWindow ELSE Minus(r.otherAvailableWindow, r.encodedSize)
           m == [r EXCEPT !.sending = FALSE, !.encodedSize = NoSize, !.otherAvailableWindow = o]
<1>1. r \in Record /\ LocalInv(r) /\ line[p] \in Seq(Packets)
  BY PeerFacts
<1>2. r.encodedSize # 0 /\ UNCHANGED restarts /\ Become(p, SetNextState(m), line[p])
  <2>1. m = IF r.state = "sendingInit" THEN [r EXCEPT !.sending = FALSE, !.encodedSize = NoSize]
            ELSE [[r EXCEPT !.sending = FALSE, !.encodedSize = NoSize] EXCEPT
                     !.otherAvailableWindow = Minus(@, r.encodedSize)]
    BY <1>1 DEF Record
  <2> HIDE DEF m, o
  <2> QED
    BY <2>1 DEF MessageSent, NoSize
<1> HIDE DEF r
<1>3. /\ Minus(r.otherAvailableWindow, 0) = r.otherAvailableWindow
      /\ Minus(r.otherAvailableWindow, r.encodedSize) \in Uint16
  <2>1. r.otherAvailableWindow \in Uint16 /\ r.encodedSize \in Uint16 /\ r.otherAvailableWindow \in Nat
    BY <1>1, Fits DEF Record, Uint16
  <2> QED
    <3>1. PICK a \in Uint16, b \in Uint16 : a = r.otherAvailableWindow /\ b = r.encodedSize
      BY <2>1
    <3>2. Minus(a, 0) = a /\ Minus(a, b) \in Uint16
      BY MinusZero, Uint16Facts
    <3> QED
      BY <3>1, <3>2
<1>4. o \in Uint16 /\ o = Minus(r.otherAvailableWindow, Counted(r))
  BY <1>1, <1>3, MemberFacts DEF Counted
<1>5. m \in Record
  BY <1>1, <1>4, Fits, ZenonT(60) DEF Record, NoSize
<1>6. /\ m.initialized = r.initialized /\ m.encodedSize = 0 /\ m.sending = FALSE /\ m.otherAvailableWindow = o
      /\ m.received = r.received /\ m.reading = r.reading /\ m.state = r.state
      /\ m.sendInitResponse = r.sendInitResponse /\ m.releasedWindow = r.releasedWindow
      /\ m.granting = r.granting /\ m.sentInitResponse = r.sentInitResponse
      /\ m.requestingInitialization = r.requestingInitialization
  BY <1>1 DEF Record, NoSize
<1> HIDE DEF m, o
<1>7. Free(m) = Free(r)
  <2>1. Counted(m) = 0
    BY <1>6 DEF Counted
  <2>2. o \in Nat /\ Minus(o, 0) = o
    BY <1>4, Uint16Facts, SizeFacts DEF Uint16
  <2> QED
    BY <1>4, <1>6, <2>1, <2>2 DEF Free
<1>8. SharedInv(p, r, peer[Other(p)], line[p], line[Other(p)])
  BY PeerFacts DEF r
<1>9. CASE r.initialized
  <2>1. Ready(m)
    BY <1>1, <1>6, <1>9 DEF Ready, LocalInv, NoSize
  <2>2. SharedInv(p, m, peer[Other(p)], line[p], line[Other(p)])
    BY <1>6, <1>7, <1>8, <1>9, SharedSame
  <2>3. Kept(p, SetNextState(m), peer[Other(p)], line[p], line[Other(p)])
    BY <1>5, <2>1, <2>2, PeerFacts, NextState DEF Kept
  <2> QED
    BY <1>1, <1>2, <2>3, BecomeStep
<1>10. CASE ~r.initialized
  <2>1. SetNextState(m) = m /\ Settled(m) = m /\ Written(m, line[Other(p)]) = line[Other(p)]
    BY <1>6, <1>10 DEF SetNextState, Settled, Written, WritesAtOnce
  <2>2. LocalInv(m)
    BY <1>1, <1>6, <1>10 DEF LocalInv, Fresh, NoSize
  <2>3. p = Starter
    <3>1. r.sending
      BY <1>1, <1>2, <1>10, FreshFacts
    <3>2. p # Starter => HandshakeInv(peer[Other(p)], r, line[Other(p)], line[p])
      BY <1>8 DEF SharedInv
    <3> QED
      BY <1>10, <3>1, <3>2 DEF HandshakeInv, InitSent, Answered, Done
  <2>4. SharedInv(p, m, peer[Other(p)], line[p], line[Other(p)])
    <3>1. HandshakeInv(r, peer[Other(p)], line[p], line[Other(p)])
      BY <1>8, <2>3 DEF SharedInv
    <3>2. HandshakeInv(m, peer[Other(p)], line[p], line[Other(p)])
      BY <1>6, <3>1 DEF HandshakeInv, InitSent, Answered, Done
    <3>3. Conserved(m, peer[Other(p)], line[p], line[Other(p)]) /\ Conserved(peer[Other(p)], m, line[Other(p)], line[p])
      BY <1>6, <1>7, <1>8 DEF SharedInv, Conserved
    <3> QED
      BY <2>3, <3>2, <3>3 DEF SharedInv
  <2>5. Kept(p, SetNextState(m), peer[Other(p)], line[p], line[Other(p)])
    BY <1>5, <2>1, <2>2, <2>4, PeerFacts DEF Kept
  <2> QED
    BY <1>1, <1>2, <2>5, BecomeStep
<1> QED
  BY <1>9, <1>10

\* What the observer has read is no longer in the buffer, but to be released.
LEMMA ReleaseReaderStep ==
    ASSUME Assumptions, OneStarts, IInv, NEW p \in Peers, ReleaseReader(p)
    PROVE  IInv'
<1> DEFINE r == peer[p]
           s == peer[Other(p)]
           w == Plus(r.releasedWindow, Head(r.received))
           a == [r EXCEPT !.releasedWindow = w, !.received = Tail(r.received)]
           m == TryForwardReceivedMessage(a)
<1>1. /\ r \in Record /\ LocalInv(r) /\ s \in Record /\ line[p] \in Seq(Packets) /\ line[Other(p)] \in Seq(Packets)
      /\ SharedInv(p, r, s, line[p], line[Other(p)])
  BY PeerFacts
<1>2. r.reading /\ UNCHANGED restarts /\ Become(p, SetNextState(m), line[p])
  <2>1. a = [r EXCEPT !.releasedWindow = Plus(@, Head(r.received)), !.received = Tail(@)]
    BY <1>1 DEF Record
  <2> HIDE DEF a
  <2> QED
    BY <2>1 DEF ReleaseReader
<1> HIDE DEF r, s
<1>3. r.initialized /\ r.received # <<>>
  BY <1>1, <1>2 DEF LocalInv, Fresh
<1>4. /\ Head(r.received) \in MessageSizes /\ Tail(r.received) \in Seq(MessageSizes)
      /\ Total(r.received) = Head(r.received) + Total(Tail(r.received))
      /\ Total(Tail(r.received)) \in Nat /\ Head(r.received) \in Nat /\ Head(r.received) \in Uint16
  <2>1. r.received \in Seq(MessageSizes)
    BY <1>1 DEF Record
  <2>2. Head(r.received) \in MessageSizes /\ Tail(r.received) \in Seq(MessageSizes)
    BY <1>3, <2>1
  <2>3. r.received \in Seq(Nat)
    BY <1>1, MemberFacts
  <2>4. Total(r.received) = Head(r.received) + Total(Tail(r.received))
    BY <1>3, <2>3, TotalTail
  <2>5. Tail(r.received) \in Seq(Nat)
    BY <1>3, <2>3
  <2> QED
    BY <2>2, <2>4, <2>5, BytesFinite, Fits
<1>5. w = r.releasedWindow + Head(r.received) /\ w \in Uint16
  <2>1. /\ Total(Sizes(line[p])) \in Nat /\ Total(Windows(line[Other(p)])) \in Nat
        /\ Free(s) \in Nat /\ r.releasedWindow \in Nat /\ r.releasedWindow \in Uint16
    BY <1>1, AmountsType, MemberFacts
  <2>2. Free(s) + Total(Sizes(line[p])) + Total(r.received) + r.releasedWindow + Total(Windows(line[Other(p)])) = BufferSize
    BY <1>1 DEF SharedInv, Conserved
  <2>3. r.releasedWindow + Head(r.received) <= BufferSize
    BY <1>4, <2>1, <2>2, HeadFits
  <2>4. r.releasedWindow + Head(r.received) < Word
    <3>1. PICK i \in Nat, j \in Nat : i = r.releasedWindow /\ j = Head(r.received)
      BY <1>4, <2>1
    <3>2. i + j < Word
      BY <2>3, <3>1, SizeFacts, WordType
    <3> QED
      BY <3>1, <3>2
  <2> QED
    BY <1>4, <2>1, <2>4, Uint16Facts
<1> HIDE DEF w
<1>6. m = [r EXCEPT !.releasedWindow = w, !.received = Tail(r.received), !.reading = (Tail(r.received) # <<>>)]
  <2>1. a.received = Tail(r.received)
    BY <1>1 DEF Record
  <2>2. m = [a EXCEPT !.reading = (Tail(r.received) # <<>>)]
    BY <2>1 DEF TryForwardReceivedMessage
  <2> QED
    BY <1>1, <2>2 DEF Record
<1>7. m \in Record
  BY <1>1, <1>4, <1>5, <1>6, ZenonT(60) DEF Record
<1>8. /\ m.received = Tail(r.received) /\ (m.reading <=> Tail(r.received) # <<>>) /\ m.releasedWindow = w
      /\ m.initialized = r.initialized /\ m.requestedSize = r.requestedSize
      /\ m.state = r.state /\ m.sending = r.sending /\ m.encodedSize = r.encodedSize
      /\ m.sendInitResponse = r.sendInitResponse
      /\ m.granting = r.granting /\ m.sentInitResponse = r.sentInitResponse
      /\ m.requestingInitialization = r.requestingInitialization /\ m.otherAvailableWindow = r.otherAvailableWindow
  BY <1>1, <1>6, ZenonT(60) DEF Record
<1> HIDE DEF m, a
<1>9. Ready(m)
  BY <1>1, <1>3, <1>8, LocalReady DEF Ready, Writing
<1>10. SharedInv(p, m, s, line[p], line[Other(p)])
  <2>1. Free(m) = Free(r)
    BY <1>8 DEF Free, Counted
  <2>2. Total(m.received) + m.releasedWindow = Total(r.received) + r.releasedWindow
    <3>1. Total(Tail(r.received)) + (r.releasedWindow + Head(r.received)) = (Head(r.received) + Total(Tail(r.received))) + r.releasedWindow
      BY <1>1, <1>4, MemberFacts, HeadMoves, ZenonT(60)
    <3> QED
      BY <1>4, <1>5, <1>8, <3>1
  <2>3. Conserved(m, s, line[p], line[Other(p)])
    BY <1>1, <2>1 DEF SharedInv, Conserved
  <2>4. Conserved(s, m, line[Other(p)], line[p])
    <3>1. Free(s) + Total(Sizes(line[p])) + Total(r.received) + r.releasedWindow + Total(Windows(line[Other(p)])) = BufferSize
      BY <1>1 DEF SharedInv, Conserved
    <3>2. /\ Free(s) \in Nat /\ Total(Sizes(line[p])) \in Nat /\ Total(Windows(line[Other(p)])) \in Nat
          /\ Total(m.received) \in Nat /\ m.releasedWindow \in Nat /\ Total(r.received) \in Nat /\ r.releasedWindow \in Nat
      BY <1>1, <1>7, AmountsType, MemberFacts
    <3>3. Free(s) + Total(Sizes(line[p])) + Total(m.received) + m.releasedWindow + Total(Windows(line[Other(p)])) = BufferSize
      BY <2>2, <3>1, <3>2
    <3> QED
      BY <3>3 DEF Conserved
  <2>5. IF p = Starter THEN HandshakeInv(m, s, line[p], line[Other(p)]) ELSE HandshakeInv(s, m, line[Other(p)], line[p])
    <3>1. CASE p = Starter
      BY <1>1, <1>3, <1>8, <3>1 DEF SharedInv, HandshakeInv, InitSent, Answered, Done
    <3>2. CASE p # Starter
      BY <1>1, <1>3, <1>8, <3>2 DEF SharedInv, HandshakeInv, InitSent, Answered, Done
    <3> QED
      BY <3>1, <3>2
  <2> QED
    BY <2>3, <2>4, <2>5 DEF SharedInv
<1>11. Kept(p, SetNextState(m), s, line[p], line[Other(p)])
  BY <1>1, <1>7, <1>9, <1>10, NextState DEF Kept
<1> QED
  BY <1>1, <1>2, <1>11, BecomeStep DEF s

\* An initialization that was requested earlier is granted.
LEMMA GrantInitializationStep ==
    ASSUME Assumptions, OneStarts, IInv, NEW p \in Peers, GrantInitialization(p)
    PROVE  IInv'
<1> DEFINE r == peer[p]
           s == peer[Other(p)]
<1>1. /\ r \in Record /\ LocalInv(r) /\ s \in Record /\ LocalInv(s) /\ line[p] \in Seq(Packets) /\ line[Other(p)] \in Seq(Packets)
      /\ SharedInv(p, r, s, line[p], line[Other(p)])
  BY PeerFacts
<1>2. r.granting # NoSize /\ Become(p, InitializationGranted(r, r.granting), line[p]) /\ UNCHANGED restarts
  BY DEF GrantInitialization
<1>3. p # Starter /\ HandshakeInv(s, r, line[Other(p)], line[p])
  <2>1. p = Starter => HandshakeInv(r, s, line[p], line[Other(p)])
    BY <1>1 DEF SharedInv
  <2>2. p # Starter
    BY <1>2, <2>1 DEF HandshakeInv
  <2> QED
    BY <1>1, <2>2 DEF SharedInv
<1>4. InitSent(s, r, line[Other(p)], line[p]) /\ line[p] = <<>> /\ r.granting = BufferSize
  BY <1>2, <1>3 DEF HandshakeInv, InitSent, Answered, Done
<1>5. Kept(p, InitializationGranted(r, BufferSize), s, <<>>, line[Other(p)])
  BY <1>1, <1>3, <1>4, Granted DEF Kept
<1> QED
  BY <1>1, <1>2, <1>4, <1>5, BecomeStep

-----------------------------------------------------------------------------
(* Theorems *)

\* Nothing has been sent but the init packet, and the whole of both buffers is available.
LEMMA InitInvariant ==
    ASSUME Assumptions, OneStarts, Init
    PROVE  IInv
<1>1. Constructed \in Record /\ Waiting \in Record
  <2>1. <<>> \in Seq(MessageSizes)
    OBVIOUS
  <2> QED
    BY <2>1, Fits DEF Constructed, Waiting, Record, States, NoSize
<1>2. /\ LocalInv(Constructed) /\ LocalInv(Waiting)
      /\ ~Constructed.initialized /\ ~Waiting.initialized /\ ~Waiting.sending
      /\ Constructed.received = <<>> /\ Waiting.received = <<>> /\ Constructed.releasedWindow = 0 /\ Waiting.releasedWindow = 0
      /\ ~Constructed.sentInitResponse /\ ~Constructed.requestingInitialization
      /\ Constructed.granting = NoSize /\ Waiting.granting = NoSize
  BY SizeFacts DEF Constructed, Waiting, LocalInv, Fresh, NoSize
<1>3. /\ <<InitPacket>> \in Seq(Packets) /\ <<>> \in Seq(Packets)
      /\ Total(Sizes(<<InitPacket>>)) = 0 /\ Total(Windows(<<InitPacket>>)) = 0
  <2>1. <<InitPacket>> \in Seq(Packets) /\ Tail(<<InitPacket>>) = <<>> /\ Head(<<InitPacket>>) = InitPacket /\ <<InitPacket>> # <<>>
    BY ResponseFacts
  <2>2. Taken(InitPacket) = 0 /\ Given(InitPacket) = 0
    BY ResponseFacts
  <2>3. /\ Total(Sizes(<<InitPacket>>)) = Taken(InitPacket) + Total(Sizes(<<>>))
        /\ Total(Windows(<<InitPacket>>)) = Given(InitPacket) + Total(Windows(<<>>))
    BY <2>1, AmountsTail
  <2>4. Total(Sizes(<<InitPacket>>)) = 0 + 0 /\ Total(Windows(<<InitPacket>>)) = 0 + 0
    BY <2>2, <2>3, AmountsEmpty
  <2> QED
    BY <2>1, <2>4
<1>4. /\ Conserved(Constructed, Waiting, <<>>, <<InitPacket>>)
      /\ Conserved(Waiting, Constructed, <<InitPacket>>, <<>>)
  <2>1. Free(Constructed) = BufferSize /\ Free(Waiting) = BufferSize
    BY <1>2 DEF Free
  <2>2. BufferSize + 0 + 0 + 0 + 0 = BufferSize
    BY SizeFacts
  <2> QED
    BY <1>2, <1>3, <2>1, <2>2, AmountsEmpty, TotalEmpty DEF Conserved
<1>5. HandshakeInv(Constructed, Waiting, <<>>, <<InitPacket>>)
  BY <1>2 DEF HandshakeInv, InitSent
<1>6. ASSUME NEW p \in Peers
      PROVE  /\ peer[p] = IF p = Starter THEN Constructed ELSE Waiting
             /\ line[p] = IF p = Starter THEN <<>> ELSE <<InitPacket>>
  <2>1. Initiators = {Starter} /\ (p = Starter <=> Other(p) # Starter)
    BY TwoPeers
  <2> QED
    BY <2>1 DEF Init
<1>7. ASSUME NEW p \in Peers
      PROVE  LocalInv(peer[p]) /\ SharedInv(p, peer[p], peer[Other(p)], line[p], line[Other(p)])
  <2>1. Other(p) \in Peers /\ (p = Starter <=> Other(p) # Starter)
    BY TwoPeers
  <2>2. CASE p = Starter
    <3>1. peer[p] = Constructed /\ peer[Other(p)] = Waiting /\ line[p] = <<>> /\ line[Other(p)] = <<InitPacket>>
      BY <1>6, <2>1, <2>2
    <3> QED
      BY <1>2, <1>4, <1>5, <2>2, <3>1 DEF SharedInv
  <2>3. CASE p # Starter
    <3>1. peer[p] = Waiting /\ peer[Other(p)] = Constructed /\ line[p] = <<InitPacket>> /\ line[Other(p)] = <<>>
      BY <1>6, <2>1, <2>3
    <3> QED
      BY <1>2, <1>4, <1>5, <2>3, <3>1 DEF SharedInv
  <2> QED
    BY <2>2, <2>3
<1>8. TypeOK
  <2>1. peer \in [Peers -> Record] /\ line \in [Peers -> Seq(Packets)] /\ restarts = 0
    BY <1>1, <1>3 DEF Init
  <2>2. MaxRestarts \in Nat
    BY DEF Assumptions, SizesAssumption
  <2> QED
    BY <2>1, <2>2 DEF TypeOK, Record, Capacity
<1> QED
  BY <1>7, <1>8 DEF IInv

\* Every step keeps the invariant.
LEMMA NextInvariant ==
    ASSUME Assumptions, OneStarts, IInv, [Next]_vars
    PROVE  IInv'
<1>1. CASE UNCHANGED vars
  <2>1. peer' = peer /\ line' = line /\ restarts' = restarts
    BY <1>1 DEF vars
  <2>2. TypeOK'
    BY <2>1 DEF IInv, TypeOK
  <2>3. \A p \in Peers : LocalInv(peer'[p]) /\ SharedInv(p, peer'[p], peer'[Other(p)], line'[p], line'[Other(p)])
    BY <2>1 DEF IInv
  <2> QED
    BY <2>2, <2>3 DEF IInv
<1>2. ASSUME NEW p \in Peers, NEW missed, NEW cut, Restart(p, missed, cut) PROVE FALSE
  BY <1>2 DEF Restart, OneStarts
<1>3. CASE Next
  BY <1>2, <1>3, ReceiveMessageStep, RequestSendMessageStep, SendMessageStep, MessageSentStep, ReleaseReaderStep,
     GrantInitializationStep DEF Next
<1> QED
  BY <1>1, <1>3

\* When one of the peers starts and neither restarts, the invariant holds: for any buffer size that
\* fits in the uint16_t, any sizes of messages, and whether or not the other peer delays its grant.
THEOREM Invariant ==
    ASSUME Assumptions, OneStarts
    PROVE  Spec => []IInv
<1>1. Init => IInv
  BY InitInvariant
<1>2. IInv /\ [Next]_vars => IInv'
  BY NextInvariant
<1> QED
  BY <1>1, <1>2, PTL DEF Spec

\* No byte of window is lost and none is invented: what the counters of both peers and the packets
\* on the line say adds up to the size of the buffer, in each direction, also when a packet is
\* answered before MessageSent is called for it and the uint16_t wraps around.
THEOREM WindowIsConserved ==
    ASSUME Assumptions, OneStarts
    PROVE  Spec => []WindowConserved
<1>1. ASSUME IInv PROVE WindowConserved
  <2>1. ASSUME NEW p \in Peers, peer[p].initialized
        PROVE  Sendable(p) + Underway(p) + Occupied(p) = BufferSize
    <3> DEFINE r == peer[p]
               s == peer[Other(p)]
    <3>1. /\ r \in Record /\ s \in Record /\ line[p] \in Seq(Packets) /\ line[Other(p)] \in Seq(Packets)
          /\ Conserved(r, s, line[p], line[Other(p)])
      BY <1>1, PeerFacts DEF SharedInv
    <3>2. Free(r) = Sendable(p)
      BY <2>1 DEF Free, Sendable
    <3>3. /\ Free(r) \in Nat /\ Total(Sizes(line[Other(p)])) \in Nat /\ Total(s.received) \in Nat /\ s.releasedWindow \in Nat
          /\ Total(Windows(line[p])) \in Nat
      BY <3>1, MemberFacts, AmountsType
    <3>4. Free(r) + Total(Sizes(line[Other(p)])) + Total(s.received) + s.releasedWindow + Total(Windows(line[p])) = BufferSize
      BY <3>1 DEF Conserved
    <3> HIDE DEF r, s
    <3>5. Free(r) + Total(Sizes(line[Other(p)])) + (Total(s.received) + s.releasedWindow + Total(Windows(line[p]))) = BufferSize
      BY <3>3, <3>4
    <3>6. Underway(p) = Total(Sizes(line[Other(p)]))
          /\ Occupied(p) = Total(s.received) + s.releasedWindow + Total(Windows(line[p]))
      BY DEF Underway, Occupied, s
    <3> QED
      BY <3>2, <3>5, <3>6
  <2> QED
    BY <2>1 DEF WindowConserved
<1> QED
  BY <1>1, Invariant, PTL

\* A peer is never sent more than fits in its receive buffer, although SaveReceivedMessage does not
\* look: the other peer's accounting protects it.
THEOREM BufferIsNotOverrun ==
    ASSUME Assumptions, OneStarts
    PROVE  Spec => []BufferNotOverrun
<1>1. ASSUME IInv PROVE BufferNotOverrun
  <2>1. ASSUME NEW p \in Peers PROVE Total(peer[p].received) <= BufferSize
    <3> DEFINE r == peer[p]
               s == peer[Other(p)]
    <3>1. /\ r \in Record /\ s \in Record /\ line[p] \in Seq(Packets) /\ line[Other(p)] \in Seq(Packets)
          /\ Conserved(s, r, line[Other(p)], line[p])
      BY <1>1, PeerFacts DEF SharedInv
    <3>2. /\ Free(s) \in Nat /\ Total(Sizes(line[p])) \in Nat /\ Total(r.received) \in Nat /\ r.releasedWindow \in Nat
          /\ Total(Windows(line[Other(p)])) \in Nat /\ BufferSize \in Nat
      BY <3>1, MemberFacts, AmountsType, SizeFacts
    <3>3. Free(s) + Total(Sizes(line[p])) + Total(r.received) + r.releasedWindow + Total(Windows(line[Other(p)])) = BufferSize
      BY <3>1 DEF Conserved
    <3> HIDE DEF s
    <3> QED
      BY <3>2, <3>3
  <2> QED
    BY <2>1 DEF BufferNotOverrun
<1> QED
  BY <1>1, Invariant, PTL

=============================================================================
