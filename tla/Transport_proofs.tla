------------------------- MODULE Transport_proofs -------------------------
(***************************************************************************)
(* Proofs about Transport, for every ring, buffer and set of sizes: types, *)
(* the two ends agree on the frames, no packet of the server is taken for  *)
(* a buggy one, and the transport implements Channel.                      *)
(***************************************************************************)
EXTENDS Transport, SequenceTheorems, WellFoundedInduction, TLAPS

----------------------------------------------------------------------------
(* Arithmetic, and the least number of a set in the place of induction.    *)

\* The least element of a set of naturals.
LEMMA LeastNat == ASSUME NEW T \in SUBSET Nat, T # {}
                  PROVE  \E n \in T : \A m \in T : n =< m
<1> DEFINE R == {ss \in Nat \X Nat : ss[1] < ss[2]}
<1>1. IsWellFoundedOn(R, Nat)
  BY NatLessThanWellFounded DEF OpToRel
<1>2. \A m, n \in Nat : m < n => <<m, n>> \in R
  OBVIOUS
<1> HIDE DEF R
<1>3. \E n \in T : \A m \in T : ~(<<m, n>> \in R)
  BY <1>1, WFMin
<1>4. PICK n \in T : \A m \in T : ~(<<m, n>> \in R)
  BY <1>3
<1>5. \A m \in T : ~ (m < n)
  BY <1>2, <1>4
<1>6. QED
  BY <1>5

\* f is defined by recursion up to N.
Recursive(f, N, v0, Step) ==
  f = [n \in 0..N |-> IF n = 0 THEN v0 ELSE Step[n][f[n - 1]]]

\* A function defined by recursion exists, and its values have what its steps
\* preserve.
LEMMA Recursion ==
  ASSUME NEW N \in Nat, NEW V, NEW v0, NEW Step,
         v0 \in V[0], \A n \in 1..N : \A v \in V[n - 1] : Step[n][v] \in V[n]
  PROVE  /\ \E f : Recursive(f, N, v0, Step)
         /\ \A f : Recursive(f, N, v0, Step) => \A n \in 0..N : f[n] \in V[n]
<1> DEFINE Solves(f, k) == f = [n \in 0..k |-> IF n = 0 THEN v0 ELSE Step[n][f[n - 1]]]
           T == {k \in Nat : ~ \E f : Solves(f, k)}
<1>1. T = {}
  <2>1. SUFFICES ASSUME T # {} PROVE FALSE
    OBVIOUS
  <2>2. PICK k \in T : \A j \in T : k =< j
    <3>1. T \in SUBSET Nat
      OBVIOUS
    <3>2. QED
      BY <2>1, <3>1, LeastNat
  <2>3. CASE k = 0
    <3>1. Solves([n \in 0..0 |-> v0], 0)
      <4>1. \A n \in 0..0 : n = 0
        OBVIOUS
      <4>2. QED
        BY <4>1
    <3>2. QED
      BY <2>2, <2>3, <3>1
  <2>4. CASE k # 0
    <3>1. k - 1 \in Nat /\ k - 1 \notin T
      BY <2>2, <2>4
    <3>2. PICK f : Solves(f, k - 1)
      BY <3>1
    <3> DEFINE g == [n \in 0..k |-> IF n < k THEN f[n] ELSE Step[n][f[n - 1]]]
    <3>3. \A n \in 0..k - 1 : f[n] = IF n = 0 THEN v0 ELSE Step[n][f[n - 1]]
      BY <3>2
    <3>4. ASSUME NEW n \in 0..k
          PROVE  g[n] = IF n = 0 THEN v0 ELSE Step[n][g[n - 1]]
      <4>1. n # 0 => n - 1 \in 0..k /\ g[n - 1] = f[n - 1]
        BY <3>1
      <4>2. n < k => g[n] = IF n = 0 THEN v0 ELSE Step[n][f[n - 1]]
        BY <3>1, <3>3
      <4>3. ~(n < k) => g[n] = Step[n][f[n - 1]] /\ n # 0
        BY <3>1, <2>4
      <4>4. QED
        BY <4>1, <4>2, <4>3
    <3> HIDE DEF g
    <3>5. g = [n \in 0..k |-> g[n]]
      BY DEF g
    <3>6. Solves(g, k)
      BY <3>4, <3>5
    <3>7. QED
      BY <2>2, <3>6
  <2>5. QED
    BY <2>3, <2>4
<1>2. \E f : Solves(f, N)
  BY <1>1
<1>3. ASSUME NEW f, Solves(f, N)
      PROVE  \A n \in 0..N : f[n] \in V[n]
  <2> DEFINE U == {n \in 0..N : f[n] \notin V[n]}
  <2>1. SUFFICES ASSUME U # {} PROVE FALSE
    OBVIOUS
  <2>2. PICK k \in U : \A j \in U : k =< j
    <3>1. U \in SUBSET Nat
      OBVIOUS
    <3>2. QED
      BY <2>1, <3>1, LeastNat
  <2>3. f[k] = IF k = 0 THEN v0 ELSE Step[k][f[k - 1]]
    BY <1>3, <2>2
  <2>4. k # 0
    BY <2>2, <2>3
  <2>5. k \in 1..N /\ k - 1 \in 0..N /\ k - 1 \notin U
    BY <2>2, <2>4
  <2>6. f[k - 1] \in V[k - 1]
    BY <2>5
  <2>7. QED
    BY <2>2, <2>3, <2>4, <2>5, <2>6
<1>4. QED
  BY <1>2, <1>3 DEF Recursive

\* Places of the ring: how far two are apart, and the place so far from one.
LEMMA Places == ASSUME NEW q \in Nat \ {0}, NEW a \in 0..q - 1, NEW b \in 0..q - 1
                PROVE  /\ (a - b) % q = IF a >= b THEN a - b ELSE a - b + q
                       /\ (a + b) % q = IF a + b < q THEN a + b ELSE a + b - q
  OBVIOUS

LEMMA PlaceIs == ASSUME NEW q \in Nat \ {0}, NEW a \in Int
                 PROVE  a % q \in 0..q - 1
  OBVIOUS

----------------------------------------------------------------------------
(* Sequences                                                               *)

\* The elements of a concatenation.
LEMMA ConcatIs == ASSUME NEW S, NEW a \in Seq(S), NEW b \in Seq(S)
                  PROVE  /\ a \o b \in Seq(S) /\ Len(a \o b) = Len(a) + Len(b)
                         /\ \A i \in 1..Len(a) : (a \o b)[i] = a[i]
                         /\ \A i \in 1..Len(b) : (a \o b)[Len(a) + i] = b[i]
  OBVIOUS

\* A sequence is what two adjacent parts of it make.
LEMMA SplitSeq == ASSUME NEW S, NEW q \in Seq(S), NEW n \in 0..Len(q)
                  PROVE  /\ SubSeq(q, 1, n) \in Seq(S) /\ SubSeq(q, n + 1, Len(q)) \in Seq(S)
                         /\ Len(SubSeq(q, 1, n)) = n
                         /\ Len(SubSeq(q, n + 1, Len(q))) = Len(q) - n
                         /\ \A i \in 1..n : SubSeq(q, 1, n)[i] = q[i]
                         /\ \A i \in 1..Len(q) - n : SubSeq(q, n + 1, Len(q))[i] = q[n + i]
                         /\ q = SubSeq(q, 1, n) \o SubSeq(q, n + 1, Len(q))
<1> DEFINE a == SubSeq(q, 1, n)
           b == SubSeq(q, n + 1, Len(q))
<1>1. /\ a \in Seq(S) /\ b \in Seq(S) /\ Len(q) \in Nat
      /\ Len(a) = n /\ Len(b) = Len(q) - n
      /\ \A i \in 1..n : a[i] = q[i]
      /\ \A i \in 1..Len(q) - n : b[i] = q[n + i]
  OBVIOUS
<1> HIDE DEF a, b
<1>2. a \o b \in Seq(S) /\ Len(a \o b) = Len(q)
  <2>1. a \o b \in Seq(S) /\ Len(a \o b) = Len(a) + Len(b)
    BY <1>1, ConcatProperties
  <2>2. QED
    BY <1>1, <2>1
<1>3. ASSUME NEW i \in 1..Len(q)
      PROVE  (a \o b)[i] = q[i]
  <2>1. CASE i =< n
    BY <1>1, <2>1, ConcatIs
  <2>2. CASE i > n
    <3>1. i - n \in 1..Len(q) - n /\ i = n + (i - n)
      BY <2>2
    <3>2. (a \o b)[n + (i - n)] = b[i - n]
      BY <1>1, <3>1, ConcatIs
    <3>3. QED
      BY <1>1, <3>1, <3>2
  <2>3. QED
    BY <1>1, <2>1, <2>2
<1>4. q = a \o b
  BY <1>2, <1>3, SeqEqual
<1>5. QED
  BY <1>1, <1>4 DEF a, b

\* Appending to the second part.
LEMMA ConcatAppend == ASSUME NEW a \in Seq(Messages), NEW b \in Seq(Messages), NEW e \in Messages
                      PROVE  Append(a \o b, e) = a \o Append(b, e)
<1>1. a \o b \in Seq(Messages) /\ Append(b, e) \in Seq(Messages) /\ <<e>> \in Seq(Messages)
  OBVIOUS
<1>2. Append(a \o b, e) = (a \o b) \o <<e>> /\ Append(b, e) = b \o <<e>>
  BY <1>1, AppendIsConcat
<1>3. QED
  BY <1>1, <1>2, ConcatAssociative

----------------------------------------------------------------------------
(* Frames                                                                  *)

\* What the sizes allow.
LEMMA Constants ==
  /\ \A s \in Sizes : s \in Nat \ {0} /\ s + 2 =< MaxSize /\ s + 2 =< BufferSize
  /\ AlertSize \in Sizes /\ MaxSize \in Int /\ BufferSize \in Int
  /\ MaxSent \in Nat /\ MaxSessions \in Nat /\ RoomSize \in Nat
  /\ QueueSize \in Nat /\ QueueSize > 1
  BY SizesAssumption, BoundsAssumption

Ended(bytes) == bytes # <<>> => IsEnd(bytes[Len(bytes)])

\* A byte and its message.
LEMMA ByteIs == ASSUME NEW b \in Bytes
                PROVE  /\ b.of \in Messages /\ b.at \in 1..MaxSize
                       /\ b = [of |-> b.of, at |-> b.at]
                       /\ b.of.size \in Nat \ {0} /\ b.of.id \in Nat
                       /\ HeaderSize + b.of.size =< MaxSize
                       /\ HeaderSize + b.of.size =< BufferSize
<1>1. b.of \in Messages /\ b.at \in 1..MaxSize /\ b = [of |-> b.of, at |-> b.at]
  BY DEF Bytes
<1>2. b.of.size \in Sizes /\ b.of.id \in 1..MaxSent + MaxSessions
  BY <1>1 DEF Messages
<1>3. QED
  BY <1>1, <1>2, Constants DEF HeaderSize

\* A frame.
LEMMA FrameIs == ASSUME NEW m \in Messages
                 PROVE  /\ Frame(m) \in Seq(Bytes) /\ Len(Frame(m)) = HeaderSize + m.size
                        /\ m.size \in Nat \ {0} /\ HeaderSize + m.size =< BufferSize
                        /\ HeaderSize + m.size =< MaxSize
                        /\ \A i \in 1..HeaderSize + m.size :
                             Frame(m)[i] = [of |-> m, at |-> i]
<1>1. m.size \in Sizes
  BY DEF Messages
<1>2. /\ m.size \in Nat \ {0} /\ HeaderSize + m.size =< BufferSize
      /\ HeaderSize + m.size \in Nat /\ HeaderSize + m.size =< MaxSize
  BY <1>1, Constants DEF HeaderSize
<1>3. \A i \in 1..HeaderSize + m.size : [of |-> m, at |-> i] \in Bytes
  BY <1>2, Constants DEF Bytes
<1>4. QED
  BY <1>2, <1>3 DEF Frame

\* In a whole sequence the bytes of the first frame are where they belong.
LEMMA FirstFrame == ASSUME NEW bytes \in Seq(Bytes), Whole(bytes), bytes # <<>>
                    PROVE  \A i \in 1..Len(bytes) :
                             i =< HeaderSize + bytes[1].of.size
                               => bytes[i] = [of |-> bytes[1].of, at |-> i]
<1> DEFINE m == bytes[1].of
           T == {i \in 1..Len(bytes) : i =< HeaderSize + m.size
                                        /\ bytes[i] # [of |-> m, at |-> i]}
<1>1. SUFFICES ASSUME T # {} PROVE FALSE
  OBVIOUS
<1>2. PICK n \in T : \A k \in T : n =< k
  <2>1. T \in SUBSET Nat
    OBVIOUS
  <2>2. QED
    BY <1>1, <2>1, LeastNat
<1>3. Len(bytes) \in Nat /\ 1 \in 1..Len(bytes) /\ bytes[1] \in Bytes
  OBVIOUS
<1>4. m \in Messages /\ m.size \in Nat
  BY <1>3, ByteIs
<1>5. n # 1
  <2>1. bytes[1] = [of |-> m, at |-> 1]
    BY <1>3, ByteIs DEF Whole
  <2>2. QED
    BY <2>1
<1>6. n - 1 \in 1..Len(bytes) - 1 /\ n - 1 \in 1..Len(bytes) /\ n - 1 =< HeaderSize + m.size
  BY <1>3, <1>4, <1>5 DEF HeaderSize
<1>7. bytes[n - 1] = [of |-> m, at |-> n - 1]
  <2>1. n - 1 \notin T
    BY <1>2, <1>3
  <2>2. QED
    BY <1>6, <2>1
<1>8. Follows(bytes[n - 1], bytes[n])
  BY <1>6 DEF Whole
<1>9. n - 1 # HeaderSize + m.size
  BY <1>3, <1>4 DEF HeaderSize
<1>10. bytes[n] = [of |-> m, at |-> n]
  BY <1>3, <1>7, <1>8, <1>9 DEF Follows, IsEnd
<1>11. QED
  BY <1>10

\* A frame that is all there.
LEMMA WholeFrame == ASSUME NEW bytes \in Seq(Bytes), Whole(bytes), bytes # <<>>,
                           Len(bytes) = HeaderSize + bytes[1].of.size
                    PROVE  bytes = Frame(bytes[1].of) /\ Ended(bytes)
<1>1. Len(bytes) \in Nat /\ Len(bytes) >= 1 /\ bytes[1] \in Bytes
  OBVIOUS
<1>2. bytes[1].of \in Messages
  BY <1>1, ByteIs
<1>3. \A i \in 1..Len(bytes) : bytes[i] = [of |-> bytes[1].of, at |-> i]
  <2>1. \A i \in 1..Len(bytes) : i =< HeaderSize + bytes[1].of.size
    BY <1>1
  <2>2. QED
    BY <2>1, FirstFrame
<1>4. bytes = Frame(bytes[1].of)
  <2> DEFINE f == Frame(bytes[1].of)
  <2>1. /\ f \in Seq(Bytes) /\ Len(f) = Len(bytes)
        /\ \A i \in 1..Len(bytes) : f[i] = [of |-> bytes[1].of, at |-> i]
    BY <1>2, FrameIs
  <2> HIDE DEF f
  <2>2. \A i \in 1..Len(bytes) : f[i] = bytes[i]
    BY <1>3, <2>1
  <2>3. bytes = f
    BY <2>1, <2>2, SeqEqual
  <2>4. QED
    BY <2>3 DEF f
<1>5. Ended(bytes)
  <2>1. bytes[Len(bytes)] = [of |-> bytes[1].of, at |-> Len(bytes)]
    BY <1>1, <1>3
  <2>2. QED
    BY <2>1 DEF Ended, IsEnd
<1>6. QED
  BY <1>4, <1>5

\* The beginning of a whole sequence is whole, and so is what follows a frame.
LEMMA WholeParts == ASSUME NEW a \in Seq(Bytes), NEW b \in Seq(Bytes), Whole(a \o b)
                    PROVE  Whole(a) /\ (Ended(a) => Whole(b))
<1> DEFINE ab == a \o b
<1>1. /\ Len(a) \in Nat /\ Len(b) \in Nat /\ Len(ab) = Len(a) + Len(b)
      /\ \A i \in 1..Len(a) : ab[i] = a[i]
      /\ \A i \in 1..Len(b) : ab[Len(a) + i] = b[i]
  BY ConcatIs
<1>2. ab # <<>> => ab[1].at = 1
  BY DEF Whole
<1>3. \A i \in 1..Len(ab) - 1 : Follows(ab[i], ab[i + 1])
  BY DEF Whole
<1> HIDE DEF ab
<1>4. Whole(a)
  <2>1. ASSUME a # <<>> PROVE a[1].at = 1
    <3>1. Len(a) > 0
      BY <2>1
    <3>2. QED
      BY <1>1, <1>2, <3>1
  <2>2. ASSUME NEW i \in 1..Len(a) - 1 PROVE Follows(a[i], a[i + 1])
    <3>1. i \in 1..Len(ab) - 1 /\ ab[i] = a[i] /\ ab[i + 1] = a[i + 1]
      BY <1>1
    <3>2. QED
      BY <1>3, <3>1
  <2>3. QED
    BY <2>1, <2>2 DEF Whole
<1>5. ASSUME Ended(a) PROVE Whole(b)
  <2>1. ASSUME b # <<>> PROVE b[1].at = 1
    <3>1. Len(b) > 0
      BY <2>1
    <3>2. CASE a = <<>>
      <4>1. ab[1] = b[1] /\ ab # <<>>
        BY <1>1, <3>1, <3>2
      <4>2. QED
        BY <1>2, <4>1
    <3>3. CASE a # <<>>
      <4>1. Len(a) > 0
        BY <3>3
      <4>2. Len(a) \in 1..Len(ab) - 1 /\ ab[Len(a)] = a[Len(a)] /\ ab[Len(a) + 1] = b[1]
        BY <1>1, <3>1, <4>1
      <4>3. Follows(a[Len(a)], b[1])
        BY <1>3, <4>2
      <4>4. QED
        BY <1>5, <3>3, <4>3 DEF Follows, Ended, IsEnd
    <3>4. QED
      BY <3>2, <3>3
  <2>2. ASSUME NEW i \in 1..Len(b) - 1 PROVE Follows(b[i], b[i + 1])
    <3>1. /\ Len(a) + i \in 1..Len(ab) - 1 /\ ab[Len(a) + i] = b[i]
          /\ ab[Len(a) + i + 1] = b[i + 1]
      <4>1. i + 1 \in 1..Len(b) /\ i \in 1..Len(b) /\ Len(a) + (i + 1) = Len(a) + i + 1
        BY <1>1
      <4>2. QED
        BY <1>1, <4>1
    <3>2. QED
      BY <1>3, <3>1
  <2>3. QED
    BY <2>1, <2>2 DEF Whole
<1>6. QED
  BY <1>4, <1>5

\* A later frame behind whole ones.
LEMMA WholeAppend == ASSUME NEW a \in Seq(Bytes), NEW m \in Messages, Whole(a), Ended(a),
                            \A i \in 1..Len(a) : a[i].of.id < m.id
                     PROVE  Whole(a \o Frame(m)) /\ Ended(a \o Frame(m))
<1> DEFINE f == Frame(m)
           ab == a \o f
           n == HeaderSize + m.size
<1>1. f \in Seq(Bytes) /\ Len(f) = n /\ n \in Nat /\ n > 0
      /\ \A i \in 1..n : f[i] = [of |-> m, at |-> i]
  BY FrameIs DEF HeaderSize
<1> HIDE DEF f, n
<1>2. /\ Len(a) \in Nat /\ Len(ab) = Len(a) + n
      /\ \A i \in 1..Len(a) : ab[i] = a[i]
      /\ \A i \in 1..n : ab[Len(a) + i] = [of |-> m, at |-> i]
  <2>1. /\ Len(a \o f) = Len(a) + Len(f)
        /\ \A i \in 1..Len(a) : (a \o f)[i] = a[i]
        /\ \A i \in 1..Len(f) : (a \o f)[Len(a) + i] = f[i]
    <3>1. f \in Seq(Bytes)
      BY <1>1
    <3>2. QED
      BY <3>1, ConcatIs
  <2>2. QED
    BY <1>1, <2>1
<1> HIDE DEF ab
<1>3. ab[1].at = 1
  <2>1. CASE a = <<>>
    BY <1>1, <1>2, <2>1
  <2>2. CASE a # <<>>
    BY <1>2, <2>2 DEF Whole
  <2>3. QED
    BY <2>1, <2>2
<1>4. ASSUME NEW i \in 1..Len(ab) - 1 PROVE Follows(ab[i], ab[i + 1])
  <2>1. CASE i < Len(a)
    <3>1. ab[i] = a[i] /\ ab[i + 1] = a[i + 1] /\ i \in 1..Len(a) - 1
      BY <1>2, <2>1
    <3>2. QED
      BY <3>1 DEF Whole
  <2>2. CASE i = Len(a)
    <3>1. ab[i] = a[Len(a)] /\ ab[i + 1] = [of |-> m, at |-> 1] /\ a # <<>>
      BY <1>1, <1>2, <2>2
    <3>2. a[Len(a)].of.id < m.id
      BY <1>2, <2>2
    <3>3. a[Len(a)] \in Bytes /\ a[Len(a)].of.id \in Nat /\ m.id \in Nat
      <4>1. a[Len(a)] \in Bytes
        BY <1>2, <2>2
      <4>2. m.id \in 1..MaxSent + MaxSessions
        BY DEF Messages
      <4>3. QED
        BY <4>1, <4>2, ByteIs, Constants
    <3>4. QED
      BY <3>1, <3>2, <3>3 DEF Follows, Ended, IsEnd
  <2>3. CASE i > Len(a)
    <3>1. i - Len(a) \in 1..n - 1 /\ i = Len(a) + (i - Len(a))
          /\ i + 1 = Len(a) + (i - Len(a) + 1)
      BY <1>1, <1>2, <2>3
    <3>2. ab[i] = [of |-> m, at |-> i - Len(a)] /\ ab[i + 1] = [of |-> m, at |-> i - Len(a) + 1]
      <4>1. i - Len(a) \in 1..n /\ i - Len(a) + 1 \in 1..n
        BY <1>1, <3>1
      <4>2. /\ ab[Len(a) + (i - Len(a))] = [of |-> m, at |-> i - Len(a)]
            /\ ab[Len(a) + (i - Len(a) + 1)] = [of |-> m, at |-> i - Len(a) + 1]
        BY <1>2, <4>1
      <4>3. QED
        BY <3>1, <4>2
    <3>3. i - Len(a) # HeaderSize + m.size
      BY <1>1, <3>1 DEF n
    <3>4. QED
      BY <3>2, <3>3 DEF Follows, IsEnd
  <2>4. QED
    BY <1>2, <2>1, <2>2, <2>3
<1>5. Ended(ab)
  <2>1. ab[Len(ab)] = [of |-> m, at |-> n]
    BY <1>1, <1>2
  <2>2. QED
    BY <2>1 DEF Ended, IsEnd, n
<1>6. QED
  BY <1>3, <1>4, <1>5 DEF Whole, ab, f

----------------------------------------------------------------------------
(* The ring                                                                *)

RingSound(q) == Contents(q) \in Seq(Messages)

\* What a drain finds.
LEMMA ContentsIs == ASSUME NEW q \in Queues
                    PROVE  /\ Len(Contents(q)) = (q.rear - q.front) % QueueSize
                           /\ Len(Contents(q)) \in 0..QueueSize - 1
                           /\ \A i \in 1..Len(Contents(q)) :
                                Contents(q)[i] = q.array[(q.front + i) % QueueSize]
                           /\ Contents(q) \in Seq(Messages \cup {Nothing})
<1>1. QueueSize \in Nat \ {0} /\ q.rear - q.front \in Int /\ q.front \in Int
  BY Constants DEF Queues
<1>2. (q.rear - q.front) % QueueSize \in 0..QueueSize - 1
  BY <1>1, PlaceIs
<1>3. \A i \in Nat : q.array[(q.front + i) % QueueSize] \in Messages \cup {Nothing}
  <2>1. ASSUME NEW i \in Nat PROVE (q.front + i) % QueueSize \in 0..QueueSize - 1
    <3>1. q.front + i \in Int
      BY <1>1
    <3>2. QED
      BY <1>1, <3>1, PlaceIs
  <2>2. QED
    BY <2>1 DEF Queues
<1>4. QED
  BY <1>2, <1>3 DEF Contents

\* What enqueueing does to it: one more at the end, and a full lap is gone.
LEMMA EnqueueIs == ASSUME NEW q \in Queues, NEW m \in Messages
                   PROVE  /\ Enqueue(q, m) \in Queues
                          /\ Len(Contents(q)) + 1 < QueueSize
                               => Contents(Enqueue(q, m)) = Append(Contents(q), m)
                          /\ Len(Contents(q)) + 1 = QueueSize
                               => Contents(Enqueue(q, m)) = <<>>
<1> DEFINE Q == QueueSize
           next == (q.rear + 1) % Q
           n == Len(Contents(q))
           e == Enqueue(q, m)
           l == Len(Contents(e))
<1>1. Q \in Nat \ {0} /\ Q > 1 /\ q.rear \in 0..Q - 1 /\ q.front \in 0..Q - 1
  BY Constants DEF Queues
<1>2. /\ next \in 0..Q - 1
      /\ next = IF q.rear + 1 = Q THEN 0 ELSE q.rear + 1
  <2>1. 1 \in 0..Q - 1
    BY <1>1
  <2>2. next = IF q.rear + 1 < Q THEN q.rear + 1 ELSE q.rear + 1 - Q
    BY <1>1, <2>1, Places
  <2>3. QED
    BY <1>1, <2>2
<1>3. e.rear = next /\ e.front = q.front /\ e \in Queues
      /\ e.array = [q.array EXCEPT ![next] = m]
  BY <1>2 DEF Enqueue, Queues
<1>4. n = IF q.rear >= q.front THEN q.rear - q.front ELSE q.rear - q.front + Q
  <2>1. n = (q.rear - q.front) % Q
    BY ContentsIs
  <2>2. QED
    BY <1>1, <2>1, Places
<1>5. l = IF next >= q.front THEN next - q.front ELSE next - q.front + Q
  <2>1. l = (next - q.front) % Q
    BY <1>3, ContentsIs
  <2>2. QED
    BY <1>1, <1>2, <2>1, Places
<1> HIDE DEF n, e, next, Q, l
<1>6. CASE n + 1 < Q
  <2>1. Len(Contents(e)) = n + 1
    <3>1. l = n + 1
      BY <1>1, <1>2, <1>4, <1>5, <1>6
    <3>2. QED
      BY <3>1 DEF l
  <2>2. n \in Nat /\ Contents(q) \in Seq(Messages \cup {Nothing}) /\ Len(Contents(q)) = n
    BY ContentsIs DEF n
  <2>3. Contents(e) \in Seq(Messages \cup {Nothing})
    BY <1>3, ContentsIs
  <2>4. ASSUME NEW i \in 1..n + 1
        PROVE  Contents(e)[i] = Append(Contents(q), m)[i]
    <3>1. /\ (q.front + i) % Q = IF q.front + i < Q THEN q.front + i ELSE q.front + i - Q
          /\ (q.front + i) % Q \in 0..Q - 1
      <4>1. i \in 0..Q - 1
        BY <1>1, <1>6, <2>2
      <4>2. (q.front + i) % Q = IF q.front + i < Q THEN q.front + i ELSE q.front + i - Q
        BY <1>1, <4>1, Places
      <4>3. QED
        BY <1>1, <4>1, <4>2
    <3>2. Contents(e)[i] = e.array[(q.front + i) % Q]
      BY <1>3, <2>1, ContentsIs DEF Q
    <3>3. CASE i = n + 1
      <4>1. (q.front + i) % Q = next
        BY <1>1, <1>2, <1>4, <3>1, <3>3
      <4>2. Contents(e)[i] = m
        BY <1>3, <3>1, <3>2, <4>1 DEF Queues, Q
      <4>3. QED
        BY <2>2, <3>3, <4>2
    <3>4. CASE i # n + 1
      <4>1. i \in 1..n
        BY <2>2, <3>4
      <4>2. (q.front + i) % Q # next
        BY <1>1, <1>2, <1>4, <1>6, <3>1, <4>1
      <4>3. Contents(e)[i] = q.array[(q.front + i) % Q]
        BY <1>3, <3>1, <3>2, <4>2 DEF Queues, Q
      <4>4. Contents(q)[i] = q.array[(q.front + i) % Q]
        BY <2>2, <4>1, ContentsIs DEF Q
      <4>5. QED
        BY <2>2, <4>1, <4>3, <4>4
    <3>5. QED
      BY <3>3, <3>4
  <2>5. /\ Append(Contents(q), m) \in Seq(Messages \cup {Nothing})
        /\ Len(Append(Contents(q), m)) = n + 1
    BY <2>2
  <2>6. Contents(e) = Append(Contents(q), m)
    BY <2>1, <2>3, <2>4, <2>5, SeqEqual
  <2>7. QED
    BY <1>3, <1>6, <2>6 DEF e, n, Q
<1>7. CASE n + 1 = Q
  <2>1. Len(Contents(e)) = 0 /\ Contents(e) \in Seq(Messages \cup {Nothing})
    <3>1. l = 0
      BY <1>1, <1>2, <1>4, <1>5, <1>7
    <3>2. QED
      BY <1>3, <3>1, ContentsIs DEF l
  <2>2. Contents(e) = <<>>
    BY <2>1
  <2>3. QED
    BY <1>3, <1>7, <2>2 DEF e, n, Q
<1>8. n + 1 =< Q
  BY <1>1, <1>4
<1>9. QED
  BY <1>3, <1>6, <1>7, <1>8 DEF e, n, Q

----------------------------------------------------------------------------
(* The loop of onDataReceived                                              *)

Partial(temp) == temp # <<>> => Len(temp) < HeaderSize + temp[1].of.size

\* Bytes that move from the front of one sequence to the end of another.
LEMMA MoveBytes == ASSUME NEW temp \in Seq(Bytes), NEW data \in Seq(Bytes),
                          NEW n \in 0..Len(data)
                   PROVE  LET more == temp \o SubSeq(data, 1, n)
                              less == SubSeq(data, n + 1, Len(data))
                          IN  /\ more \in Seq(Bytes) /\ less \in Seq(Bytes)
                              /\ Len(more) = Len(temp) + n /\ Len(less) = Len(data) - n
                              /\ more \o less = temp \o data
                              /\ \A i \in 1..Len(temp) : more[i] = temp[i]
<1> DEFINE head == SubSeq(data, 1, n)
           less == SubSeq(data, n + 1, Len(data))
<1>1. /\ head \in Seq(Bytes) /\ less \in Seq(Bytes)
      /\ Len(head) = n /\ Len(less) = Len(data) - n
      /\ data = head \o less
  <2>1. /\ SubSeq(data, 1, n) \in Seq(Bytes) /\ SubSeq(data, n + 1, Len(data)) \in Seq(Bytes)
        /\ Len(SubSeq(data, 1, n)) = n
        /\ Len(SubSeq(data, n + 1, Len(data))) = Len(data) - n
        /\ data = SubSeq(data, 1, n) \o SubSeq(data, n + 1, Len(data))
    BY SplitSeq, Zenon
  <2>2. QED
    BY <2>1, Zenon DEF head, less
<1> HIDE DEF head, less
<1>2. head \in Seq(Bytes) /\ less \in Seq(Bytes)
  BY <1>1
<1>3. /\ temp \o head \in Seq(Bytes) /\ Len(temp \o head) = Len(temp) + Len(head)
      /\ \A i \in 1..Len(temp) : (temp \o head)[i] = temp[i]
  BY <1>2, ConcatIs
<1>4. (temp \o head) \o less = temp \o (head \o less)
  BY <1>2, ConcatAssociative, SMTT(30)
<1>5. /\ temp \o head \in Seq(Bytes) /\ less \in Seq(Bytes)
      /\ Len(temp \o head) = Len(temp) + n /\ Len(less) = Len(data) - n
      /\ (temp \o head) \o less = temp \o data
      /\ \A i \in 1..Len(temp) : (temp \o head)[i] = temp[i]
  BY <1>1, <1>3, <1>4
<1>6. QED
  BY <1>5 DEF head, less

\* Taking bytes moves them from the data behind the others.
LEMMA TakeIs == ASSUME NEW s \in Loops, NEW need \in Nat
                PROVE  /\ Take(s, need) \in Loops
                       /\ Take(s, need).queue = s.queue /\ Take(s, need).bad = s.bad
                       /\ Take(s, need).temp \o Take(s, need).data = s.temp \o s.data
                       /\ \E n \in 0..Len(s.data) :
                            /\ n = IF need < Len(s.data) THEN need ELSE Len(s.data)
                            /\ Len(Take(s, need).temp) = Len(s.temp) + n
                            /\ Len(Take(s, need).data) = Len(s.data) - n
                       /\ s.temp # <<>> => Take(s, need).temp[1] = s.temp[1]
<1> DEFINE n == IF need < Len(s.data) THEN need ELSE Len(s.data)
           more == s.temp \o SubSeq(s.data, 1, n)
           less == SubSeq(s.data, n + 1, Len(s.data))
           t == Take(s, need)
<1>1. /\ s.temp \in Seq(Bytes) /\ s.data \in Seq(Bytes) /\ s.queue \in Queues
      /\ s.bad \in BOOLEAN /\ Len(s.data) \in Nat /\ Len(s.temp) \in Nat
      /\ s = [temp |-> s.temp, data |-> s.data, queue |-> s.queue, bad |-> s.bad]
  BY DEF Loops
<1>2. n \in 0..Len(s.data)
  BY <1>1
<1>3. t = [s EXCEPT !.temp = more, !.data = less]
  BY DEF Take
<1> HIDE DEF n
<1>4. /\ more \in Seq(Bytes) /\ less \in Seq(Bytes)
      /\ Len(more) = Len(s.temp) + n /\ Len(less) = Len(s.data) - n
      /\ more \o less = s.temp \o s.data
      /\ \A i \in 1..Len(s.temp) : more[i] = s.temp[i]
  BY <1>1, <1>2, MoveBytes
<1> HIDE DEF more, less, t
<1>5. t = [temp |-> more, data |-> less, queue |-> s.queue, bad |-> s.bad]
  BY <1>1, <1>3
<1>6. t \in Loops
  BY <1>1, <1>4, <1>5 DEF Loops
<1>7. s.temp # <<>> => t.temp[1] = s.temp[1]
  <2>1. t.temp = more
    BY <1>5
  <2>2. s.temp # <<>> => 1 \in 1..Len(s.temp)
    BY <1>1
  <2>3. QED
    BY <1>4, <2>1, <2>2
<1>8. /\ t.queue = s.queue /\ t.bad = s.bad /\ Len(t.temp) = Len(s.temp) + n
      /\ Len(t.data) = Len(s.data) - n /\ t.temp \o t.data = s.temp \o s.data
  BY <1>4, <1>5
<1>9. QED
  BY <1>2, <1>6, <1>7, <1>8 DEF t, n

\* What a turn makes of the state of the loop: it goes on with the packet, or
\* it completes one and begins anew.
Turned(s, t) ==
  /\ t \in Loops /\ ~t.bad /\ Partial(t.temp)
  /\ \/ t.queue = s.queue /\ t.temp \o t.data = s.temp \o s.data
     \/ \E m \in Messages : /\ t.temp = <<>> /\ t.queue = Enqueue(s.queue, m)
                            /\ s.temp \o s.data = Frame(m) \o t.data

\* The packet behind a header.
LEMMA PackedIs == ASSUME NEW s \in Loops, ~s.bad, Len(s.temp) >= HeaderSize,
                         Partial(s.temp), Whole(s.temp \o s.data)
                  PROVE  /\ Turned(s, Packed(s))
                         /\ Len(Packed(s).data) =< Len(s.data)
                         /\ s.data # <<>> => Len(Packed(s).data) < Len(s.data)
<1> DEFINE m == s.temp[1].of
           need == m.size - (Len(s.temp) - HeaderSize)
           t == Take(s, need)
<1>1. /\ s.temp \in Seq(Bytes) /\ s.data \in Seq(Bytes) /\ Len(s.temp) \in Nat
      /\ Len(s.data) \in Nat /\ s.temp # <<>> /\ s.temp[1] \in Bytes /\ s.queue \in Queues
  BY DEF Loops, HeaderSize
<1>2. /\ m \in Messages /\ m.size \in Nat \ {0} /\ HeaderSize + m.size =< MaxSize
      /\ MaxSize \in Nat
  BY <1>1, ByteIs, BoundsAssumption
<1>3. PacketSize(s.temp) = m.size
  <2>1. Whole(s.temp)
    BY <1>1, WholeParts
  <2>2. /\ s.temp[1] = [of |-> m, at |-> 1]
        /\ s.temp[2] = [of |-> m, at |-> 2]
    <3>1. 1 \in 1..Len(s.temp) /\ 2 \in 1..Len(s.temp)
      BY <1>1 DEF HeaderSize
    <3>2. 1 =< HeaderSize + m.size /\ 2 =< HeaderSize + m.size
      BY <1>2 DEF HeaderSize
    <3>3. \A i \in 1..Len(s.temp) : i =< HeaderSize + m.size => s.temp[i] = [of |-> m, at |-> i]
      BY <1>1, <2>1, FirstFrame
    <3>4. QED
      BY <3>1, <3>2, <3>3
  <2>3. QED
    BY <2>2 DEF PacketSize
<1>4. m.size \in 1..MaxSize
  BY <1>2 DEF HeaderSize
<1>5. need \in Nat \ {0}
  <2>1. Len(s.temp) < HeaderSize + m.size
    BY <1>1 DEF Partial
  <2>2. QED
    BY <1>1, <1>2, <2>1 DEF HeaderSize
<1>6. Packed(s) = IF Len(t.temp) - HeaderSize = m.size
                  THEN [t EXCEPT !.queue = Enqueue(t.queue, MessageIn(t.temp)), !.temp = <<>>]
                  ELSE t
  BY <1>3, <1>4 DEF Packed
<1> HIDE DEF need
<1>7. need \in Nat
  BY <1>5
<1>8. /\ t \in Loops /\ t.queue = s.queue /\ ~t.bad
      /\ t.temp \o t.data = s.temp \o s.data
      /\ t.temp[1] = s.temp[1]
  BY <1>1, <1>7, TakeIs
<1>9. PICK n \in 0..Len(s.data) : /\ n = IF need < Len(s.data) THEN need ELSE Len(s.data)
                                  /\ Len(t.temp) = Len(s.temp) + n
                                  /\ Len(t.data) = Len(s.data) - n
  BY <1>7, TakeIs
<1> HIDE DEF t
<1>n. n =< need /\ n =< Len(s.data) /\ (Len(s.data) > 0 => n > 0)
  BY <1>1, <1>5, <1>9
<1>l. Len(t.temp) = Len(s.temp) + n /\ Len(t.data) = Len(s.data) - n
  BY <1>9
<1>10. /\ Len(t.temp) =< HeaderSize + m.size
       /\ Len(t.data) =< Len(s.data)
       /\ s.data # <<>> => Len(t.data) < Len(s.data)
  <2>1. Len(t.temp) =< Len(s.temp) + need
    BY <1>1, <1>5, <1>l, <1>n
  <2>2. Len(s.temp) + need = HeaderSize + m.size
    BY <1>1, <1>2 DEF need, HeaderSize
  <2>3. s.data # <<>> => Len(s.data) > 0
    BY <1>1
  <2>4. QED
    BY <1>1, <1>l, <1>n, <2>1, <2>2, <2>3
<1>11. /\ t.temp \in Seq(Bytes) /\ t.data \in Seq(Bytes) /\ Len(t.temp) \in Nat
       /\ t.temp # <<>> /\ t.temp[1].of = m
       /\ t = [temp |-> t.temp, data |-> t.data, queue |-> t.queue, bad |-> t.bad]
  BY <1>1, <1>8, <1>9 DEF Loops, HeaderSize
<1>12. CASE Len(t.temp) - HeaderSize = m.size
  <2>1. Len(t.temp) = HeaderSize + m.size
    BY <1>2, <1>11, <1>12 DEF HeaderSize
  <2>2. Whole(t.temp)
    BY <1>8, <1>11, WholeParts
  <2>3. t.temp = Frame(m)
    BY <1>11, <2>1, <2>2, WholeFrame
  <2>4. MessageIn(t.temp) = m
    BY <1>11, <2>3 DEF MessageIn
  <2>5. Packed(s) = [temp |-> <<>>, data |-> t.data, queue |-> Enqueue(s.queue, m), bad |-> t.bad]
    BY <1>6, <1>8, <1>11, <1>12, <2>4
  <2>6. Enqueue(s.queue, m) \in Queues
    BY <1>1, <1>2, EnqueueIs
  <2>7. Packed(s) \in Loops
    BY <1>8, <1>11, <2>5, <2>6 DEF Loops
  <2>8. s.temp \o s.data = Frame(m) \o t.data
    BY <1>8, <2>3
  <2>9. /\ Packed(s).temp = <<>> /\ Packed(s).data = t.data /\ ~Packed(s).bad
        /\ Packed(s).queue = Enqueue(s.queue, m)
    BY <1>8, <2>5
  <2>10. Turned(s, Packed(s))
    BY <1>2, <2>7, <2>8, <2>9 DEF Turned, Partial
  <2>11. QED
    BY <1>10, <2>9, <2>10
<1>13. CASE Len(t.temp) - HeaderSize # m.size
  <2>1. Packed(s) = t
    BY <1>6, <1>13
  <2>2. Partial(t.temp)
    BY <1>2, <1>10, <1>11, <1>13 DEF Partial, HeaderSize
  <2>3. QED
    BY <1>8, <1>10, <2>1, <2>2 DEF Turned
<1>14. QED
  BY <1>12, <1>13

\* A turn of the loop.
LEMMA TurnIs == ASSUME NEW s \in Loops, ~s.bad, s.data # <<>>, Partial(s.temp),
                       Whole(s.temp \o s.data)
                PROVE  Turned(s, Turn[s]) /\ Len(Turn[s].data) < Len(s.data)
<1> DEFINE need == HeaderSize - Len(s.temp)
           h == IF Len(s.temp) < HeaderSize THEN Take(s, need) ELSE s
<1>1. /\ s.temp \in Seq(Bytes) /\ s.data \in Seq(Bytes) /\ Len(s.temp) \in Nat
      /\ Len(s.data) \in Nat /\ Len(s.data) > 0
  BY DEF Loops
<1>2. Turn[s] = IF Len(h.temp) < HeaderSize THEN h ELSE Packed(h)
  BY DEF Turn
<1>3. CASE Len(s.temp) < HeaderSize
  <2>1. h = Take(s, need) /\ need \in Nat /\ need > 0
    BY <1>1, <1>3 DEF HeaderSize
  <2> HIDE DEF need
  <2>2. /\ h \in Loops /\ h.queue = s.queue /\ ~h.bad
        /\ h.temp \o h.data = s.temp \o s.data
    BY <2>1, TakeIs
  <2>3. PICK n \in 0..Len(s.data) : /\ n = IF need < Len(s.data) THEN need ELSE Len(s.data)
                                    /\ Len(h.temp) = Len(s.temp) + n
                                    /\ Len(h.data) = Len(s.data) - n
    BY <2>1, TakeIs
  <2> HIDE DEF h
  <2>n. n =< need /\ n > 0
    BY <1>1, <2>1, <2>3
  <2>l. Len(h.temp) = Len(s.temp) + n /\ Len(h.data) = Len(s.data) - n
    BY <2>3
  <2>4. Len(h.data) < Len(s.data)
    BY <1>1, <2>l, <2>n
  <2>5. Len(h.temp) =< HeaderSize /\ Len(h.temp) > 0 /\ Len(h.temp) \in Nat
    <3>1. need = HeaderSize - Len(s.temp)
      BY DEF need
    <3>2. QED
      BY <1>1, <2>l, <2>n, <3>1 DEF HeaderSize
  <2>6. h.temp \in Seq(Bytes) /\ h.temp[1] \in Bytes
    BY <2>2, <2>5 DEF Loops
  <2>7. Partial(h.temp)
    <3>1. h.temp[1].of.size \in Nat \ {0}
      BY <2>6, ByteIs
    <3>2. QED
      BY <2>5, <3>1 DEF Partial, HeaderSize
  <2>8. CASE Len(h.temp) < HeaderSize
    BY <1>2, <2>2, <2>4, <2>7, <2>8 DEF Turned
  <2>9. CASE ~(Len(h.temp) < HeaderSize)
    <3>1. Len(h.temp) >= HeaderSize
      BY <2>5, <2>9 DEF HeaderSize
    <3>2. /\ Turned(h, Packed(h))
          /\ Len(Packed(h).data) =< Len(h.data)
      BY <2>2, <2>7, <3>1, PackedIs
    <3>3. Turned(s, Packed(h))
      BY <2>2, <3>2 DEF Turned
    <3>4. Len(Packed(h).data) \in Nat /\ Len(h.data) \in Nat
      BY <2>2, <3>2 DEF Turned, Loops
    <3>5. Len(Packed(h).data) < Len(s.data)
      BY <1>1, <2>4, <3>2, <3>4
    <3>6. QED
      BY <1>2, <2>9, <3>3, <3>5
  <2>10. QED
    BY <2>8, <2>9
<1>4. CASE ~(Len(s.temp) < HeaderSize)
  <2>1. Turn[s] = Packed(s) /\ Len(s.temp) >= HeaderSize
    BY <1>1, <1>2, <1>4 DEF HeaderSize
  <2>2. QED
    BY <2>1, PackedIs
<1>5. QED
  BY <1>3, <1>4

----------------------------------------------------------------------------
(* The messages whose last byte is among some bytes                        *)

\* What is completed by the first bytes.
Upto(bytes) == CHOOSE upto : upto = [n \in 0..Len(bytes) |->
                 IF n = 0 THEN <<>>
                 ELSE IF IsEnd(bytes[n]) THEN Append(upto[n - 1], bytes[n].of)
                                         ELSE upto[n - 1]]

LEMMA UptoIs == ASSUME NEW bytes \in Seq(Bytes)
                PROVE  /\ Completed(bytes) = Upto(bytes)[Len(bytes)]
                       /\ Upto(bytes)[0] = <<>>
                       /\ \A n \in 1..Len(bytes) :
                            Upto(bytes)[n] = IF IsEnd(bytes[n])
                                             THEN Append(Upto(bytes)[n - 1], bytes[n].of)
                                             ELSE Upto(bytes)[n - 1]
                       /\ \A n \in 0..Len(bytes) : Upto(bytes)[n] \in Seq(Messages)
<1> DEFINE N == Len(bytes)
           V == [n \in 0..N |-> Seq(Messages)]
           Step == [n \in 1..N |-> [v \in Seq(Messages) |->
                      IF IsEnd(bytes[n]) THEN Append(v, bytes[n].of) ELSE v]]
           Solves(f) == f = [n \in 0..N |->
                 IF n = 0 THEN <<>>
                 ELSE IF IsEnd(bytes[n]) THEN Append(f[n - 1], bytes[n].of)
                                         ELSE f[n - 1]]
           u == Upto(bytes)
<1>1. N \in Nat
  OBVIOUS
<1>2. \A n \in 1..N : bytes[n].of \in Messages
  <2>1. \A n \in 1..N : bytes[n] \in Bytes
    OBVIOUS
  <2>2. QED
    BY <2>1, ByteIs
<1> HIDE DEF N
<1>3. <<>> \in V[0] /\ \A n \in 1..N : \A v \in V[n - 1] : Step[n][v] \in V[n]
  <2>1. \A n \in 0..N : V[n] = Seq(Messages)
    OBVIOUS
  <2>2. \A n \in 1..N : \A v \in Seq(Messages) : Step[n][v] \in Seq(Messages)
    BY <1>2
  <2>3. 0 \in 0..N /\ \A n \in 1..N : n \in 0..N /\ n - 1 \in 0..N
    BY <1>1
  <2>4. <<>> \in Seq(Messages)
    OBVIOUS
  <2> HIDE DEF V, Step
  <2>5. QED
    BY <2>1, <2>2, <2>3, <2>4
<1> HIDE DEF V, Step
<1>4. PICK f : Recursive(f, N, <<>>, Step)
  BY <1>1, <1>3, Recursion
<1>5. \A n \in 0..N : f[n] \in Seq(Messages)
  <2>1. \A n \in 0..N : f[n] \in V[n]
    BY <1>1, <1>3, <1>4, Recursion
  <2>2. QED
    BY <2>1 DEF V
<1>6. Solves(f)
  <2>1. ASSUME NEW n \in 0..N, n # 0
        PROVE  Step[n][f[n - 1]] = IF IsEnd(bytes[n]) THEN Append(f[n - 1], bytes[n].of)
                                                      ELSE f[n - 1]
    <3>1. n \in 1..N /\ f[n - 1] \in Seq(Messages)
      BY <1>1, <1>5, <2>1
    <3>2. QED
      BY <3>1 DEF Step
  <2>2. QED
    BY <1>4, <2>1 DEF Recursive
<1>7. Solves(u)
  BY <1>6 DEF Upto, N
<1>8. Completed(bytes) = u[N]
  BY DEF Completed, Upto, N
<1> HIDE DEF u
<1>9. /\ u[0] = <<>>
      /\ \A n \in 1..N : u[n] = IF IsEnd(bytes[n]) THEN Append(u[n - 1], bytes[n].of)
                                                   ELSE u[n - 1]
  <2>1. \A n \in 0..N : u[n] = IF n = 0 THEN <<>>
                              ELSE IF IsEnd(bytes[n]) THEN Append(u[n - 1], bytes[n].of)
                                                      ELSE u[n - 1]
    BY <1>7
  <2>2. 0 \in 0..N /\ \A n \in 1..N : n \in 0..N /\ n # 0
    BY <1>1
  <2> HIDE DEF N
  <2>3. QED
    BY <2>1, <2>2
<1>10. \A n \in 0..N : u[n] \in Seq(Messages)
  <2> DEFINE T == {n \in 0..N : u[n] \notin Seq(Messages)}
  <2>1. SUFFICES ASSUME T # {} PROVE FALSE
    OBVIOUS
  <2>2. PICK k \in T : \A j \in T : k =< j
    <3>1. T \in SUBSET Nat
      OBVIOUS
    <3>2. QED
      BY <2>1, <3>1, LeastNat
  <2>3. k # 0
    <3>1. <<>> \in Seq(Messages)
      OBVIOUS
    <3>2. QED
      BY <1>9, <2>2, <3>1
  <2>4. k \in 1..N /\ k - 1 \in 0..N /\ k - 1 \notin T
    BY <1>1, <2>2, <2>3
  <2>5. u[k - 1] \in Seq(Messages)
    BY <2>4
  <2>6. u[k] \in Seq(Messages)
    <3>1. bytes[k].of \in Messages
      BY <1>2, <2>4
    <3>2. Append(u[k - 1], bytes[k].of) \in Seq(Messages)
      BY <2>5, <3>1
    <3>3. QED
      BY <1>9, <2>4, <2>5, <3>2
  <2>7. QED
    BY <2>2, <2>6
<1>11. QED
  BY <1>8, <1>9, <1>10 DEF u, N

\* Two parts complete their messages one after the other.
LEMMA CompletedConcat == ASSUME NEW a \in Seq(Bytes), NEW b \in Seq(Bytes)
                         PROVE  Completed(a \o b) = Completed(a) \o Completed(b)
<1> DEFINE ab == a \o b
           ua == Upto(a)
           ub == Upto(b)
           u == Upto(ab)
           c == Completed(a)
<1>1. /\ ab \in Seq(Bytes) /\ Len(a) \in Nat /\ Len(b) \in Nat /\ Len(ab) = Len(a) + Len(b)
      /\ \A i \in 1..Len(a) : ab[i] = a[i]
      /\ \A i \in 1..Len(b) : ab[Len(a) + i] = b[i]
  BY ConcatIs
<1> HIDE DEF ab
<1>2. /\ c = ua[Len(a)] /\ Completed(b) = ub[Len(b)] /\ Completed(ab) = u[Len(ab)]
      /\ ua[0] = <<>> /\ ub[0] = <<>> /\ u[0] = <<>>
      /\ c \in Seq(Messages)
  <2>1. Len(a) \in 0..Len(a)
    BY <1>1
  <2>2. QED
    BY <1>1, <2>1, UptoIs
<1>3. \A n \in 1..Len(a) : ua[n] = IF IsEnd(a[n]) THEN Append(ua[n - 1], a[n].of)
                                                  ELSE ua[n - 1]
  BY UptoIs
<1>4. /\ \A n \in 1..Len(b) : ub[n] = IF IsEnd(b[n]) THEN Append(ub[n - 1], b[n].of)
                                                     ELSE ub[n - 1]
      /\ \A n \in 0..Len(b) : ub[n] \in Seq(Messages)
  BY UptoIs
<1>5. \A n \in 1..Len(ab) : u[n] = IF IsEnd(ab[n]) THEN Append(u[n - 1], ab[n].of)
                                                   ELSE u[n - 1]
  BY <1>1, UptoIs
<1>6. \A i \in 1..Len(b) : b[i].of \in Messages
  <2>1. \A i \in 1..Len(b) : b[i] \in Bytes
    OBVIOUS
  <2>2. QED
    BY <2>1, ByteIs
<1> HIDE DEF ua, ub, u, c
<1>7. \A n \in 0..Len(a) : u[n] = ua[n]
  <2> DEFINE T == {n \in 0..Len(a) : u[n] # ua[n]}
  <2>1. SUFFICES ASSUME T # {} PROVE FALSE
    OBVIOUS
  <2>2. PICK k \in T : \A j \in T : k =< j
    <3>1. T \in SUBSET Nat
      OBVIOUS
    <3>2. QED
      BY <2>1, <3>1, LeastNat
  <2>3. k # 0
    BY <1>2, <2>2
  <2>4. k \in 1..Len(a) /\ k - 1 \in 0..Len(a) /\ k - 1 \notin T /\ k \in 1..Len(ab)
    BY <1>1, <2>2, <2>3
  <2>5. u[k - 1] = ua[k - 1] /\ ab[k] = a[k]
    BY <1>1, <2>4
  <2>6. u[k] = ua[k]
    BY <1>3, <1>5, <2>4, <2>5
  <2>7. QED
    BY <2>2, <2>6
<1>8. \A n \in 0..Len(b) : u[Len(a) + n] = c \o ub[n]
  <2> DEFINE T == {n \in 0..Len(b) : u[Len(a) + n] # c \o ub[n]}
  <2>1. SUFFICES ASSUME T # {} PROVE FALSE
    OBVIOUS
  <2>2. PICK k \in T : \A j \in T : k =< j
    <3>1. T \in SUBSET Nat
      OBVIOUS
    <3>2. QED
      BY <2>1, <3>1, LeastNat
  <2>3. k # 0
    <3>1. u[Len(a) + 0] = c
      BY <1>1, <1>2, <1>7
    <3>2. c \o <<>> = c
      BY <1>2, ConcatEmptySeq
    <3>3. QED
      BY <1>2, <2>2, <3>1, <3>2
  <2>4. /\ k \in 1..Len(b) /\ k - 1 \in 0..Len(b) /\ k - 1 \notin T
        /\ Len(a) + k \in 1..Len(ab) /\ (Len(a) + k) - 1 = Len(a) + (k - 1)
    BY <1>1, <2>2, <2>3
  <2>5. /\ u[(Len(a) + k) - 1] = c \o ub[k - 1] /\ ab[Len(a) + k] = b[k]
    <3>1. u[Len(a) + (k - 1)] = c \o ub[k - 1]
      BY <2>4
    <3>2. QED
      BY <1>1, <2>4, <3>1
  <2>6. u[Len(a) + k] = IF IsEnd(b[k]) THEN Append(c \o ub[k - 1], b[k].of)
                                       ELSE c \o ub[k - 1]
    BY <1>5, <2>4, <2>5
  <2>7. ub[k - 1] \in Seq(Messages) /\ b[k].of \in Messages
    BY <1>4, <1>6, <2>4
  <2>8. Append(c \o ub[k - 1], b[k].of) = c \o Append(ub[k - 1], b[k].of)
    <3> DEFINE x == ub[k - 1]
               y == b[k].of
    <3>1. x \in Seq(Messages) /\ y \in Messages /\ c \in Seq(Messages)
      BY <1>2, <2>7
    <3> HIDE DEF x, y
    <3>2. Append(c \o x, y) = c \o Append(x, y)
      BY <3>1, ConcatAppend
    <3>3. QED
      BY <3>2 DEF x, y
  <2>9. ub[k] = IF IsEnd(b[k]) THEN Append(ub[k - 1], b[k].of) ELSE ub[k - 1]
    BY <1>4, <2>4
  <2>10. u[Len(a) + k] = c \o ub[k]
    BY <2>6, <2>8, <2>9
  <2>11. QED
    BY <2>2, <2>10
<1>9. Completed(ab) = c \o Completed(b)
  <2>1. Len(b) \in 0..Len(b)
    BY <1>1
  <2>2. QED
    BY <1>1, <1>2, <1>8, <2>1
<1>10. QED
  BY <1>9 DEF ab, c

\* Nothing is completed where no message ends.
LEMMA CompletedNone == ASSUME NEW a \in Seq(Bytes), \A i \in 1..Len(a) : ~IsEnd(a[i])
                       PROVE  Completed(a) = <<>>
<1> DEFINE u == Upto(a)
           T == {n \in 0..Len(a) : u[n] # <<>>}
<1>1. /\ Completed(a) = u[Len(a)] /\ u[0] = <<>> /\ Len(a) \in Nat
      /\ \A n \in 1..Len(a) : u[n] = u[n - 1]
  BY UptoIs
<1> HIDE DEF u
<1>2. SUFFICES ASSUME T # {} PROVE FALSE
  BY <1>1
<1>3. PICK k \in T : \A j \in T : k =< j
  <2>1. T \in SUBSET Nat
    OBVIOUS
  <2>2. QED
    BY <1>2, <2>1, LeastNat
<1>4. k # 0
  BY <1>1, <1>3
<1>5. k \in 1..Len(a) /\ k - 1 \in 0..Len(a) /\ k - 1 \notin T
  BY <1>1, <1>3, <1>4
<1>6. u[k - 1] = <<>>
  BY <1>5
<1>7. QED
  BY <1>1, <1>3, <1>5, <1>6

\* Nothing is completed by no bytes.
LEMMA CompletedOfNothing == Completed(<<>>) = <<>>
<1> DEFINE e == <<>>
<1>1. e \in Seq(Bytes) /\ Len(e) = 0
  OBVIOUS
<1> HIDE DEF e
<1>2. \A i \in 1..Len(e) : ~IsEnd(e[i])
  BY <1>1
<1>3. Completed(e) = <<>>
  BY <1>1, <1>2, CompletedNone
<1>4. QED
  BY <1>3 DEF e

\* A frame completes its message.
LEMMA CompletedFrame == ASSUME NEW m \in Messages
                        PROVE  Completed(Frame(m)) = <<m>>
<1> DEFINE f == Frame(m)
           n == HeaderSize + m.size
           a == SubSeq(f, 1, n - 1)
           b == SubSeq(f, (n - 1) + 1, Len(f))
<1>1. /\ f \in Seq(Bytes) /\ Len(f) = n /\ n \in Nat /\ n > 2
      /\ \A i \in 1..n : f[i] = [of |-> m, at |-> i]
  BY FrameIs DEF HeaderSize
<1> HIDE DEF f
<1>2. /\ a \in Seq(Bytes) /\ b \in Seq(Bytes) /\ f = a \o b /\ Len(a) = n - 1 /\ Len(b) = 1
      /\ \A i \in 1..n - 1 : a[i] = f[i]
      /\ b[1] = f[n]
  <2>1. n - 1 \in 0..Len(f) /\ (n - 1) + 1 = n /\ Len(f) - (n - 1) = 1
    BY <1>1
  <2>2. /\ a \in Seq(Bytes) /\ b \in Seq(Bytes) /\ Len(a) = n - 1 /\ Len(b) = Len(f) - (n - 1)
        /\ \A i \in 1..n - 1 : a[i] = f[i]
        /\ \A i \in 1..Len(f) - (n - 1) : b[i] = f[(n - 1) + i]
        /\ f = a \o b
    <3> DEFINE k == n - 1
    <3>1. k \in 0..Len(f) /\ f \in Seq(Bytes)
      BY <1>1, <2>1
    <3> HIDE DEF k, n
    <3>2. /\ SubSeq(f, 1, k) \in Seq(Bytes) /\ SubSeq(f, k + 1, Len(f)) \in Seq(Bytes)
          /\ Len(SubSeq(f, 1, k)) = k
          /\ Len(SubSeq(f, k + 1, Len(f))) = Len(f) - k
          /\ \A i \in 1..k : SubSeq(f, 1, k)[i] = f[i]
          /\ \A i \in 1..Len(f) - k : SubSeq(f, k + 1, Len(f))[i] = f[k + i]
          /\ f = SubSeq(f, 1, k) \o SubSeq(f, k + 1, Len(f))
      BY <3>1, SplitSeq
    <3>3. QED
      BY <3>2 DEF k
  <2> HIDE DEF a, b
  <2>3. b[1] = f[n]
    <3>1. 1 \in 1..Len(f) - (n - 1)
      BY <2>1
    <3>2. b[1] = f[(n - 1) + 1]
      BY <2>2, <3>1
    <3>3. QED
      BY <2>1, <3>2
  <2>4. QED
    BY <1>1, <2>1, <2>2, <2>3
<1> HIDE DEF a, b, n
<1>3. Completed(a) = <<>>
  <2>1. ASSUME NEW i \in 1..Len(a) PROVE ~IsEnd(a[i])
    <3>1. a[i] = [of |-> m, at |-> i] /\ i < n
      BY <1>1, <1>2
    <3>2. QED
      BY <1>1, <3>1 DEF IsEnd, n
  <2>2. QED
    BY <1>2, <2>1, CompletedNone
<1>4. Completed(b) = <<m>>
  <2>1. b[1] = [of |-> m, at |-> n]
    BY <1>1, <1>2
  <2>2. IsEnd(b[1])
    BY <2>1 DEF IsEnd, n
  <2> DEFINE u == Upto(b)
  <2>3. b \in Seq(Bytes) /\ Len(b) = 1
    BY <1>2
  <2>4. /\ Completed(b) = u[Len(b)] /\ u[0] = <<>>
        /\ \A i \in 1..Len(b) : u[i] = IF IsEnd(b[i]) THEN Append(u[i - 1], b[i].of) ELSE u[i - 1]
    BY <2>3, UptoIs
  <2> HIDE DEF u
  <2>5. u[1] = Append(u[0], b[1].of)
    BY <2>2, <2>3, <2>4
  <2>6. u[1] = <<m>>
    BY <2>1, <2>4, <2>5
  <2>7. QED
    BY <2>3, <2>4, <2>6
<1>5. Completed(f) = <<>> \o <<m>>
  BY <1>2, <1>3, <1>4, CompletedConcat
<1>6. <<m>> \in Seq(Messages)
  OBVIOUS
<1>7. QED
  BY <1>5, <1>6, ConcatEmptySeq DEF f

----------------------------------------------------------------------------
(* Laps of the ring                                                        *)

\* A number of places in laps and a rest.
LEMMA LapsAre == ASSUME NEW q \in Nat \ {0}, NEW n \in Int, NEW k \in Int, NEW r \in Int,
                        n = k * q + r, 0 =< r, r < q
                 PROVE  n \div q = k
  OBVIOUS

LEMMA LapsExist == ASSUME NEW q \in Nat \ {0}, NEW n \in Nat
                   PROVE  \E k \in Nat : \E r \in 0..q - 1 : n = k * q + r
<1>1. n \div q \in Nat /\ n % q \in 0..q - 1 /\ n = (n \div q) * q + (n % q)
  OBVIOUS
<1>2. QED
  BY <1>1

\* What is left of a sequence without its full laps.
LEMMA UnlappedIs == ASSUME NEW s \in Seq(Messages), NEW k \in Nat, NEW r \in 0..QueueSize - 1,
                           Len(s) = k * QueueSize + r
                    PROVE  /\ Link!Unlapped(s) \in Seq(Messages)
                           /\ Len(Link!Unlapped(s)) = r
                           /\ \A i \in 1..r : Link!Unlapped(s)[i] = s[k * QueueSize + i]
<1> DEFINE n == k * QueueSize
<1>1. QueueSize \in Nat \ {0} /\ QueueSize > 1
  BY Constants
<1>2. n \in Nat
  BY <1>1
<1>3. Len(s) \div QueueSize = k
  <2>1. Len(s) \in Int /\ k \in Int /\ r \in Int /\ 0 =< r /\ r < QueueSize
    BY <1>1
  <2>2. QED
    BY <1>1, <2>1, LapsAre
<1>4. Link!Unlapped(s) = SubSeq(s, n + 1, Len(s))
  BY <1>3 DEF Link!Unlapped, Link!After
<1>5. Len(s) = n + r
  OBVIOUS
<1> HIDE DEF n
<1>6. n \in 0..Len(s) /\ Len(s) - n = r
  BY <1>2, <1>5
<1>7. /\ SubSeq(s, n + 1, Len(s)) \in Seq(Messages)
      /\ Len(SubSeq(s, n + 1, Len(s))) = Len(s) - n
      /\ \A i \in 1..Len(s) - n : SubSeq(s, n + 1, Len(s))[i] = s[n + i]
  BY <1>6, SplitSeq
<1>8. /\ Link!Unlapped(s) \in Seq(Messages)
      /\ Len(Link!Unlapped(s)) = r
      /\ \A i \in 1..r : Link!Unlapped(s)[i] = s[n + i]
  BY <1>4, <1>6, <1>7
<1>9. QED
  BY <1>8 DEF n

\* No lap is full yet, or just one.
LEMMA UnlappedShort == ASSUME NEW s \in Seq(Messages)
                       PROVE  /\ Len(s) < QueueSize => Link!Unlapped(s) = s
                              /\ Len(s) = QueueSize => Link!Unlapped(s) = <<>>
<1> DEFINE u == Link!Unlapped(s)
<1>1. QueueSize \in Nat \ {0} /\ QueueSize > 1 /\ Len(s) \in Nat
  BY Constants
<1>2. ASSUME Len(s) < QueueSize PROVE u = s
  <2>1. Len(s) = 0 * QueueSize + Len(s) /\ Len(s) \in 0..QueueSize - 1 /\ 0 \in Nat
    BY <1>1, <1>2
  <2>2. /\ u \in Seq(Messages) /\ Len(u) = Len(s)
        /\ \A i \in 1..Len(s) : u[i] = s[0 * QueueSize + i]
    BY <2>1, UnlappedIs
  <2>3. \A i \in 1..Len(s) : 0 * QueueSize + i = i
    BY <1>1
  <2> HIDE DEF u
  <2>4. \A i \in 1..Len(s) : u[i] = s[i]
    BY <2>2, <2>3
  <2>5. QED
    BY <2>2, <2>4, SeqEqual
<1>3. ASSUME Len(s) = QueueSize PROVE u = <<>>
  <2>1. Len(s) = 1 * QueueSize + 0 /\ 0 \in 0..QueueSize - 1 /\ 1 \in Nat
    BY <1>1, <1>3
  <2>2. u \in Seq(Messages) /\ Len(u) = 0
    BY <2>1, UnlappedIs
  <2> HIDE DEF u
  <2>3. QED
    BY <2>2
<1>4. QED
  BY <1>2, <1>3

\* Laps may be dropped before or after a message comes.
LEMMA UnlappedAppend == ASSUME NEW s \in Seq(Messages), NEW m \in Messages
                        PROVE  /\ Link!Unlapped(s) \in Seq(Messages)
                               /\ Link!Unlapped(Append(s, m))
                                    = Link!Unlapped(Append(Link!Unlapped(s), m))
<1> DEFINE Q == QueueSize
           u == Link!Unlapped(s)
           sm == Append(s, m)
           um == Append(u, m)
<1>1. Q \in Nat \ {0} /\ Q > 1 /\ Len(s) \in Nat
  BY Constants
<1>2. PICK k \in Nat, r \in 0..Q - 1 : Len(s) = k * Q + r
  BY <1>1, LapsExist
<1>3. u \in Seq(Messages) /\ Len(u) = r /\ \A i \in 1..r : u[i] = s[k * Q + i]
  BY <1>2, UnlappedIs
<1> HIDE DEF u
<1>4. /\ sm \in Seq(Messages) /\ Len(sm) = Len(s) + 1 /\ sm[Len(s) + 1] = m
      /\ \A i \in 1..Len(s) : sm[i] = s[i]
  OBVIOUS
<1>5. /\ um \in Seq(Messages) /\ Len(um) = r + 1 /\ um[r + 1] = m
      /\ \A i \in 1..r : um[i] = u[i]
  BY <1>3
<1> HIDE DEF sm, um
<1>6. CASE r + 1 < Q
  <2>1. Link!Unlapped(um) = um
    BY <1>5, <1>6, UnlappedShort
  <2> DEFINE v == Link!Unlapped(sm)
             n == k * Q
  <2>2. r + 1 \in 0..Q - 1 /\ Len(sm) = k * Q + (r + 1)
    BY <1>1, <1>2, <1>4, <1>6
  <2>3. /\ v \in Seq(Messages) /\ Len(v) = r + 1
        /\ \A i \in 1..r + 1 : v[i] = sm[n + i]
    BY <1>4, <2>2, UnlappedIs
  <2>4. n \in Nat /\ Len(s) = n + r
    BY <1>1, <1>2
  <2>5. \A i \in 1..r : u[i] = s[n + i]
    BY <1>3
  <2> HIDE DEF v, n, Q
  <2>6. ASSUME NEW i \in 1..r + 1 PROVE v[i] = um[i]
    <3>1. CASE i = r + 1
      <4>1. n + i = Len(s) + 1
        BY <2>4, <3>1
      <4>2. QED
        BY <1>4, <1>5, <2>3, <3>1, <4>1
    <3>2. CASE i # r + 1
      <4>1. i \in 1..r /\ n + i \in 1..Len(s)
        BY <2>4, <3>2
      <4>2. QED
        BY <1>4, <1>5, <2>3, <2>5, <4>1
    <3>3. QED
      BY <3>1, <3>2
  <2>7. v = um
    BY <1>5, <2>3, <2>6, SeqEqual
  <2>8. QED
    BY <1>3, <2>1, <2>7 DEF v, u, sm, um
<1>7. CASE r + 1 = Q
  <2>1. Link!Unlapped(um) = <<>>
    BY <1>5, <1>7, UnlappedShort
  <2>2. 0 \in 0..Q - 1 /\ Len(sm) = (k + 1) * Q + 0 /\ k + 1 \in Nat
    BY <1>1, <1>2, <1>4, <1>7
  <2>3. Link!Unlapped(sm) \in Seq(Messages) /\ Len(Link!Unlapped(sm)) = 0
    BY <1>4, <2>2, UnlappedIs
  <2>4. Link!Unlapped(sm) = <<>>
    BY <2>3
  <2>5. QED
    BY <1>3, <2>1, <2>4 DEF u, sm, um
<1>8. QED
  BY <1>1, <1>6, <1>7

\* Enqueueing is an arrival.
LEMMA EnqueueArrives == ASSUME NEW q \in Queues, RingSound(q), NEW m \in Messages
                        PROVE  /\ Contents(Enqueue(q, m)) = Link!Unlapped(Append(Contents(q), m))
                               /\ RingSound(Enqueue(q, m))
<1> DEFINE c == Contents(q)
<1>1. c \in Seq(Messages) /\ Len(c) \in 0..QueueSize - 1
  BY ContentsIs DEF RingSound
<1>2. QueueSize \in Nat /\ QueueSize > 1
  BY Constants
<1> HIDE DEF c
<1>3. Append(c, m) \in Seq(Messages) /\ Len(Append(c, m)) = Len(c) + 1
  BY <1>1
<1>4. CASE Len(c) + 1 < QueueSize
  <2>1. Contents(Enqueue(q, m)) = Append(c, m)
    BY <1>4, EnqueueIs DEF c
  <2>2. Link!Unlapped(Append(c, m)) = Append(c, m)
    BY <1>3, <1>4, UnlappedShort
  <2>3. QED
    BY <1>3, <2>1, <2>2 DEF RingSound, c
<1>5. CASE Len(c) + 1 = QueueSize
  <2>1. Contents(Enqueue(q, m)) = <<>>
    BY <1>5, EnqueueIs DEF c
  <2>2. Link!Unlapped(Append(c, m)) = <<>>
    BY <1>3, <1>5, UnlappedShort
  <2>3. QED
    BY <2>1, <2>2 DEF RingSound, c
<1>6. QED
  BY <1>1, <1>2, <1>4, <1>5

----------------------------------------------------------------------------
(* What the loop of onDataReceived does to the frames and to the ring      *)

\* b0 is x behind a, and r behind x.
Behind(b0, a, x, r) == b0 = a \o (x \o r)

\* The state t of the loop, when b0 was to be read and sent at its start and q0
\* the ring: some frames are gone, their messages have arrived, and the rest r
\* is untouched.
InLoop(t, b0, r, q0) ==
  /\ t \in Loops /\ ~t.bad /\ Partial(t.temp) /\ RingSound(t.queue)
  /\ \E a \in Seq(Bytes) :
       /\ Ended(a)
       /\ Behind(b0, a, t.temp \o t.data, r)
       /\ Contents(t.queue) = Link!Unlapped(Contents(q0) \o Completed(a))

LEMMA CompletedType == ASSUME NEW a \in Seq(Bytes) PROVE Completed(a) \in Seq(Messages)
<1>1. Len(a) \in 0..Len(a)
  OBVIOUS
<1>2. QED
  BY <1>1, UptoIs

\* A frame ends what it stands behind.
LEMMA EndedFrame == ASSUME NEW a \in Seq(Bytes), NEW m \in Messages
                    PROVE  Ended(a \o Frame(m))
<1> DEFINE f == Frame(m)
           n == HeaderSize + m.size
<1>1. f \in Seq(Bytes) /\ Len(f) = n /\ n \in Nat /\ n > 0
      /\ f[n] = [of |-> m, at |-> n]
  <2>1. n \in Nat /\ n \in 1..n
    BY FrameIs DEF HeaderSize
  <2>2. QED
    BY <2>1, FrameIs
<1> HIDE DEF f, n
<1>2. f \in Seq(Bytes)
  BY <1>1
<1>3. Len(a \o f) = Len(a) + Len(f) /\ \A i \in 1..Len(f) : (a \o f)[Len(a) + i] = f[i]
  BY <1>2, ConcatIs
<1>4. (a \o f)[Len(a \o f)] = [of |-> m, at |-> n]
  BY <1>1, <1>3
<1>5. QED
  BY <1>4 DEF Ended, IsEnd, f, n

LEMMA BehindMore == ASSUME NEW a \in Seq(Bytes), NEW f \in Seq(Bytes), NEW d \in Seq(Bytes),
                           NEW r \in Seq(Bytes), NEW b0, NEW x, x = f \o d, Behind(b0, a, x, r)
                    PROVE  Behind(b0, a \o f, d, r)
<1>1. (f \o d) \o r = f \o (d \o r)
  BY ConcatAssociative
<1>2. d \o r \in Seq(Bytes)
  BY ConcatIs
<1>3. \A z \in Seq(Bytes) : (a \o f) \o z = a \o (f \o z)
  BY ConcatAssociative, SMTT(30)
<1>4. (a \o f) \o (d \o r) = a \o (f \o (d \o r))
  BY <1>2, <1>3, SMTT(30)
<1>5. b0 = a \o (x \o r)
  BY DEF Behind
<1>6. b0 = (a \o f) \o (d \o r)
  BY <1>1, <1>4, <1>5
<1>7. QED
  BY <1>6 DEF Behind

LEMMA LoopStep == ASSUME NEW r \in Seq(Bytes), NEW b0 \in Seq(Bytes), Whole(b0),
                         NEW q0 \in Queues, RingSound(q0),
                         NEW s, InLoop(s, b0, r, q0), s.data # <<>>
                  PROVE  InLoop(Turn[s], b0, r, q0) /\ Len(Turn[s].data) < Len(s.data)
<1> DEFINE x == s.temp \o s.data
           t == Turn[s]
<1>1. PICK a \in Seq(Bytes) :
           /\ Ended(a)
           /\ Behind(b0, a, x, r)
           /\ Contents(s.queue) = Link!Unlapped(Contents(q0) \o Completed(a))
  BY DEF InLoop
<1>2. s \in Loops /\ ~s.bad /\ Partial(s.temp) /\ RingSound(s.queue) /\ s.queue \in Queues
      /\ s.temp \in Seq(Bytes) /\ s.data \in Seq(Bytes)
  BY DEF InLoop, Loops
<1>3. x \in Seq(Bytes)
  BY <1>2, ConcatIs
<1> HIDE DEF x
<1>4. Whole(x)
  <2>1. x \o r \in Seq(Bytes)
    BY <1>3, ConcatIs
  <2>2. Whole(x \o r)
    BY <1>1, <2>1, WholeParts DEF Behind
  <2>3. QED
    BY <1>3, <2>2, WholeParts
<1>5. Turned(s, t) /\ Len(t.data) < Len(s.data)
  BY <1>2, <1>4, TurnIs DEF x
<1> HIDE DEF t
<1>6. t \in Loops /\ ~t.bad /\ Partial(t.temp)
  BY <1>5 DEF Turned
<1>7. CASE t.queue = s.queue /\ t.temp \o t.data = s.temp \o s.data
  BY <1>1, <1>2, <1>5, <1>6, <1>7 DEF InLoop, x, t
<1>8. ASSUME NEW m \in Messages,
             t.temp = <<>>, t.queue = Enqueue(s.queue, m), x = Frame(m) \o t.data
      PROVE  InLoop(t, b0, r, q0)
  <2> DEFINE f == Frame(m)
             d == t.data
             af == a \o f
             c0 == Contents(q0)
             ca == Completed(a)
  <2>1. f \in Seq(Bytes) /\ d \in Seq(Bytes) /\ t.temp \o d = d
    BY <1>6, <1>8, FrameIs, ConcatEmptySeq DEF Loops
  <2>2. x = f \o d
    BY <1>8
  <2>3. Ended(af) /\ Completed(af) = ca \o <<m>>
    <3>1. Completed(f) = <<m>>
      BY CompletedFrame
    <3>2. Ended(af)
      BY EndedFrame
    <3>3. Completed(af) = ca \o Completed(f)
      BY <2>1, CompletedConcat
    <3>4. QED
      BY <3>1, <3>2, <3>3
  <2>4. ca \in Seq(Messages) /\ c0 \in Seq(Messages)
    BY CompletedType DEF RingSound
  <2> HIDE DEF f, d, ca, c0
  <2>5. af \in Seq(Bytes)
    BY <2>1, ConcatIs
  <2>6. Behind(b0, af, d, r)
    <3>1. f \in Seq(Bytes) /\ d \in Seq(Bytes)
      BY <2>1
    <3>2. QED
      BY <1>1, <2>2, <3>1, BehindMore
  <2> HIDE DEF af
  <2>8. Contents(t.queue) = Link!Unlapped(c0 \o Completed(af))
    <3>1. Contents(s.queue) = Link!Unlapped(c0 \o ca)
      BY <1>1 DEF c0, ca
    <3>2. /\ Contents(t.queue) = Link!Unlapped(Append(Contents(s.queue), m))
          /\ RingSound(t.queue)
      BY <1>2, <1>8, EnqueueArrives
    <3>3. c0 \o ca \in Seq(Messages)
      BY <2>4
    <3>4. Link!Unlapped(Append(c0 \o ca, m)) = Link!Unlapped(Append(Link!Unlapped(c0 \o ca), m))
      BY <3>3, UnlappedAppend
    <3>5. Append(c0 \o ca, m) = c0 \o Append(ca, m)
      BY <2>4, ConcatAppend
    <3>6. Append(ca, m) = ca \o <<m>>
      BY <2>4, AppendIsConcat
    <3>7. QED
      BY <2>3, <3>1, <3>2, <3>4, <3>5, <3>6
  <2>9. RingSound(t.queue)
    BY <1>2, <1>8, EnqueueArrives
  <2>10. \E a1 \in Seq(Bytes) :
           /\ Ended(a1)
           /\ Behind(b0, a1, t.temp \o t.data, r)
           /\ Contents(t.queue) = Link!Unlapped(Contents(q0) \o Completed(a1))
    BY <2>1, <2>3, <2>5, <2>6, <2>8 DEF d, c0
  <2>11. QED
    BY <1>6, <2>9, <2>10 DEF InLoop
<1>9. QED
  BY <1>5, <1>7, <1>8 DEF Turned, t, x

\* The loop takes all the bytes, and the rest is as InLoop says.
LEMMA LoopIs == ASSUME NEW r \in Seq(Bytes), NEW b0 \in Seq(Bytes), Whole(b0),
                       NEW q0 \in Queues, RingSound(q0),
                       NEW s, InLoop(s, b0, r, q0)
                PROVE  InLoop(Loop(s), b0, r, q0) /\ Loop(s).data = <<>>
<1> DEFINE N == Len(s.data)
           V == [n \in 0..N |-> {t \in Loops : InLoop(t, b0, r, q0) /\ Len(t.data) =< N - n}]
           Step == [n \in 1..N |-> Turn]
           turns == CHOOSE turns : turns = [n \in 0..N |->
                      IF n = 0 THEN s ELSE Turn[turns[n - 1]]]
<1>1. s \in Loops /\ N \in Nat /\ \A t \in Loops : Len(t.data) \in Nat
  BY DEF InLoop, Loops
<1> HIDE DEF N
<1>2. \A n \in 0..N : V[n] = {t \in Loops : InLoop(t, b0, r, q0) /\ Len(t.data) =< N - n}
  OBVIOUS
<1>3. s \in V[0]
  BY <1>1 DEF N
<1>4. ASSUME NEW n \in 1..N, NEW t \in V[n - 1]
      PROVE  Step[n][t] \in V[n]
  <2>1. n - 1 \in 0..N /\ n \in 0..N
    BY <1>1
  <2>2. t \in Loops /\ InLoop(t, b0, r, q0) /\ Len(t.data) =< N - (n - 1) /\ Step[n][t] = Turn[t]
    BY <1>2, <2>1
  <2> HIDE DEF Step
  <2>3. CASE t.data = <<>>
    <3>1. Turn[t] = t
      BY <2>2, <2>3 DEF Turn
    <3>2. Len(t.data) = 0 /\ 0 =< N - n
      BY <1>1, <2>3
    <3>3. QED
      BY <1>2, <2>1, <2>2, <3>1, <3>2
  <2>4. CASE t.data # <<>>
    <3>1. InLoop(Turn[t], b0, r, q0) /\ Len(Turn[t].data) < Len(t.data)
      BY <2>2, <2>4, LoopStep
    <3>2. Turn[t] \in Loops
      BY <3>1 DEF InLoop
    <3>3. Len(Turn[t].data) \in Nat /\ Len(t.data) \in Nat
      BY <1>1, <2>2, <3>2
    <3>4. Len(Turn[t].data) =< N - n
      BY <1>1, <2>2, <3>1, <3>3
    <3>5. QED
      BY <1>2, <2>1, <2>2, <3>1, <3>2, <3>4
  <2>5. QED
    BY <2>3, <2>4
<1> HIDE DEF V
<1>5. \E f : Recursive(f, N, s, Step)
  BY <1>1, <1>3, <1>4, Recursion
<1>6. \A f : Recursive(f, N, s, Step) => \A n \in 0..N : f[n] \in V[n]
  BY <1>1, <1>3, <1>4, Recursion
<1>7. \A f : Recursive(f, N, s, Step)
               <=> f = [n \in 0..N |-> IF n = 0 THEN s ELSE Turn[f[n - 1]]]
  <2>1. \A n \in 0..N : n # 0 => Step[n] = Turn
    BY <1>1
  <2> HIDE DEF Step
  <2>2. ASSUME NEW f
        PROVE  [n \in 0..N |-> IF n = 0 THEN s ELSE Step[n][f[n - 1]]]
                 = [n \in 0..N |-> IF n = 0 THEN s ELSE Turn[f[n - 1]]]
    BY <2>1
  <2>3. QED
    BY <2>2 DEF Recursive
<1>8. Recursive(turns, N, s, Step)
  BY <1>5, <1>7
<1>9. Loop(s) = turns[N]
  BY DEF Loop, N
<1> HIDE DEF turns, Step
<1>10. turns[N] \in V[N]
  BY <1>1, <1>6, <1>8
<1>11. Loop(s) \in Loops /\ InLoop(Loop(s), b0, r, q0) /\ Len(Loop(s).data) =< N - N
  BY <1>1, <1>2, <1>9, <1>10
<1>12. Len(Loop(s).data) = 0
  BY <1>1, <1>11
<1>13. Loop(s).data \in Seq(Bytes)
  BY <1>11 DEF Loops
<1>14. QED
  BY <1>11, <1>12, <1>13

----------------------------------------------------------------------------
(* The inductive invariant                                                 *)

\* Which parts are empty: nothing is on its way in a broken connection, and
\* nothing is kept without a socket.
Linked == /\ open => clientsocket /\ joined
          /\ ~open => stream = <<>>
          /\ ~socket => sendbuffer = <<>>
          /\ ~clientsocket => tempbuffer = <<>>

\* The bound on the messages sent: those of the server, and a goodbye for every
\* session that has ended.
Counted == /\ sent =< MaxSent + sessions - (IF joined THEN 1 ELSE 0)
           /\ joined => sessions > 0

\* What the client has of a packet, what is on its way and what is to be sent.
Path == tempbuffer \o stream \o sendbuffer

SentBy(bytes, id) == \A i \in 1..Len(bytes) : bytes[i].of.id =< id

\* While the connection lives the path is made of whole frames, of messages
\* already sent, and ends with one unless the server has cut it.
InStep == open => /\ Whole(Path)
                  /\ SentBy(Path, sent)
                  /\ socket => Ended(Path)

\* The client's buffer never holds a complete packet between two reads.
Unparsed == Partial(tempbuffer)

RingIsSound == RingSound(receive_queue)

IInv == TypeOK /\ Linked /\ Counted /\ InStep /\ Unparsed /\ RingIsSound /\ PacketsAreSound

\* What follows an end, and what precedes anything.
LEMMA PathParts == ASSUME NEW a \in Seq(Bytes), NEW b \in Seq(Bytes), NEW id,
                          SentBy(a \o b, id)
                   PROVE  /\ SentBy(a, id) /\ SentBy(b, id)
                          /\ Ended(a \o b) => Ended(b)
<1> DEFINE ab == a \o b
<1>1. /\ Len(a) \in Nat /\ Len(b) \in Nat /\ Len(ab) = Len(a) + Len(b)
      /\ \A i \in 1..Len(a) : ab[i] = a[i]
      /\ \A i \in 1..Len(b) : ab[Len(a) + i] = b[i]
  BY ConcatIs
<1>2. \A i \in 1..Len(ab) : ab[i].of.id =< id
  BY DEF SentBy
<1> HIDE DEF ab
<1>3. SentBy(a, id)
  <2>1. \A i \in 1..Len(a) : i \in 1..Len(ab)
    BY <1>1
  <2>2. QED
    BY <1>1, <1>2, <2>1 DEF SentBy
<1>4. SentBy(b, id)
  <2>1. \A i \in 1..Len(b) : Len(a) + i \in 1..Len(ab)
    BY <1>1
  <2>2. QED
    BY <1>1, <1>2, <2>1 DEF SentBy
<1>5. ASSUME Ended(ab), b # <<>> PROVE IsEnd(b[Len(b)])
  <2>1. Len(b) \in 1..Len(b) /\ Len(ab) # 0
    BY <1>1, <1>5
  <2>2. ab[Len(ab)] = b[Len(b)] /\ ab # <<>>
    BY <1>1, <2>1
  <2>3. QED
    BY <1>5, <2>2 DEF Ended
<1>6. QED
  BY <1>3, <1>4, <1>5 DEF Ended, ab

\* Bytes of the middle of a path may be counted to either side.
LEMMA PathMove == \A t, s, b, f \in Seq(Bytes) : (t \o (s \o b)) \o f = (t \o s) \o (b \o f)
<1> TAKE t, s, b, f \in Seq(Bytes)
<1>1. t \o s \in Seq(Bytes)
  BY ConcatIs
<1>2. \A z \in Seq(Bytes) : (z \o b) \o f = z \o (b \o f)
  BY ConcatAssociative, SMTT(30)
<1>3. ((t \o s) \o b) \o f = (t \o s) \o (b \o f)
  BY <1>1, <1>2, SMTT(30)
<1>4. (t \o s) \o b = t \o (s \o b)
  BY ConcatAssociative, SMTT(30)
<1>5. QED
  BY <1>3, <1>4, Zenon

\* What is on its way is typed.
LEMMA PathType == ASSUME TypeOK PROVE Path \in Seq(Bytes)
<1>1. tempbuffer \in Seq(Bytes) /\ stream \in Seq(Bytes) /\ sendbuffer \in Seq(Bytes)
  BY DEF TypeOK
<1>2. tempbuffer \o stream \in Seq(Bytes)
  BY <1>1, ConcatIs
<1>3. QED
  BY <1>1, <1>2, ConcatIs DEF Path

LEMMA Initially == Init => IInv
<1> SUFFICES ASSUME Init PROVE IInv
  OBVIOUS
<1>1. QueueSize \in Nat /\ QueueSize > 1 /\ MaxSent \in Nat /\ MaxSessions \in Nat
      /\ MaxSize \in Nat /\ MaxSize > 0 /\ BufferSize \in Nat /\ RoomSize \in Nat
  BY Constants, BoundsAssumption
<1>2. EmptyQueue \in Queues
  BY <1>1 DEF EmptyQueue, Queues
<1>3. TypeOK
  <2>1. <<>> \in Seq(Bytes) /\ <<>> \in Seq(Messages) /\ Len(<<>>) = 0
    OBVIOUS
  <2>2. 0 \in 0..MaxSent + MaxSessions /\ 0 \in 0..MaxSessions
    BY <1>1
  <2>3. /\ socket \in BOOLEAN /\ open \in BOOLEAN /\ clientsocket \in BOOLEAN
        /\ joined \in BOOLEAN /\ rejected \in BOOLEAN /\ alive \in BOOLEAN
        /\ sent \in 0..MaxSent + MaxSessions /\ sessions \in 0..MaxSessions
        /\ receive_queue \in Queues
    BY <1>2, <2>2 DEF Init
  <2>4. /\ sendbuffer \in Seq(Bytes) /\ Len(sendbuffer) =< BufferSize
        /\ stream \in Seq(Bytes) /\ Len(stream) =< RoomSize
        /\ tempbuffer \in Seq(Bytes) /\ Len(tempbuffer) < MaxSize
        /\ routed \in Seq(Messages)
    BY <1>1, <2>1 DEF Init
  <2>5. QED
    BY <2>3, <2>4 DEF TypeOK
<1>4. RingIsSound
  <2>1. Len(Contents(EmptyQueue)) = (0 - 0) % QueueSize
    BY <1>2, ContentsIs DEF EmptyQueue
  <2>2. (0 - 0) % QueueSize = 0
    BY <1>1
  <2>3. Contents(EmptyQueue) \in Seq(Messages \cup {Nothing})
    BY <1>2, ContentsIs
  <2>4. Contents(EmptyQueue) = <<>>
    BY <2>1, <2>2, <2>3
  <2>5. QED
    BY <2>4 DEF Init, RingIsSound, RingSound
<1>5. Linked /\ Counted /\ InStep /\ Unparsed /\ PacketsAreSound
  BY <1>1 DEF Init, Linked, Counted, InStep, Unparsed, Partial, PacketsAreSound
<1>6. QED
  BY <1>3, <1>4, <1>5 DEF IInv

----------------------------------------------------------------------------
(* The sending end                                                         *)

\* A frame is appended, or nothing is.
LEMMA PutIs == ASSUME TypeOK, alive, NEW m \in Messages, Put(m)
               PROVE  /\ sendbuffer' \in Seq(Bytes) /\ Len(sendbuffer') =< BufferSize
                      /\ alive' \in BOOLEAN
                      /\ sendbuffer' \in {sendbuffer, sendbuffer \o Frame(m)}
<1> DEFINE f == Frame(m)
           more == sendbuffer \o f
<1>1. f \in Seq(Bytes)
  BY FrameIs
<1>2. sendbuffer \in Seq(Bytes) /\ Len(sendbuffer) =< BufferSize /\ alive \in BOOLEAN
  BY DEF TypeOK
<1> HIDE DEF f
<1>3. more \in Seq(Bytes) /\ Len(more) \in Nat /\ BufferSize \in Nat
  BY <1>1, <1>2, ConcatIs, BoundsAssumption
<1> HIDE DEF more
<1>4. CASE Len(more) > BufferSize
  <2>1. alive' = FALSE /\ sendbuffer' = sendbuffer
    BY <1>4 DEF Put, more, f
  <2>2. QED
    BY <1>2, <2>1
<1>5. CASE ~(Len(more) > BufferSize)
  <2>1. alive' = alive /\ sendbuffer' = more
    BY <1>5 DEF Put, more, f
  <2>2. Len(more) =< BufferSize
    BY <1>3, <1>5
  <2>3. alive' \in BOOLEAN /\ sendbuffer' \in Seq(Bytes) /\ Len(sendbuffer') =< BufferSize
    BY <1>2, <1>3, <2>1, <2>2
  <2>4. QED
    BY <2>1, <2>3 DEF more, f
<1>6. QED
  BY <1>4, <1>5

\* What a send leaves in the buffer, whether it is refused or not.
LEMMA SendIs == ASSUME IInv, NEW size \in Sizes, SendMessage(size)
                PROVE  /\ sendbuffer' \in Seq(Bytes) /\ Len(sendbuffer') =< BufferSize
                       /\ alive' \in BOOLEAN
                       /\ \/ sendbuffer' = sendbuffer
                          \/ \E m \in Messages : /\ m.id = sent + 1
                                                 /\ sendbuffer' = sendbuffer \o Frame(m)
<1>1. sent < MaxSent /\ sent \in Nat /\ MaxSent \in Nat /\ MaxSessions \in Nat /\ alive
      /\ TypeOK /\ AlertSize \in Sizes
  BY Constants DEF SendMessage, IInv, TypeOK
<1>2. \A s \in Sizes : [id |-> sent + 1, size |-> s] \in Messages
  <2>1. sent + 1 \in 1..MaxSent + MaxSessions
    BY <1>1
  <2>2. QED
    BY <2>1 DEF Messages
<1>3. CASE Refused(size)
  <2> DEFINE m == [id |-> sent + 1, size |-> AlertSize]
  <2>1. ReportLoss(sent + 1)
    BY <1>3 DEF SendMessage
  <2>2. m \in Messages /\ m.id = sent + 1
    BY <1>1, <1>2
  <2>3. CASE Refused(AlertSize)
    <3>1. alive' = FALSE /\ sendbuffer' = sendbuffer
      BY <2>1, <2>3 DEF ReportLoss
    <3>2. QED
      BY <1>1, <3>1 DEF TypeOK
  <2>4. CASE ~Refused(AlertSize)
    <3>1. Put(m)
      BY <2>1, <2>4 DEF ReportLoss
    <3> HIDE DEF m
    <3>2. QED
      BY <1>1, <2>2, <3>1, PutIs
  <2>5. QED
    BY <2>3, <2>4
<1>4. CASE ~Refused(size)
  <2> DEFINE m == [id |-> sent + 1, size |-> size]
  <2>1. Put(m)
    BY <1>4 DEF SendMessage
  <2>2. m \in Messages /\ m.id = sent + 1
    BY <1>2
  <2> HIDE DEF m
  <2>3. QED
    BY <1>1, <2>1, <2>2, PutIs
<1>5. QED
  BY <1>3, <1>4

LEMMA PathMore == ASSUME TypeOK, NEW f \in Seq(Bytes), sendbuffer' = sendbuffer \o f,
                         tempbuffer' = tempbuffer, stream' = stream
                  PROVE  Path' = Path \o f
<1>1. tempbuffer \in Seq(Bytes) /\ stream \in Seq(Bytes) /\ sendbuffer \in Seq(Bytes)
  BY DEF TypeOK
<1>2. tempbuffer \o stream \in Seq(Bytes)
  BY <1>1
<1>3. \A y, z \in Seq(Bytes) : (y \o z) \o f = y \o (z \o f)
  BY ConcatAssociative, SMTT(30)
<1>4. ((tempbuffer \o stream) \o sendbuffer) \o f = (tempbuffer \o stream) \o (sendbuffer \o f)
  BY <1>1, <1>2, <1>3, SMTT(30)
<1>5. QED
  BY <1>4 DEF Path

LEMMA SendMessageSafe == ASSUME IInv, NEW size \in Sizes, SendMessage(size)
                         PROVE  IInv'
<1>1. /\ sendbuffer' \in Seq(Bytes) /\ Len(sendbuffer') =< BufferSize
      /\ alive' \in BOOLEAN
      /\ \/ sendbuffer' = sendbuffer
         \/ \E m \in Messages : m.id = sent + 1 /\ sendbuffer' = sendbuffer \o Frame(m)
  BY SendIs
<1>2. /\ socket /\ socket' = socket /\ open' = open /\ stream' = stream
      /\ clientsocket' = clientsocket /\ tempbuffer' = tempbuffer /\ rejected' = rejected
      /\ receive_queue' = receive_queue /\ routed' = routed /\ joined' = joined
      /\ sessions' = sessions /\ sent' = sent + 1 /\ sent < MaxSent
  BY DEF SendMessage, connection, client
<1>3. /\ TypeOK /\ Linked /\ Counted /\ InStep /\ Unparsed /\ RingIsSound /\ PacketsAreSound
      /\ sent \in Nat /\ sessions \in Nat /\ MaxSent \in Nat /\ MaxSessions \in Nat
  BY Constants DEF IInv, TypeOK
<1>4. TypeOK'
  BY <1>1, <1>2, <1>3 DEF TypeOK
<1>5. Linked' /\ Unparsed' /\ RingIsSound' /\ PacketsAreSound'
  BY <1>2, <1>3 DEF Linked, Unparsed, RingIsSound, PacketsAreSound
<1>6. Counted'
  BY <1>2, <1>3 DEF Counted
<1>7. ASSUME open
      PROVE  Whole(Path') /\ SentBy(Path', sent + 1) /\ Ended(Path')
  <2>1. Path \in Seq(Bytes) /\ Whole(Path) /\ SentBy(Path, sent) /\ Ended(Path)
    BY <1>2, <1>3, <1>7, PathType DEF InStep
  <2>2. \A i \in 1..Len(Path) : Path[i].of.id \in Nat /\ Path[i].of.id < sent + 1
    <3>1. \A i \in 1..Len(Path) : Path[i] \in Bytes
      BY <2>1
    <3>2. \A i \in 1..Len(Path) : Path[i].of.id \in Nat
      BY <3>1, ByteIs
    <3>3. QED
      BY <1>3, <2>1, <3>2 DEF SentBy
  <2>3. CASE sendbuffer' = sendbuffer
    <3>1. Path' = Path
      BY <1>2, <2>3 DEF Path
    <3>2. \A i \in 1..Len(Path) : Path[i].of.id =< sent + 1
      BY <1>3, <2>2
    <3>3. QED
      BY <2>1, <3>1, <3>2 DEF SentBy
  <2>4. ASSUME NEW m \in Messages, m.id = sent + 1, sendbuffer' = sendbuffer \o Frame(m)
        PROVE  Whole(Path') /\ SentBy(Path', sent + 1) /\ Ended(Path')
    <3> DEFINE f == Frame(m)
    <3>1. f \in Seq(Bytes) /\ \A i \in 1..Len(f) : f[i].of = m
      <4>1. /\ f \in Seq(Bytes) /\ Len(f) = HeaderSize + m.size
            /\ \A i \in 1..HeaderSize + m.size : f[i] = [of |-> m, at |-> i]
        BY FrameIs
      <4> HIDE DEF f
      <4>2. \A i \in 1..Len(f) : f[i] = [of |-> m, at |-> i]
        BY <4>1
      <4>3. ASSUME NEW i \in 1..Len(f) PROVE f[i].of = m
        <5>1. f[i] = [of |-> m, at |-> i]
          BY <4>2
        <5>2. [of |-> m, at |-> i].of = m
          OBVIOUS
        <5>3. QED
          BY <5>1, <5>2, Zenon
      <4>4. QED
        BY <4>1, <4>3
    <3>2. Path' = Path \o f
      BY <1>2, <1>3, <2>4, <3>1, PathMore
    <3> DEFINE p == Path
    <3>3. Whole(p \o f) /\ Ended(p \o f)
      BY <2>1, <2>2, <2>4, WholeAppend
    <3>4. SentBy(p \o f, sent + 1)
      <4>1. p \in Seq(Bytes) /\ \A i \in 1..Len(p) : p[i].of.id =< sent + 1
        BY <1>3, <2>1, <2>2
      <4>2. \A i \in 1..Len(f) : f[i].of.id =< sent + 1
        BY <1>3, <2>4, <3>1
      <4> HIDE DEF p, f
      <4>3. /\ Len(p) \in Nat /\ Len(f) \in Nat /\ Len(p \o f) = Len(p) + Len(f)
            /\ \A i \in 1..Len(p) : (p \o f)[i] = p[i]
            /\ \A i \in 1..Len(f) : (p \o f)[Len(p) + i] = f[i]
        BY <3>1, <4>1, ConcatIs
      <4>4. ASSUME NEW i \in 1..Len(p \o f) PROVE (p \o f)[i].of.id =< sent + 1
        <5>1. CASE i =< Len(p)
          BY <4>1, <4>3, <5>1
        <5>2. CASE i > Len(p)
          <6>1. i - Len(p) \in 1..Len(f) /\ i = Len(p) + (i - Len(p))
            BY <4>3, <5>2
          <6>2. (p \o f)[Len(p) + (i - Len(p))] = f[i - Len(p)]
            BY <4>3, <6>1
          <6>3. QED
            BY <4>2, <6>1, <6>2
        <5>3. QED
          BY <4>3, <5>1, <5>2
      <4>5. QED
        BY <4>4 DEF SentBy
    <3>5. QED
      BY <3>2, <3>3, <3>4
  <2>5. QED
    BY <1>1, <2>3, <2>4
<1>8. InStep'
  BY <1>2, <1>7 DEF InStep
<1>9. QED
  BY <1>4, <1>5, <1>6, <1>8 DEF IInv

LEMMA PathKept == ASSUME TypeOK, NEW head \in Seq(Bytes), NEW tail \in Seq(Bytes),
                         sendbuffer = head \o tail, sendbuffer' = tail,
                         stream' = stream \o head, tempbuffer' = tempbuffer
                  PROVE  Path' = Path
<1>1. tempbuffer \in Seq(Bytes) /\ stream \in Seq(Bytes)
  BY DEF TypeOK
<1>2. (tempbuffer \o (stream \o head)) \o tail = (tempbuffer \o stream) \o (head \o tail)
  BY <1>1, PathMove, SMTT(30)
<1>3. QED
  BY <1>2 DEF Path

\* Bytes that leave the buffer join the stream: the path is the same.
LEMMA SendRemainingIs == ASSUME TypeOK, SendRemaining
                         PROVE  /\ Path' = Path
                                /\ stream' \in Seq(Bytes) /\ Len(stream') =< RoomSize
                                /\ sendbuffer' \in Seq(Bytes) /\ Len(sendbuffer') =< BufferSize
<1>1. PICK n \in 1..Len(sendbuffer) :
           /\ Len(stream) + n =< RoomSize
           /\ stream' = stream \o SubSeq(sendbuffer, 1, n)
           /\ sendbuffer' = SubSeq(sendbuffer, n + 1, Len(sendbuffer))
  BY DEF SendRemaining
<1>2. /\ tempbuffer \in Seq(Bytes) /\ stream \in Seq(Bytes) /\ sendbuffer \in Seq(Bytes)
      /\ Len(sendbuffer) =< BufferSize /\ Len(sendbuffer) \in Nat /\ BufferSize \in Nat
      /\ RoomSize \in Nat
  BY BoundsAssumption DEF TypeOK
<1> DEFINE head == SubSeq(sendbuffer, 1, n)
           tail == SubSeq(sendbuffer, n + 1, Len(sendbuffer))
<1>3. n \in 0..Len(sendbuffer)
  BY <1>1, <1>2
<1>4. /\ head \in Seq(Bytes) /\ tail \in Seq(Bytes)
      /\ Len(head) = n /\ Len(tail) = Len(sendbuffer) - n
      /\ sendbuffer = head \o tail
  BY <1>2, <1>3, SplitSeq
<1>5. stream' = stream \o head /\ sendbuffer' = tail
  BY <1>1
<1> HIDE DEF head, tail
<1>6. Path' = Path
  <2>1. tempbuffer' = tempbuffer
    BY DEF SendRemaining, client
  <2>2. QED
    BY <1>4, <1>5, <2>1, PathKept
<1>7. stream \o head \in Seq(Bytes) /\ Len(stream \o head) = Len(stream) + n
  BY <1>2, <1>4, ConcatIs
<1>8. Len(stream') =< RoomSize
  BY <1>1, <1>5, <1>7
<1>9. Len(tail) =< BufferSize
  BY <1>2, <1>3, <1>4
<1>10. QED
  BY <1>4, <1>5, <1>6, <1>7, <1>8, <1>9

LEMMA SendRemainingSafe == ASSUME IInv, SendRemaining
                           PROVE  IInv'
<1>1. /\ socket /\ open /\ socket' = socket /\ open' = open
      /\ clientsocket' = clientsocket /\ tempbuffer' = tempbuffer /\ rejected' = rejected
      /\ receive_queue' = receive_queue /\ routed' = routed /\ joined' = joined
      /\ alive' = alive /\ sent' = sent /\ sessions' = sessions
  BY DEF SendRemaining, client
<1>2. TypeOK /\ Linked /\ Counted /\ InStep /\ Unparsed /\ RingIsSound /\ PacketsAreSound
  BY DEF IInv
<1>3. /\ Path' = Path
      /\ stream' \in Seq(Bytes) /\ Len(stream') =< RoomSize
      /\ sendbuffer' \in Seq(Bytes) /\ Len(sendbuffer') =< BufferSize
  BY <1>2, SendRemainingIs
<1>4. TypeOK'
  BY <1>1, <1>2, <1>3 DEF TypeOK
<1>5. Linked' /\ Counted' /\ Unparsed' /\ RingIsSound' /\ PacketsAreSound'
  BY <1>1, <1>2 DEF Linked, Counted, Unparsed, RingIsSound, PacketsAreSound
<1>6. InStep'
  BY <1>1, <1>2, <1>3 DEF InStep
<1>7. QED
  BY <1>4, <1>5, <1>6 DEF IInv

\* A path whose last part is cut off.
LEMMA CutPath == ASSUME NEW t \in Seq(Bytes), NEW s \in Seq(Bytes), NEW b \in Seq(Bytes),
                        NEW id, Whole((t \o s) \o b), SentBy((t \o s) \o b, id)
                 PROVE  Whole((t \o s) \o <<>>) /\ SentBy((t \o s) \o <<>>, id)
<1> DEFINE ts == t \o s
<1>1. ts \in Seq(Bytes)
  BY ConcatIs
<1>2. Whole(ts \o b) /\ SentBy(ts \o b, id)
  OBVIOUS
<1> HIDE DEF ts
<1>3. ts \o <<>> = ts
  BY <1>1, ConcatEmptySeq
<1>4. Whole(ts) /\ SentBy(ts, id)
  BY <1>1, <1>2, WholeParts, PathParts
<1>5. QED
  BY <1>3, <1>4 DEF ts

\* The server's end goes: the buffer is forgotten, and nothing else moves.
LEMMA ServerGone == ASSUME IInv, socket' = FALSE, sendbuffer' = <<>>,
                           UNCHANGED <<connection, client, receive_queue, routed, joined, alive,
                                       sent, sessions>>
                    PROVE  IInv'
<1>1. /\ open' = open /\ stream' = stream /\ clientsocket' = clientsocket
      /\ tempbuffer' = tempbuffer /\ rejected' = rejected
      /\ receive_queue' = receive_queue /\ routed' = routed /\ joined' = joined
      /\ alive' = alive /\ sent' = sent /\ sessions' = sessions
  BY DEF connection, client
<1>2. TypeOK /\ Linked /\ Counted /\ InStep /\ Unparsed /\ RingIsSound /\ PacketsAreSound
  BY DEF IInv
<1>3. sendbuffer' \in Seq(Bytes) /\ Len(sendbuffer') =< BufferSize
  <2>1. Len(<<>>) = 0 /\ <<>> \in Seq(Bytes) /\ BufferSize \in Nat
    BY BoundsAssumption
  <2>2. QED
    BY <2>1
<1>4. TypeOK'
  BY <1>1, <1>2, <1>3 DEF TypeOK
<1>5. Linked' /\ Counted' /\ Unparsed' /\ RingIsSound' /\ PacketsAreSound'
  BY <1>1, <1>2 DEF Linked, Counted, Unparsed, RingIsSound, PacketsAreSound
<1>6. InStep'
  <2>1. ASSUME open PROVE Whole(Path') /\ SentBy(Path', sent)
    <3>1. tempbuffer \in Seq(Bytes) /\ stream \in Seq(Bytes) /\ sendbuffer \in Seq(Bytes)
      BY <1>2 DEF TypeOK
    <3>2. /\ Whole((tempbuffer \o stream) \o sendbuffer)
          /\ SentBy((tempbuffer \o stream) \o sendbuffer, sent)
      BY <1>2, <2>1 DEF InStep, Path
    <3>3. /\ Whole((tempbuffer \o stream) \o <<>>)
          /\ SentBy((tempbuffer \o stream) \o <<>>, sent)
      BY <3>1, <3>2, CutPath
    <3>4. QED
      BY <1>1, <3>3 DEF Path
  <2>2. QED
    BY <1>1, <2>1 DEF InStep
<1>7. QED
  BY <1>4, <1>5, <1>6 DEF IInv

LEMMA LoseClientSafe == ASSUME IInv, LoseClient PROVE IInv'
<1>1. /\ socket' = FALSE /\ sendbuffer' = <<>>
      /\ UNCHANGED <<connection, client, receive_queue, routed, joined, alive, sent, sessions>>
  BY DEF LoseClient
<1>2. QED
  BY <1>1, ServerGone

LEMMA HardCloseSafe == ASSUME IInv, HardClose PROVE IInv'
<1>1. /\ socket' = FALSE /\ sendbuffer' = <<>>
      /\ UNCHANGED <<connection, client, receive_queue, routed, joined, alive, sent, sessions>>
  BY DEF HardClose
<1>2. QED
  BY <1>1, ServerGone

----------------------------------------------------------------------------
(* The connection and the receiving end                                    *)

\* The empty parts of a path that is cut or made new.
LEMMA EmptyParts == /\ <<>> \in Seq(Bytes) /\ Len(<<>>) = 0
                    /\ 0 =< RoomSize /\ 0 < MaxSize /\ 0 =< BufferSize
                    /\ Partial(<<>>) /\ Whole(<<>>) /\ Ended(<<>>)
                    /\ (<<>> \o <<>>) \o <<>> = <<>>
                    /\ \A id : SentBy(<<>>, id)
<1>1. <<>> \in Seq(Bytes) /\ Len(<<>>) = 0 /\ (<<>> \o <<>>) \o <<>> = <<>>
  OBVIOUS
<1>2. RoomSize \in Nat /\ MaxSize \in Nat /\ BufferSize \in Nat /\ AlertSize \in Nat
      /\ AlertSize + 2 =< MaxSize
  BY Constants, BoundsAssumption
<1>3. 0 =< RoomSize /\ 0 < MaxSize /\ 0 =< BufferSize
  BY <1>2
<1>4. Whole(<<>>)
  BY DEF Whole
<1>5. QED
  BY <1>1, <1>3, <1>4 DEF Partial, Ended, SentBy

LEMMA BreakSafe == ASSUME IInv, Break PROVE IInv'
<1>1. /\ open' = FALSE /\ stream' = <<>>
      /\ socket' = socket /\ sendbuffer' = sendbuffer
      /\ clientsocket' = clientsocket /\ tempbuffer' = tempbuffer /\ rejected' = rejected
      /\ receive_queue' = receive_queue /\ routed' = routed /\ joined' = joined
      /\ alive' = alive /\ sent' = sent /\ sessions' = sessions
  BY DEF Break, server, client
<1>2. TypeOK /\ Linked /\ Counted /\ InStep /\ Unparsed /\ RingIsSound /\ PacketsAreSound
  BY DEF IInv
<1>3. stream' \in Seq(Bytes) /\ Len(stream') =< RoomSize
  BY <1>1, EmptyParts
<1>4. TypeOK'
  BY <1>1, <1>2, <1>3 DEF TypeOK
<1>5. Linked' /\ Counted' /\ Unparsed' /\ RingIsSound' /\ PacketsAreSound' /\ InStep'
  BY <1>1, <1>2 DEF Linked, Counted, Unparsed, RingIsSound, PacketsAreSound, InStep
<1>6. QED
  BY <1>4, <1>5 DEF IInv

\* A read parses whole frames off the front of the path, whose messages arrive
\* in the ring; it meets no bad size.
LEMMA ReceiveIs ==
  ASSUME IInv, Receive
  PROVE  /\ UNCHANGED <<open, clientsocket, rejected>>
         /\ tempbuffer' \in Seq(Bytes) /\ Partial(tempbuffer')
         /\ stream' \in Seq(Bytes) /\ Len(stream') =< RoomSize
         /\ receive_queue' \in Queues /\ RingSound(receive_queue')
         /\ Path' \in Seq(Bytes)
         /\ \E a \in Seq(Bytes) :
              /\ Ended(a) /\ Path = a \o Path'
              /\ Contents(receive_queue')
                   = Link!Unlapped(Contents(receive_queue) \o Completed(a))
<1>1. /\ alive /\ clientsocket /\ open /\ ~rejected /\ Whole(Path) /\ Partial(tempbuffer)
      /\ RingSound(receive_queue) /\ TypeOK
  BY DEF Receive, IInv, PacketsAreSound, InStep, Unparsed, RingIsSound
<1>2. /\ tempbuffer \in Seq(Bytes) /\ stream \in Seq(Bytes) /\ sendbuffer \in Seq(Bytes)
      /\ receive_queue \in Queues /\ Len(stream) =< RoomSize /\ Len(stream) \in Nat
      /\ RoomSize \in Nat
  BY <1>1, BoundsAssumption DEF TypeOK
<1>3. PICK n \in 1..Len(stream) : \E s \in {onDataReceived(SubSeq(stream, 1, n))} :
        /\ receive_queue' = s.queue
        /\ tempbuffer' = IF s.bad THEN <<>> ELSE s.temp
        /\ clientsocket' = ~s.bad
        /\ open' = ~s.bad
        /\ stream' = IF s.bad THEN <<>> ELSE SubSeq(stream, n + 1, Len(stream))
        /\ rejected' = s.bad
  BY DEF Receive
<1> DEFINE d == SubSeq(stream, 1, n)
           rest == SubSeq(stream, n + 1, Len(stream))
           r == rest \o sendbuffer
           q0 == receive_queue
           s0 == [temp |-> tempbuffer, data |-> d, queue |-> q0, bad |-> FALSE]
           s == Loop(s0)
           p == Path
<1>4. n \in 0..Len(stream)
  BY <1>2, <1>3
<1>5. /\ d \in Seq(Bytes) /\ rest \in Seq(Bytes) /\ stream = d \o rest
      /\ Len(rest) = Len(stream) - n
  BY <1>2, <1>4, SplitSeq
<1>6. s = onDataReceived(d)
  BY DEF onDataReceived
<1>7. /\ receive_queue' = s.queue
      /\ tempbuffer' = IF s.bad THEN <<>> ELSE s.temp
      /\ clientsocket' = ~s.bad
      /\ open' = ~s.bad
      /\ stream' = IF s.bad THEN <<>> ELSE rest
      /\ rejected' = s.bad
  BY <1>3, <1>6
<1> HIDE DEF d, rest
<1>8. r \in Seq(Bytes) /\ p \in Seq(Bytes) /\ Whole(p)
  BY <1>1, <1>2, <1>5, ConcatIs, PathType
<1>9. Behind(p, <<>>, tempbuffer \o d, r)
  <2>1. (tempbuffer \o (d \o rest)) \o sendbuffer = (tempbuffer \o d) \o (rest \o sendbuffer)
    <3>1. tempbuffer \in Seq(Bytes) /\ d \in Seq(Bytes) /\ rest \in Seq(Bytes)
          /\ sendbuffer \in Seq(Bytes)
      BY <1>2, <1>5
    <3>2. QED
      BY <3>1, PathMove, SMTT(30)
  <2>2. p = (tempbuffer \o d) \o r
    BY <1>5, <2>1 DEF Path
  <2>3. (tempbuffer \o d) \o r \in Seq(Bytes)
    BY <1>8, <2>2
  <2> HIDE DEF r, p
  <2>4. <<>> \o ((tempbuffer \o d) \o r) = (tempbuffer \o d) \o r
    BY <2>3, ConcatEmptySeq
  <2>5. QED
    BY <2>2, <2>4 DEF Behind
<1>10. s0 \in Loops /\ s0.temp = tempbuffer /\ s0.data = d /\ s0.queue = q0 /\ s0.bad = FALSE
  BY <1>2, <1>5 DEF Loops
<1>11. InLoop(s0, p, r, q0)
  <2> DEFINE c == Contents(q0)
  <2>1. c \in Seq(Messages) /\ Len(c) < QueueSize
    <3>1. Len(c) \in 0..QueueSize - 1 /\ QueueSize \in Nat
      BY <1>2, ContentsIs, Constants
    <3>2. QED
      BY <1>1, <3>1 DEF RingSound
  <2>2. Completed(<<>>) = <<>>
    BY CompletedOfNothing
  <2> HIDE DEF c, s0, r, p
  <2>3. c \o <<>> = c
    BY <2>1, ConcatEmptySeq
  <2>4. c = Link!Unlapped(c \o Completed(<<>>))
    BY <2>1, <2>2, <2>3, UnlappedShort
  <2>5. /\ Ended(<<>>) /\ <<>> \in Seq(Bytes)
        /\ Behind(p, <<>>, s0.temp \o s0.data, r)
        /\ Contents(s0.queue) = Link!Unlapped(Contents(q0) \o Completed(<<>>))
    BY <1>9, <1>10, <2>4, EmptyParts DEF c
  <2>6. QED
    BY <1>1, <1>10, <2>5 DEF InLoop
<1> HIDE DEF s0, r, p, q0
<1>12. InLoop(s, p, r, q0) /\ s.data = <<>>
  BY <1>1, <1>2, <1>8, <1>11, LoopIs DEF q0
<1> HIDE DEF s
<1>13. PICK a \in Seq(Bytes) :
         /\ Ended(a)
         /\ Behind(p, a, s.temp \o s.data, r)
         /\ Contents(s.queue) = Link!Unlapped(Contents(q0) \o Completed(a))
  BY <1>12 DEF InLoop
<1>14. /\ s.temp \in Seq(Bytes) /\ s.queue \in Queues /\ s.bad = FALSE
       /\ Partial(s.temp) /\ RingSound(s.queue)
  BY <1>12 DEF InLoop, Loops
<1>15. /\ receive_queue' = s.queue /\ tempbuffer' = s.temp /\ stream' = rest
       /\ clientsocket' = TRUE /\ open' = TRUE /\ rejected' = FALSE
       /\ sendbuffer' = sendbuffer
  BY <1>7, <1>14 DEF Receive, server
<1>16. Path' = s.temp \o r /\ Path' \in Seq(Bytes)
  <2>1. (s.temp \o rest) \o sendbuffer = s.temp \o (rest \o sendbuffer)
    <3> DEFINE u == s.temp
    <3>1. u \in Seq(Bytes) /\ rest \in Seq(Bytes) /\ sendbuffer \in Seq(Bytes)
      BY <1>2, <1>5, <1>14
    <3>2. \A x, y, z \in Seq(Bytes) : (x \o y) \o z = x \o (y \o z)
      BY ConcatAssociative, SMTT(30)
    <3> HIDE DEF u
    <3>3. (u \o rest) \o sendbuffer = u \o (rest \o sendbuffer)
      BY <3>1, <3>2, SMTT(30)
    <3>4. QED
      BY <3>3 DEF u
  <2>2. s.temp \o r \in Seq(Bytes)
    BY <1>8, <1>14, ConcatIs
  <2>3. Path' = s.temp \o r
    BY <1>15, <2>1 DEF Path, r
  <2>4. QED
    BY <2>2, <2>3
<1>17. p = a \o Path'
  <2>1. s.temp \o s.data = s.temp
    BY <1>12, <1>14, ConcatEmptySeq
  <2>2. QED
    BY <1>13, <1>16, <2>1 DEF Behind
<1>18. Len(stream') =< RoomSize
  BY <1>2, <1>4, <1>5, <1>15
<1>19. UNCHANGED <<open, clientsocket, rejected>>
  BY <1>1, <1>15 DEF TypeOK
<1>20. Contents(receive_queue') = Link!Unlapped(Contents(receive_queue) \o Completed(a))
  BY <1>13, <1>15 DEF q0
<1>21. QED
  BY <1>5, <1>13, <1>14, <1>15, <1>16, <1>17, <1>18, <1>19, <1>20 DEF p

\* What the client keeps of a packet leaves room for a byte more.
LEMMA PartialFits == ASSUME NEW t \in Seq(Bytes), Partial(t) PROVE Len(t) < MaxSize
<1>1. MaxSize \in Nat /\ 0 < MaxSize /\ Len(t) \in Nat
  BY EmptyParts, BoundsAssumption
<1>2. CASE t = <<>>
  BY <1>1, <1>2
<1>3. CASE t # <<>>
  <2>1. t[1] \in Bytes
    BY <1>3
  <2>2. HeaderSize + t[1].of.size =< MaxSize /\ t[1].of.size \in Nat
    BY <2>1, ByteIs
  <2>3. Len(t) < HeaderSize + t[1].of.size
    BY <1>3 DEF Partial
  <2>4. QED
    BY <1>1, <2>2, <2>3 DEF HeaderSize
<1>4. QED
  BY <1>2, <1>3

LEMMA ReceiveSafe == ASSUME IInv, Receive PROVE IInv'
<1>1. /\ socket' = socket /\ sendbuffer' = sendbuffer /\ routed' = routed /\ joined' = joined
      /\ alive' = alive /\ sent' = sent /\ sessions' = sessions /\ open /\ clientsocket
  BY DEF Receive, server
<1>2. TypeOK /\ Linked /\ Counted /\ InStep /\ Unparsed /\ RingIsSound /\ PacketsAreSound
  BY DEF IInv
<1>3. /\ open' = open /\ clientsocket' = clientsocket /\ rejected' = rejected
      /\ tempbuffer' \in Seq(Bytes) /\ Partial(tempbuffer')
      /\ stream' \in Seq(Bytes) /\ Len(stream') =< RoomSize
      /\ receive_queue' \in Queues /\ RingSound(receive_queue')
      /\ Path' \in Seq(Bytes)
  BY ReceiveIs
<1>4. PICK a \in Seq(Bytes) : Ended(a) /\ Path = a \o Path'
  BY ReceiveIs
<1>5. TypeOK'
  <2>1. Len(tempbuffer') < MaxSize
    BY <1>3, PartialFits
  <2>2. QED
    BY <1>1, <1>2, <1>3, <2>1 DEF TypeOK
<1>6. Linked' /\ Counted' /\ PacketsAreSound'
  BY <1>1, <1>2, <1>3 DEF Linked, Counted, PacketsAreSound
<1>7. Unparsed' /\ RingIsSound'
  BY <1>3 DEF Unparsed, RingIsSound
<1>8. InStep'
  <2>1. Whole(a \o Path') /\ SentBy(a \o Path', sent) /\ (socket => Ended(a \o Path'))
    BY <1>1, <1>2, <1>4 DEF InStep
  <2> DEFINE b == Path'
  <2>2. b \in Seq(Bytes) /\ Whole(a \o b) /\ SentBy(a \o b, sent)
    BY <1>3, <2>1
  <2> HIDE DEF b
  <2>3. Whole(b) /\ SentBy(b, sent) /\ (Ended(a \o b) => Ended(b))
    BY <1>4, <2>2, WholeParts, PathParts
  <2>4. Whole(Path') /\ SentBy(Path', sent) /\ (socket => Ended(Path'))
    BY <2>1, <2>3 DEF b
  <2>5. QED
    BY <1>1, <2>4 DEF InStep
<1>9. QED
  BY <1>5, <1>6, <1>7, <1>8 DEF IInv

LEMMA LoseServerSafe == ASSUME IInv, LoseServer PROVE IInv'
<1>1. /\ open' = FALSE /\ clientsocket' = FALSE /\ tempbuffer' = <<>>
      /\ socket' = socket /\ sendbuffer' = sendbuffer /\ stream' = stream /\ rejected' = rejected
      /\ receive_queue' = receive_queue /\ routed' = routed /\ joined' = joined
      /\ alive' = alive /\ sent' = sent /\ sessions' = sessions
      /\ (~open \/ stream = <<>>)
  BY DEF LoseServer, server
<1>2. TypeOK /\ Linked /\ Counted /\ InStep /\ Unparsed /\ RingIsSound /\ PacketsAreSound
  BY DEF IInv
<1>3. tempbuffer' \in Seq(Bytes) /\ Len(tempbuffer') < MaxSize /\ Partial(tempbuffer')
  BY <1>1, EmptyParts
<1>4. TypeOK'
  BY <1>1, <1>2, <1>3 DEF TypeOK
<1>5. Linked' /\ Counted' /\ RingIsSound' /\ PacketsAreSound' /\ InStep'
  BY <1>1, <1>2 DEF Linked, Counted, RingIsSound, PacketsAreSound, InStep
<1>6. QED
  BY <1>3, <1>4, <1>5 DEF IInv, Unparsed

\* A ring that has been drained.
LEMMA DrainedIs == ASSUME NEW q \in Queues
                   PROVE  LET e == [q EXCEPT !.front = q.rear]
                          IN  e \in Queues /\ Contents(e) = <<>> /\ RingSound(e)
<1> DEFINE e == [q EXCEPT !.front = q.rear]
<1>1. e \in Queues /\ e.front = e.rear /\ e.rear \in Int
  BY Constants DEF Queues
<1> HIDE DEF e
<1>2. (e.rear - e.front) % QueueSize = 0
  <2>1. e.rear - e.front = 0 /\ QueueSize \in Nat \ {0}
    BY <1>1, Constants
  <2>2. QED
    BY <2>1
<1>3. Len(Contents(e)) = 0 /\ Contents(e) \in Seq(Messages \cup {Nothing})
  BY <1>1, <1>2, ContentsIs
<1>4. Contents(e) = <<>>
  BY <1>3
<1>5. QED
  BY <1>1, <1>4 DEF RingSound, e

LEMMA RouteMessagesSafe == ASSUME IInv, RouteMessages PROVE IInv'
<1>1. /\ open' = open /\ clientsocket' = clientsocket /\ tempbuffer' = tempbuffer
      /\ socket' = socket /\ sendbuffer' = sendbuffer /\ stream' = stream /\ rejected' = rejected
      /\ joined' = joined /\ alive' = alive /\ sent' = sent /\ sessions' = sessions
      /\ routed' = Contents(receive_queue)
      /\ receive_queue' = [receive_queue EXCEPT !.front = receive_queue.rear]
  BY DEF RouteMessages, server, connection, client
<1>2. TypeOK /\ Linked /\ Counted /\ InStep /\ Unparsed /\ RingIsSound /\ PacketsAreSound
  BY DEF IInv
<1>3. receive_queue' \in Queues /\ RingSound(receive_queue') /\ routed' \in Seq(Messages)
  <2>1. receive_queue \in Queues /\ RingSound(receive_queue)
    BY <1>2 DEF TypeOK, RingIsSound
  <2>2. QED
    BY <1>1, <2>1, DrainedIs DEF RingSound
<1>4. TypeOK'
  BY <1>1, <1>2, <1>3 DEF TypeOK
<1>5. Path' = Path
  BY <1>1 DEF Path
<1>6. Linked' /\ Counted' /\ Unparsed' /\ PacketsAreSound' /\ InStep'
  BY <1>1, <1>2, <1>5 DEF Linked, Counted, Unparsed, PacketsAreSound, InStep
<1>7. QED
  BY <1>3, <1>4, <1>6 DEF IInv, RingIsSound

----------------------------------------------------------------------------
(* The player                                                              *)

LEMMA JoinServerSafe == ASSUME IInv, JoinServer PROVE IInv'
<1>1. /\ joined' = TRUE /\ sessions' = sessions + 1 /\ socket' = TRUE /\ sendbuffer' = <<>>
      /\ open' = TRUE /\ stream' = <<>> /\ clientsocket' = TRUE /\ tempbuffer' = <<>>
      /\ receive_queue' = receive_queue /\ routed' = routed /\ rejected' = rejected
      /\ alive' = alive /\ sent' = sent /\ ~joined /\ sessions < MaxSessions
  BY DEF JoinServer
<1>2. TypeOK /\ Linked /\ Counted /\ InStep /\ Unparsed /\ RingIsSound /\ PacketsAreSound
      /\ sent \in Nat /\ sessions \in Nat /\ MaxSent \in Nat /\ MaxSessions \in Nat
  BY Constants DEF IInv, TypeOK
<1>3. /\ tempbuffer' \in Seq(Bytes) /\ Len(tempbuffer') < MaxSize /\ Partial(tempbuffer')
      /\ stream' \in Seq(Bytes) /\ Len(stream') =< RoomSize
      /\ sendbuffer' \in Seq(Bytes) /\ Len(sendbuffer') =< BufferSize
  BY <1>1, EmptyParts
<1>4. TypeOK'
  BY <1>1, <1>2, <1>3 DEF TypeOK
<1>5. Counted'
  BY <1>1, <1>2 DEF Counted
<1>6. Linked' /\ RingIsSound' /\ PacketsAreSound'
  BY <1>1, <1>2 DEF Linked, RingIsSound, PacketsAreSound
<1>7. InStep'
  <2>1. Path' = <<>>
    BY <1>1, EmptyParts DEF Path
  <2>2. QED
    BY <2>1, EmptyParts DEF InStep
<1>8. QED
  BY <1>3, <1>4, <1>5, <1>6, <1>7 DEF IInv, Unparsed

\* Where the goodbye of a player who has no connection goes.
LEMMA QuitIs == ASSUME IInv, Quit
                PROVE  /\ receive_queue' \in Queues /\ RingSound(receive_queue')
                       /\ \/ receive_queue' = receive_queue /\ sent' = sent
                          \/ /\ ~clientsocket /\ sent' = sent + 1
                             /\ \E m \in Messages : receive_queue' = Enqueue(receive_queue, m)
<1>1. /\ TypeOK /\ Counted /\ sent \in Nat /\ sessions \in Nat /\ MaxSent \in Nat
      /\ MaxSessions \in Nat /\ AlertSize \in Sizes /\ joined /\ sessions =< MaxSessions
  BY Constants DEF IInv, TypeOK, Quit
<1>2. receive_queue \in Queues /\ RingSound(receive_queue)
  BY DEF IInv, TypeOK, RingIsSound
<1>3. CASE clientsocket
  <2>1. receive_queue' = receive_queue /\ sent' = sent
    BY <1>3 DEF Quit
  <2>2. QED
    BY <1>2, <2>1
<1>4. CASE ~clientsocket
  <2> DEFINE m == [id |-> sent + 1, size |-> AlertSize]
  <2>1. sent' = sent + 1 /\ receive_queue' = Enqueue(receive_queue, m)
    BY <1>4 DEF Quit
  <2>2. m \in Messages
    <3>1. sent + 1 \in 1..MaxSent + MaxSessions
      BY <1>1 DEF Counted
    <3>2. QED
      BY <1>1, <3>1 DEF Messages
  <2> HIDE DEF m
  <2>3. receive_queue' \in Queues /\ RingSound(receive_queue')
    BY <1>2, <2>1, <2>2, EnqueueIs, EnqueueArrives
  <2>4. QED
    BY <1>4, <2>1, <2>2, <2>3
<1>5. QED
  BY <1>3, <1>4

LEMMA QuitSafe == ASSUME IInv, Quit PROVE IInv'
<1>1. /\ joined /\ joined' = FALSE /\ socket' = socket /\ sendbuffer' = sendbuffer
      /\ open' = FALSE /\ stream' = <<>> /\ clientsocket' = FALSE /\ tempbuffer' = <<>>
      /\ routed' = routed /\ rejected' = rejected /\ alive' = alive /\ sessions' = sessions
  BY DEF Quit, server
<1>2. TypeOK /\ Linked /\ Counted /\ InStep /\ Unparsed /\ RingIsSound /\ PacketsAreSound
      /\ sent \in Nat /\ sessions \in Nat /\ MaxSent \in Nat /\ MaxSessions \in Nat
      /\ sessions =< MaxSessions
  BY Constants DEF IInv, TypeOK
<1>3. /\ tempbuffer' \in Seq(Bytes) /\ Len(tempbuffer') < MaxSize /\ Partial(tempbuffer')
      /\ stream' \in Seq(Bytes) /\ Len(stream') =< RoomSize
  BY <1>1, EmptyParts
<1>4. receive_queue' \in Queues /\ RingSound(receive_queue') /\ sent' \in {sent, sent + 1}
  BY QuitIs
<1>5. Counted'
  BY <1>1, <1>2, <1>4 DEF Counted
<1>6. TypeOK'
  <2>1. sent' \in 0..MaxSent + MaxSessions
    BY <1>1, <1>2, <1>4 DEF Counted
  <2>2. QED
    BY <1>1, <1>2, <1>3, <1>4, <2>1 DEF TypeOK
<1>7. Linked' /\ PacketsAreSound' /\ InStep'
  BY <1>1, <1>2 DEF Linked, PacketsAreSound, InStep
<1>8. QED
  BY <1>3, <1>4, <1>5, <1>6, <1>7 DEF IInv, Unparsed, RingIsSound

\* The ring of a new NetworkClient.
LEMMA EmptyQueueIs == EmptyQueue \in Queues /\ Contents(EmptyQueue) = <<>> /\ RingSound(EmptyQueue)
<1>1. QueueSize \in Nat /\ QueueSize > 1 /\ Nothing \in Messages \cup {Nothing}
  BY Constants
<1>2. EmptyQueue \in Queues /\ [EmptyQueue EXCEPT !.front = EmptyQueue.rear] = EmptyQueue
  BY <1>1 DEF EmptyQueue, Queues
<1>3. QED
  BY <1>2, DrainedIs

LEMMA HostSafe == ASSUME IInv, Host PROVE IInv'
<1>1. /\ open' = open /\ clientsocket' = clientsocket /\ tempbuffer' = tempbuffer
      /\ socket' = socket /\ sendbuffer' = sendbuffer /\ stream' = stream /\ rejected' = rejected
      /\ joined' = joined /\ alive' = alive /\ sent' = sent /\ sessions' = sessions
      /\ routed' = routed /\ receive_queue' = EmptyQueue
  BY DEF Host, server, connection, client
<1>2. TypeOK /\ Linked /\ Counted /\ InStep /\ Unparsed /\ RingIsSound /\ PacketsAreSound
  BY DEF IInv
<1>3. receive_queue' \in Queues /\ RingSound(receive_queue')
  BY <1>1, EmptyQueueIs
<1>4. TypeOK'
  BY <1>1, <1>2, <1>3 DEF TypeOK
<1>5. Path' = Path
  BY <1>1 DEF Path
<1>6. Linked' /\ Counted' /\ Unparsed' /\ PacketsAreSound' /\ InStep'
  BY <1>1, <1>2, <1>5 DEF Linked, Counted, Unparsed, PacketsAreSound, InStep
<1>7. QED
  BY <1>3, <1>4, <1>6 DEF IInv, RingIsSound

LEMMA IdleSafe == ASSUME IInv, UNCHANGED vars PROVE IInv'
<1>1. /\ open' = open /\ clientsocket' = clientsocket /\ tempbuffer' = tempbuffer
      /\ socket' = socket /\ sendbuffer' = sendbuffer /\ stream' = stream /\ rejected' = rejected
      /\ joined' = joined /\ alive' = alive /\ sent' = sent /\ sessions' = sessions
      /\ routed' = routed /\ receive_queue' = receive_queue
  BY DEF vars, server, connection, client
<1>2. TypeOK /\ Linked /\ Counted /\ InStep /\ Unparsed /\ RingIsSound /\ PacketsAreSound
  BY DEF IInv
<1>3. TypeOK'
  BY <1>1, <1>2 DEF TypeOK
<1>4. Path' = Path
  BY <1>1 DEF Path
<1>5. Linked' /\ Counted' /\ Unparsed' /\ PacketsAreSound' /\ InStep' /\ RingIsSound'
  BY <1>1, <1>2, <1>4 DEF Linked, Counted, Unparsed, PacketsAreSound, InStep, RingIsSound
<1>6. QED
  BY <1>3, <1>5 DEF IInv

LEMMA SafeStep == IInv /\ [Next]_vars => IInv'
<1> SUFFICES ASSUME IInv, [Next]_vars PROVE IInv'
  OBVIOUS
<1>1. ASSUME NEW size \in Sizes, SendMessage(size) PROVE IInv'
  BY <1>1, SendMessageSafe
<1>2. CASE SendRemaining
  BY <1>2, SendRemainingSafe
<1>3. CASE LoseClient
  BY <1>3, LoseClientSafe
<1>4. CASE HardClose
  BY <1>4, HardCloseSafe
<1>5. CASE Break
  BY <1>5, BreakSafe
<1>6. CASE Receive
  BY <1>6, ReceiveSafe
<1>7. CASE LoseServer
  BY <1>7, LoseServerSafe
<1>8. CASE RouteMessages
  BY <1>8, RouteMessagesSafe
<1>9. CASE JoinServer
  BY <1>9, JoinServerSafe
<1>10. CASE Quit
  BY <1>10, QuitSafe
<1>11. CASE Host
  BY <1>11, HostSafe
<1>12. CASE Wrecked \/ UNCHANGED vars
  BY <1>12, IdleSafe DEF Wrecked
<1>13. QED
  BY <1>1, <1>2, <1>3, <1>4, <1>5, <1>6, <1>7, <1>8, <1>9, <1>10, <1>11, <1>12 DEF Next

LEMMA Invariance == Spec => []IInv
<1>1. QED
  BY Initially, SafeStep, PTL DEF Spec

(* Every part keeps its type: no buffer, stream or ring of either end      *)
(* outgrows its bound, and what is routed is a whole message.              *)
THEOREM TypeCorrect == Spec => []TypeOK
<1>1. IInv => TypeOK
  BY DEF IInv
<1>2. QED
  BY <1>1, Invariance, PTL

(* The client never takes a packet of this server for a buggy one: the     *)
(* length at the front of what it holds is always the length of a message, *)
(* however the sends and reads are cut and in every connection.            *)
THEOREM PacketsCorrect == Spec => []PacketsAreSound
<1>1. IInv => PacketsAreSound
  BY DEF IInv
<1>2. QED
  BY <1>1, Invariance, PTL

(* The bytes the client holds, the bytes on their way and the bytes still  *)
(* to be sent follow one another: the two ends agree where frames begin.   *)
THEOREM FramesCorrect == Spec => []FramesAreWhole
<1>1. IInv => FramesAreWhole
  BY DEF IInv, InStep, Path, FramesAreWhole
<1>2. QED
  BY <1>1, Invariance, PTL

----------------------------------------------------------------------------
(* Refinement: the transport implements the channel                        *)

\* What is coming is what the path completes.
ComingSound(coming, now, path) == coming = IF now THEN Completed(path) ELSE <<>>

ComingKnown == ComingSound(Coming, open, Path) /\ Coming \in Seq(Messages)

LEMMA ComingIs == IInv => ComingKnown
<1> SUFFICES ASSUME IInv PROVE ComingSound(Coming, open, Path) /\ Coming \in Seq(Messages)
  BY DEF ComingKnown
<1>1. Linked /\ TypeOK
  BY DEF IInv
<1>2. CASE ~open
  BY <1>2 DEF ComingSound, Coming
<1>3. CASE open
  <2>1. clientsocket /\ (~socket => sendbuffer = <<>>)
    BY <1>1, <1>3 DEF Linked
  <2>2. (IF socket THEN sendbuffer ELSE <<>>) = sendbuffer
    BY <2>1
  <2>3. Coming = Completed(Path)
    BY <1>3, <2>1, <2>2 DEF Coming, Path
  <2>4. Path \in Seq(Bytes)
    BY <1>1, PathType
  <2>5. QED
    BY <1>3, <2>3, <2>4, CompletedType DEF ComingSound
<1>4. QED
  BY <1>2, <1>3

LEMMA ComingBoth == IInv /\ IInv' => ComingKnown /\ ComingKnown'
<1>1. QED
  BY ComingIs, PTL

\* The two parts of a concatenation.
LEMMA PartsOf == ASSUME NEW a \in Seq(Messages), NEW b \in Seq(Messages)
                 PROVE  /\ Len(a) \in 0..Len(a \o b)
                        /\ SubSeq(a \o b, 1, Len(a)) = a
                        /\ SubSeq(a \o b, Len(a) + 1, Len(a \o b)) = b
<1> DEFINE ab == a \o b
           n == Len(a)
           c == SubSeq(ab, 1, n)
           d == SubSeq(ab, n + 1, Len(ab))
<1>1. /\ ab \in Seq(Messages) /\ Len(ab) = n + Len(b) /\ n \in Nat /\ Len(b) \in Nat
      /\ \A i \in 1..n : ab[i] = a[i]
      /\ \A i \in 1..Len(b) : ab[n + i] = b[i]
  BY ConcatIs
<1> HIDE DEF ab
<1>2. n \in 0..Len(ab)
  BY <1>1
<1>3. /\ c \in Seq(Messages) /\ d \in Seq(Messages) /\ Len(c) = n /\ Len(d) = Len(ab) - n
      /\ \A i \in 1..n : c[i] = ab[i]
      /\ \A i \in 1..Len(ab) - n : d[i] = ab[n + i]
  <2> HIDE DEF n
  <2>1. QED
    BY <1>1, <1>2, SplitSeq
<1> HIDE DEF c, d
<1>4. c = a
  <2>1. Len(c) = Len(a) /\ \A i \in 1..Len(c) : c[i] = a[i]
    BY <1>1, <1>3
  <2>2. QED
    BY <1>3, <2>1, SeqEqual
<1>5. d = b
  <2>1. Len(d) = Len(b) /\ \A i \in 1..Len(d) : d[i] = b[i]
    BY <1>1, <1>3
  <2>2. QED
    BY <1>3, <2>1, SeqEqual
<1>6. QED
  BY <1>2, <1>4, <1>5 DEF c, d, ab

\* Nothing moves that the channel shows.
LEMMA Stutters == ASSUME Coming' = Coming, receive_queue' = receive_queue, routed' = routed
                  PROVE  [Link!Next]_(Link!vars)
  BY DEF Link!vars

\* The connection goes, and everything that was coming with it.
LEMMA CutsAll == ASSUME Coming \in Seq(Messages), Coming' = <<>>,
                        receive_queue' = receive_queue, routed' = routed
                 PROVE  [Link!Next]_(Link!vars)
<1>1. 0 \in 0..Len(Coming) /\ SubSeq(Coming, 1, 0) = <<>>
  OBVIOUS
<1>2. Link!Cut(0)
  BY <1>1 DEF Link!Cut
<1>3. QED
  BY <1>1, <1>2 DEF Link!Next

\* Part of the path goes, from its end.
LEMMA CutsEnd == ASSUME NEW a \in Seq(Messages), NEW b \in Seq(Messages),
                        Coming = a \o b, Coming' = a,
                        receive_queue' = receive_queue, routed' = routed
                 PROVE  [Link!Next]_(Link!vars)
<1>1. Len(a) \in 0..Len(Coming) /\ SubSeq(Coming, 1, Len(a)) = a
  BY PartsOf
<1>2. Link!Cut(Len(a))
  BY <1>1 DEF Link!Cut
<1>3. QED
  BY <1>1, <1>2 DEF Link!Next

LEMMA SendSends == ASSUME IInv, IInv', NEW size \in Sizes, SendMessage(size)
                   PROVE  [Link!Next]_(Link!vars)
<1>1. /\ open' = open /\ stream' = stream /\ tempbuffer' = tempbuffer
      /\ receive_queue' = receive_queue /\ routed' = routed
  BY DEF SendMessage, connection, client
<1>2. /\ Coming \in Seq(Messages) /\ ComingSound(Coming, open, Path)
      /\ ComingSound(Coming', open', Path')
  BY ComingBoth DEF ComingKnown
<1>3. CASE ~open
  <2>1. Coming' = Coming
    BY <1>1, <1>2, <1>3 DEF ComingSound
  <2>2. QED
    BY <1>1, <2>1, Stutters
<1>4. CASE sendbuffer' = sendbuffer
  <2>1. Path' = Path
    BY <1>1, <1>4 DEF Path
  <2>2. Coming' = Coming
    BY <1>1, <1>2, <2>1 DEF ComingSound
  <2>3. QED
    BY <1>1, <2>2, Stutters
<1>5. ASSUME open, NEW m \in Messages, sendbuffer' = sendbuffer \o Frame(m)
      PROVE  [Link!Next]_(Link!vars)
  <2>1. TypeOK /\ Frame(m) \in Seq(Bytes) /\ Path \in Seq(Bytes)
    BY FrameIs, PathType DEF IInv
  <2>2. Path' = Path \o Frame(m)
    BY <1>1, <1>5, <2>1, PathMore
  <2>3. Completed(Path \o Frame(m)) = Completed(Path) \o Completed(Frame(m))
    BY <2>1, CompletedConcat
  <2>4. Completed(Frame(m)) = <<m>>
    BY CompletedFrame
  <2>5. Coming = Completed(Path) /\ Coming' = Completed(Path')
    BY <1>1, <1>2, <1>5 DEF ComingSound
  <2>6. Coming' = Coming \o <<m>>
    BY <2>2, <2>3, <2>4, <2>5
  <2>7. Append(Coming, m) = Coming \o <<m>>
    BY <1>2, AppendIsConcat
  <2>8. Link!Send(m)
    BY <1>1, <2>6, <2>7 DEF Link!Send
  <2>9. QED
    BY <2>8 DEF Link!Next
<1>6. QED
  BY <1>3, <1>4, <1>5, SendIs

LEMMA SendRemainingStutters == ASSUME IInv, IInv', SendRemaining
                               PROVE  [Link!Next]_(Link!vars)
<1>1. open' = open /\ receive_queue' = receive_queue /\ routed' = routed
  BY DEF SendRemaining
<1>2. ComingSound(Coming, open, Path) /\ ComingSound(Coming', open', Path')
  BY ComingBoth DEF ComingKnown
<1>3. Path' = Path
  BY SendRemainingIs DEF IInv
<1>4. Coming' = Coming
  BY <1>1, <1>2, <1>3 DEF ComingSound
<1>5. QED
  BY <1>1, <1>4, Stutters

LEMMA ServerGoneCuts == ASSUME IInv, IInv', LoseClient \/ HardClose
                        PROVE  [Link!Next]_(Link!vars)
<1>1. /\ open' = open /\ stream' = stream /\ tempbuffer' = tempbuffer /\ sendbuffer' = <<>>
      /\ receive_queue' = receive_queue /\ routed' = routed
  BY DEF LoseClient, HardClose, connection, client
<1>2. ComingSound(Coming, open, Path) /\ ComingSound(Coming', open', Path')
  BY ComingBoth DEF ComingKnown
<1>3. CASE ~open
  <2>1. Coming' = Coming
    BY <1>1, <1>2, <1>3 DEF ComingSound
  <2>2. QED
    BY <1>1, <2>1, Stutters
<1>4. CASE open
  <2> DEFINE ts == tempbuffer \o stream
             a == Completed(ts)
             b == Completed(sendbuffer)
  <2>1. ts \in Seq(Bytes) /\ sendbuffer \in Seq(Bytes)
    BY ConcatIs DEF IInv, TypeOK
  <2>2. Path = ts \o sendbuffer /\ Path' = ts \o <<>>
    BY <1>1 DEF Path
  <2> HIDE DEF ts
  <2>3. ts \o <<>> = ts
    BY <2>1, ConcatEmptySeq
  <2>4. Completed(ts \o sendbuffer) = a \o b
    BY <2>1, CompletedConcat
  <2>5. a \in Seq(Messages) /\ b \in Seq(Messages)
    BY <2>1, CompletedType
  <2>6. Coming = a \o b /\ Coming' = a
    BY <1>1, <1>2, <1>4, <2>2, <2>3, <2>4 DEF ComingSound
  <2> HIDE DEF a, b
  <2>7. QED
    BY <1>1, <2>5, <2>6, CutsEnd
<1>5. QED
  BY <1>3, <1>4

LEMMA ConnectionGoneCuts == ASSUME IInv, IInv', Break \/ LoseServer
                            PROVE  [Link!Next]_(Link!vars)
<1>1. open' = FALSE /\ receive_queue' = receive_queue /\ routed' = routed
  BY DEF Break, LoseServer
<1>2. Coming \in Seq(Messages) /\ ComingSound(Coming', open', Path')
  BY ComingBoth DEF ComingKnown
<1>3. Coming' = <<>>
  BY <1>1, <1>2 DEF ComingSound
<1>4. QED
  BY <1>1, <1>2, <1>3, CutsAll

LEMMA ReceiveArrives == ASSUME IInv, IInv', Receive
                        PROVE  [Link!Next]_(Link!vars)
<1>1. open /\ routed' = routed
  BY DEF Receive
<1>2. /\ open' = open /\ Path' \in Seq(Bytes)
  BY ReceiveIs
<1>3. ComingSound(Coming, open, Path) /\ ComingSound(Coming', open', Path')
  BY ComingBoth DEF ComingKnown
<1>4. PICK a \in Seq(Bytes) :
           /\ Path = a \o Path'
           /\ Contents(receive_queue') = Link!Unlapped(Contents(receive_queue) \o Completed(a))
  BY ReceiveIs
<1> DEFINE p == Path'
           ca == Completed(a)
           cp == Completed(p)
<1>5. Coming = Completed(Path) /\ Coming' = cp
  BY <1>1, <1>2, <1>3 DEF ComingSound
<1>6. p \in Seq(Bytes) /\ Path = a \o p
  BY <1>2, <1>4
<1> HIDE DEF p
<1>7. Coming = ca \o cp
  BY <1>5, <1>6, CompletedConcat
<1>8. ca \in Seq(Messages) /\ cp \in Seq(Messages)
  BY <1>6, CompletedType
<1>9. Contents(receive_queue') = Link!Unlapped(Contents(receive_queue) \o ca)
  BY <1>4
<1> HIDE DEF ca, cp
<1>10. /\ Len(ca) \in 0..Len(Coming) /\ SubSeq(Coming, 1, Len(ca)) = ca
       /\ SubSeq(Coming, Len(ca) + 1, Len(Coming)) = cp
  BY <1>7, <1>8, PartsOf
<1>11. Link!Arrive(Len(ca))
  BY <1>1, <1>5, <1>9, <1>10 DEF Link!Arrive, Link!After
<1>12. QED
  BY <1>10, <1>11 DEF Link!Next

LEMMA RouteRoutes == ASSUME IInv, IInv', RouteMessages
                     PROVE  [Link!Next]_(Link!vars)
<1>1. /\ open' = open /\ tempbuffer' = tempbuffer /\ stream' = stream
      /\ sendbuffer' = sendbuffer /\ routed' = Contents(receive_queue)
      /\ receive_queue' = [receive_queue EXCEPT !.front = receive_queue.rear]
  BY DEF RouteMessages, server, connection, client
<1>2. ComingSound(Coming, open, Path) /\ ComingSound(Coming', open', Path')
  BY ComingBoth DEF ComingKnown
<1>3. Path' = Path
  BY <1>1 DEF Path
<1>4. Coming' = Coming
  BY <1>1, <1>2, <1>3 DEF ComingSound
<1>5. Contents(receive_queue') = <<>>
  BY <1>1, DrainedIs DEF IInv, TypeOK
<1>6. Link!Route
  BY <1>1, <1>4, <1>5 DEF Link!Route
<1>7. QED
  BY <1>6 DEF Link!Next

LEMMA JoinStutters == ASSUME IInv, IInv', JoinServer
                      PROVE  [Link!Next]_(Link!vars)
<1>1. /\ ~joined /\ open' = TRUE /\ tempbuffer' = <<>> /\ stream' = <<>> /\ sendbuffer' = <<>>
      /\ receive_queue' = receive_queue /\ routed' = routed
  BY DEF JoinServer
<1>2. ComingSound(Coming, open, Path) /\ ComingSound(Coming', open', Path')
  BY ComingBoth DEF ComingKnown
<1>3. ~open
  BY <1>1 DEF IInv, Linked
<1>4. Path' = <<>>
  BY <1>1, EmptyParts DEF Path
<1>5. Coming' = Coming
  BY <1>1, <1>2, <1>3, <1>4, CompletedOfNothing DEF ComingSound
<1>6. QED
  BY <1>1, <1>5, Stutters

LEMMA QuitPosts == ASSUME IInv, IInv', Quit
                   PROVE  [Link!Next]_(Link!vars)
<1>1. open' = FALSE /\ routed' = routed
  BY DEF Quit
<1>2. /\ Coming \in Seq(Messages) /\ ComingSound(Coming, open, Path)
      /\ ComingSound(Coming', open', Path')
  BY ComingBoth DEF ComingKnown
<1>3. Coming' = <<>>
  BY <1>1, <1>2 DEF ComingSound
<1>4. CASE receive_queue' = receive_queue
  BY <1>1, <1>2, <1>3, <1>4, CutsAll
<1>5. ASSUME ~clientsocket, NEW m \in Messages, receive_queue' = Enqueue(receive_queue, m)
      PROVE  [Link!Next]_(Link!vars)
  <2>1. ~open
    BY <1>5 DEF IInv, Linked
  <2>2. Coming = <<>>
    BY <1>2, <2>1 DEF ComingSound
  <2>3. receive_queue \in Queues /\ RingSound(receive_queue)
    BY DEF IInv, TypeOK, RingIsSound
  <2>4. Contents(receive_queue') = Link!Unlapped(Append(Contents(receive_queue), m))
    BY <1>5, <2>3, EnqueueArrives
  <2>5. Link!Post(m)
    BY <1>1, <1>3, <2>2, <2>4 DEF Link!Post
  <2>6. QED
    BY <2>5 DEF Link!Next
<1>6. QED
  BY <1>4, <1>5, QuitIs

LEMMA HostClears == ASSUME IInv, IInv', Host
                    PROVE  [Link!Next]_(Link!vars)
<1>1. /\ ~joined /\ open' = open /\ routed' = routed /\ receive_queue' = EmptyQueue
  BY DEF Host, connection
<1>2. ComingSound(Coming, open, Path) /\ ComingSound(Coming', open', Path')
  BY ComingBoth DEF ComingKnown
<1>3. ~open
  BY <1>1 DEF IInv, Linked
<1>4. Coming = <<>> /\ Coming' = <<>>
  BY <1>1, <1>2, <1>3 DEF ComingSound
<1>5. Contents(receive_queue') = <<>>
  BY <1>1, EmptyQueueIs
<1>6. Link!Clear
  BY <1>1, <1>4, <1>5 DEF Link!Clear
<1>7. QED
  BY <1>6 DEF Link!Next

LEMMA IdleStutters == ASSUME UNCHANGED vars
                      PROVE  [Link!Next]_(Link!vars)
<1>1. /\ open' = open /\ clientsocket' = clientsocket /\ tempbuffer' = tempbuffer
      /\ socket' = socket /\ sendbuffer' = sendbuffer /\ stream' = stream
      /\ routed' = routed /\ receive_queue' = receive_queue
  BY DEF vars, server, connection, client
<1>2. Coming' = Coming
  BY <1>1 DEF Coming
<1>3. QED
  BY <1>1, <1>2, Stutters

LEMMA ChannelStep == IInv /\ IInv' /\ [Next]_vars => [Link!Next]_(Link!vars)
<1> SUFFICES ASSUME IInv, IInv', [Next]_vars PROVE [Link!Next]_(Link!vars)
  OBVIOUS
<1>1. ASSUME NEW size \in Sizes, SendMessage(size) PROVE [Link!Next]_(Link!vars)
  BY <1>1, SendSends
<1>2. CASE SendRemaining
  BY <1>2, SendRemainingStutters
<1>3. CASE LoseClient \/ HardClose
  BY <1>3, ServerGoneCuts
<1>4. CASE Break \/ LoseServer
  BY <1>4, ConnectionGoneCuts
<1>5. CASE Receive
  BY <1>5, ReceiveArrives
<1>6. CASE RouteMessages
  BY <1>6, RouteRoutes
<1>7. CASE JoinServer
  BY <1>7, JoinStutters
<1>8. CASE Quit
  BY <1>8, QuitPosts
<1>9. CASE Host
  BY <1>9, HostClears
<1>10. CASE Wrecked \/ UNCHANGED vars
  BY <1>10, IdleStutters DEF Wrecked
<1>11. QED
  BY <1>1, <1>2, <1>3, <1>4, <1>5, <1>6, <1>7, <1>8, <1>9, <1>10 DEF Next

LEMMA ChannelInit == Init => Link!Init
<1> SUFFICES ASSUME Init PROVE Link!Init
  OBVIOUS
<1>1. open = FALSE /\ receive_queue = EmptyQueue /\ routed = <<>>
  BY DEF Init
<1>2. Coming = <<>>
  BY <1>1 DEF Coming
<1>3. QED
  BY <1>1, <1>2, EmptyQueueIs DEF Link!Init

(* The link keeps what the channel promises, for every size of buffer and  *)
(* ring: messages are routed in the order sent, whole and at most once,    *)
(* however the connection cuts the bytes into pieces and whenever it ends. *)
THEOREM ChannelCorrect == Spec => ChannelSpec
<1>1. QED
  BY Invariance, ChannelInit, ChannelStep, PTL DEF Spec, ChannelSpec, Link!Spec

=============================================================================
