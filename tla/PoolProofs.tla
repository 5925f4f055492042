----------------------------- MODULE PoolProofs ------------------------------
(***************************************************************************)
(* Lemmas about free stacks and about the operations on a pool, which the  *)
(* proofs of the queues share.                                             *)
(***************************************************************************)
EXTENDS MemPool, SequenceTheorems, TLAPS

-----------------------------------------------------------------------------
(* Sequences as stacks and queues of distinct elements.                    *)

\* The elements of a sequence of S.
LEMMA Elements ==
  ASSUME NEW S, NEW s \in Seq(S)
  PROVE  /\ Len(s) \in Nat
         /\ ToSet(s) = {s[i] : i \in 1 .. Len(s)}
         /\ ToSet(s) \subseteq S
         /\ IsInjective(s) <=>
              \A i, j \in 1 .. Len(s) : s[i] = s[j] => i = j
BY LenProperties, ElementOfSeq DEF ToSet, IsInjective

\* What is left of a stack and what was on top of it.
LEMMA FrontLast ==
  ASSUME NEW S, NEW s \in Seq(S), s # << >>
  PROVE  /\ Front(s) \in Seq(S) /\ Last(s) \in S
         /\ ToSet(s) = ToSet(Front(s)) \cup {Last(s)}
         /\ IsInjective(s) => IsInjective(Front(s)) /\ Last(s) \notin ToSet(Front(s))
<1>1. Len(s) \in Nat \ {0}
  BY EmptySeq
<1>2. \A i \in 1 .. Len(s) - 1 : s[i] \in S
  BY <1>1, ElementOfSeq
<1>3. /\ Front(s) \in Seq(S)
      /\ Len(Front(s)) = Len(s) - 1
      /\ \A i \in 1 .. Len(s) - 1 : Front(s)[i] = s[i]
  <2> DEFINE n == Len(s) - 1
  <2>1. n \in Nat
    BY <1>1
  <2> HIDE DEF n
  <2>2. /\ SubSeq(s, 1, n) \in Seq(S)
        /\ Len(SubSeq(s, 1, n)) = IF 1 <= n THEN n - 1 + 1 ELSE 0
        /\ \A i \in 1 .. n - 1 + 1 : SubSeq(s, 1, n)[i] = s[1 + i - 1]
    <3>1. \A i \in 1 .. n : s[i] \in S
      BY <1>2 DEF n
    <3> QED
      BY <3>1, <2>1, SubSeqProperties
  <2>3. \A i \in 1 .. n : i \in 1 .. n - 1 + 1 /\ 1 + i - 1 = i
    BY <2>1
  <2>4. Len(SubSeq(s, 1, n)) = n /\ \A i \in 1 .. n : SubSeq(s, 1, n)[i] = s[i]
    BY <2>1, <2>2, <2>3
  <2> QED
    BY <2>2, <2>4 DEF Front, n
<1>4. Last(s) = s[Len(s)] /\ Last(s) \in S
  BY <1>1, ElementOfSeq DEF Last
<1>5. ToSet(s) = ToSet(Front(s)) \cup {Last(s)}
  <2>1. ToSet(s) = {s[i] : i \in 1 .. Len(s)}
    BY Elements
  <2>2. ToSet(Front(s)) = {s[i] : i \in 1 .. Len(s) - 1}
    BY <1>3, Elements
  <2>3. 1 .. Len(s) = (1 .. Len(s) - 1) \cup {Len(s)}
    BY <1>1
  <2> QED
    BY <2>1, <2>2, <2>3, <1>4
<1>6. ASSUME IsInjective(s)
      PROVE  IsInjective(Front(s)) /\ Last(s) \notin ToSet(Front(s))
  <2>1. \A i, j \in 1 .. Len(s) : s[i] = s[j] => i = j
    BY <1>6, Elements
  <2>2. \A i, j \in 1 .. Len(Front(s)) : Front(s)[i] = Front(s)[j] => i = j
    BY <2>1, <1>1, <1>3
  <2>3. \A i \in 1 .. Len(s) - 1 : Front(s)[i] # Last(s)
    BY <2>1, <1>1, <1>3, <1>4
  <2> QED
    BY <2>2, <2>3, <1>3, Elements
<1> QED
  BY <1>3, <1>4, <1>5, <1>6

\* Two sequences with different elements, one behind the other.
LEMMA ConcatDistinct ==
  ASSUME NEW S, NEW s \in Seq(S), NEW t \in Seq(S)
  PROVE  /\ s \o t \in Seq(S)
         /\ ToSet(s \o t) = ToSet(s) \cup ToSet(t)
         /\ IsInjective(s) /\ IsInjective(t) /\ ToSet(s) \cap ToSet(t) = {}
              => IsInjective(s \o t)
<1>1. Len(s) \in Nat /\ Len(t) \in Nat
  BY LenProperties
<1>2. /\ s \o t \in Seq(S)
      /\ Len(s \o t) = Len(s) + Len(t)
      /\ \A i \in 1 .. Len(s) + Len(t) :
           (s \o t)[i] = IF i <= Len(s) THEN s[i] ELSE t[i - Len(s)]
  BY ConcatProperties
<1>3. /\ ToSet(s) = {s[i] : i \in 1 .. Len(s)}
      /\ ToSet(t) = {t[i] : i \in 1 .. Len(t)}
      /\ ToSet(s \o t) = {(s \o t)[i] : i \in 1 .. Len(s) + Len(t)}
  <2>1. ToSet(s) = {s[i] : i \in 1 .. Len(s)}
    BY Elements
  <2>2. ToSet(t) = {t[i] : i \in 1 .. Len(t)}
    BY Elements
  <2>3. ToSet(s \o t) = {(s \o t)[i] : i \in 1 .. Len(s \o t)}
    BY <1>2, Elements
  <2> QED
    BY <2>1, <2>2, <2>3, <1>2
<1>4. \A i \in 1 .. Len(t) :
        /\ i + Len(s) \in 1 .. Len(s) + Len(t)
        /\ (s \o t)[i + Len(s)] = t[i]
  BY <1>1, <1>2
<1>5. \A i \in 1 .. Len(s) :
        i \in 1 .. Len(s) + Len(t) /\ (s \o t)[i] = s[i]
  BY <1>1, <1>2
<1>6. ToSet(s \o t) \subseteq ToSet(s) \cup ToSet(t)
  <2> SUFFICES ASSUME NEW i \in 1 .. Len(s) + Len(t)
               PROVE  (s \o t)[i] \in ToSet(s) \cup ToSet(t)
    BY <1>3
  <2>1. CASE i <= Len(s)
    BY <2>1, <1>1, <1>2, <1>3
  <2>2. CASE ~(i <= Len(s))
    <3>1. i - Len(s) \in 1 .. Len(t)
      BY <2>2, <1>1
    <3> QED
      BY <3>1, <2>2, <1>2, <1>3
  <2> QED
    BY <2>1, <2>2
<1>7. ToSet(s) \cup ToSet(t) \subseteq ToSet(s \o t)
  BY <1>3, <1>4, <1>5
<1>8. ASSUME IsInjective(s), IsInjective(t), ToSet(s) \cap ToSet(t) = {},
             NEW i \in 1 .. Len(s) + Len(t), NEW j \in 1 .. Len(s) + Len(t),
             (s \o t)[i] = (s \o t)[j]
      PROVE  i = j
  <2>1. \A k, l \in 1 .. Len(s) : s[k] = s[l] => k = l
    BY <1>8, Elements
  <2>2. \A k, l \in 1 .. Len(t) : t[k] = t[l] => k = l
    BY <1>8, Elements
  <2>3. \A k \in 1 .. Len(s), l \in 1 .. Len(t) : s[k] # t[l]
    BY <1>8, <1>3
  <2>4. CASE i <= Len(s) /\ j <= Len(s)
    BY <2>4, <2>1, <1>8, <1>1, <1>2
  <2>5. CASE i <= Len(s) /\ ~(j <= Len(s))
    <3>1. i \in 1 .. Len(s) /\ j - Len(s) \in 1 .. Len(t)
      BY <2>5, <1>1
    <3> QED
      BY <3>1, <2>5, <2>3, <1>8, <1>2
  <2>6. CASE ~(i <= Len(s)) /\ j <= Len(s)
    <3>1. i - Len(s) \in 1 .. Len(t) /\ j \in 1 .. Len(s)
      BY <2>6, <1>1
    <3> QED
      BY <3>1, <2>6, <2>3, <1>8, <1>2
  <2>7. CASE ~(i <= Len(s)) /\ ~(j <= Len(s))
    <3>1. i - Len(s) \in 1 .. Len(t) /\ j - Len(s) \in 1 .. Len(t)
      BY <2>7, <1>1
    <3>2. i - Len(s) = j - Len(s)
      BY <3>1, <2>7, <2>2, <1>8, <1>2
    <3> QED
      BY <3>2, <1>1
  <2> QED
    BY <2>4, <2>5, <2>6, <2>7
<1>9. IsInjective(s) /\ IsInjective(t) /\ ToSet(s) \cap ToSet(t) = {}
        => IsInjective(s \o t)
  BY <1>8, <1>2, Elements
<1> QED
  BY <1>2, <1>6, <1>7, <1>9

\* The first n elements of a sequence, and the others.
LEMMA SplitDistinct ==
  ASSUME NEW S, NEW s \in Seq(S), NEW n \in 0 .. Len(s)
  PROVE  LET a == SubSeq(s, 1, n)
             z == SubSeq(s, n + 1, Len(s))
         IN  /\ a \in Seq(S) /\ z \in Seq(S)
             /\ Len(z) = Len(s) - n
             /\ \A i \in 1 .. Len(s) - n : z[i] = s[n + i]
             /\ ToSet(s) = ToSet(a) \cup ToSet(z)
             /\ IsInjective(s) =>
                  /\ IsInjective(a) /\ IsInjective(z)
                  /\ ToSet(a) \cap ToSet(z) = {}
<1> DEFINE a == SubSeq(s, 1, n)
           z == SubSeq(s, n + 1, Len(s))
<1>1. Len(s) \in Nat /\ n \in Nat
  BY LenProperties
<1>2. \A i \in 1 .. Len(s) : s[i] \in S
  BY ElementOfSeq
<1>3. /\ a \in Seq(S) /\ Len(a) = n
      /\ \A i \in 1 .. n : a[i] = s[i]
  <2>1. \A i \in 1 .. n : s[i] \in S
    BY <1>1, <1>2
  <2> QED
    BY <2>1, <1>1, SubSeqProperties
<1>4. /\ z \in Seq(S) /\ Len(z) = Len(s) - n
      /\ \A i \in 1 .. Len(s) - n : z[i] = s[n + i]
  <2>1. \A i \in n + 1 .. Len(s) : s[i] \in S
    BY <1>1, <1>2
  <2>2. /\ z \in Seq(S)
        /\ Len(z) = IF n + 1 <= Len(s) THEN Len(s) - (n + 1) + 1 ELSE 0
        /\ \A i \in 1 .. Len(s) - (n + 1) + 1 : z[i] = s[n + 1 + i - 1]
    BY <2>1, <1>1, SubSeqProperties
  <2>3. Len(z) = Len(s) - n
    BY <2>2, <1>1
  <2>4. ASSUME NEW i \in 1 .. Len(s) - n PROVE z[i] = s[n + i]
    <3>1. i \in 1 .. Len(s) - (n + 1) + 1 /\ n + 1 + i - 1 = n + i
      BY <1>1
    <3> QED
      BY <3>1, <2>2
  <2> QED
    BY <2>2, <2>3, <2>4
<1> HIDE DEF a, z
<1>5. /\ ToSet(s) = {s[i] : i \in 1 .. Len(s)}
      /\ ToSet(a) = {a[i] : i \in 1 .. n}
      /\ ToSet(z) = {z[i] : i \in 1 .. Len(s) - n}
  <2>1. ToSet(s) = {s[i] : i \in 1 .. Len(s)}
    BY Elements
  <2>2. ToSet(a) = {a[i] : i \in 1 .. Len(a)}
    BY <1>3, Elements
  <2>3. ToSet(z) = {z[i] : i \in 1 .. Len(z)}
    BY <1>4, Elements
  <2> QED
    BY <2>1, <2>2, <2>3, <1>3, <1>4
<1>6. ToSet(s) = ToSet(a) \cup ToSet(z)
  <2>1. ASSUME NEW i \in 1 .. Len(s) PROVE s[i] \in ToSet(a) \cup ToSet(z)
    <3>1. CASE i <= n
      BY <3>1, <1>1, <1>3, <1>5
    <3>2. CASE ~(i <= n)
      <4>1. i - n \in 1 .. Len(s) - n /\ n + (i - n) = i
        BY <3>2, <1>1
      <4> QED
        BY <4>1, <1>4, <1>5
    <3> QED
      BY <3>1, <3>2
  <2>2. ASSUME NEW i \in 1 .. n PROVE a[i] \in ToSet(s)
    BY <1>1, <1>3, <1>5
  <2>3. ASSUME NEW i \in 1 .. Len(s) - n PROVE z[i] \in ToSet(s)
    <3>1. n + i \in 1 .. Len(s)
      BY <1>1
    <3> QED
      BY <3>1, <1>4, <1>5
  <2> QED
    BY <2>1, <2>2, <2>3, <1>5
<1>7. ASSUME IsInjective(s)
      PROVE  /\ IsInjective(a) /\ IsInjective(z)
             /\ ToSet(a) \cap ToSet(z) = {}
  <2>1. \A i, j \in 1 .. Len(s) : s[i] = s[j] => i = j
    BY <1>7, Elements
  <2>2. \A i, j \in 1 .. n : a[i] = a[j] => i = j
    BY <2>1, <1>1, <1>3
  <2>3. ASSUME NEW i \in 1 .. Len(s) - n, NEW j \in 1 .. Len(s) - n, z[i] = z[j]
        PROVE  i = j
    <3>1. n + i \in 1 .. Len(s) /\ n + j \in 1 .. Len(s)
      BY <1>1
    <3>2. n + i = n + j
      BY <3>1, <2>1, <2>3, <1>4
    <3> QED
      BY <3>2, <1>1
  <2>4. ASSUME NEW i \in 1 .. n, NEW j \in 1 .. Len(s) - n
        PROVE  a[i] # z[j]
    <3>1. i \in 1 .. Len(s) /\ n + j \in 1 .. Len(s) /\ i # n + j
      BY <1>1
    <3> QED
      BY <3>1, <2>1, <1>3, <1>4
  <2>5. IsInjective(a)
    <3>1. IsInjective(a) <=> \A i, j \in 1 .. Len(a) : a[i] = a[j] => i = j
      BY <1>3, Elements
    <3> QED
      BY <3>1, <2>2, <1>3
  <2>6. IsInjective(z)
    <3>1. IsInjective(z) <=> \A i, j \in 1 .. Len(z) : z[i] = z[j] => i = j
      BY <1>4, Elements
    <3> QED
      BY <3>1, <2>3, <1>4
  <2>7. ToSet(a) \cap ToSet(z) = {}
    BY <2>4, <1>5
  <2> QED
    BY <2>5, <2>6, <2>7
<1> QED
  BY <1>3, <1>4, <1>6, <1>7 DEF a, z

\* A sequence with an element that is not in it behind it.
LEMMA AppendDistinct ==
  ASSUME NEW S, NEW s \in Seq(S), NEW e \in S
  PROVE  /\ Append(s, e) \in Seq(S)
         /\ ToSet(Append(s, e)) = ToSet(s) \cup {e}
         /\ IsInjective(s) /\ e \notin ToSet(s) => IsInjective(Append(s, e))
<1>1. <<e>> \in Seq(S) /\ ToSet(<<e>>) = {e} /\ IsInjective(<<e>>)
  BY DEF ToSet, IsInjective
<1>2. Append(s, e) = s \o <<e>>
  BY AppendIsConcat
<1> QED
  <2>1. ToSet(s) \cap ToSet(<<e>>) = {} <=> e \notin ToSet(s)
    BY <1>1
  <2>2. /\ s \o <<e>> \in Seq(S)
        /\ ToSet(s \o <<e>>) = ToSet(s) \cup ToSet(<<e>>)
        /\ IsInjective(s) /\ IsInjective(<<e>>) /\ ToSet(s) \cap ToSet(<<e>>) = {}
             => IsInjective(s \o <<e>>)
    BY <1>1, ConcatDistinct
  <2> QED
    BY <1>1, <1>2, <2>1, <2>2

\* A queue with one element more at its end.
LEMMA IsAppended ==
  ASSUME NEW S, NEW s \in Seq(S), NEW u \in Seq(S), NEW e \in S,
         Len(u) = Len(s) + 1, \A k \in 1 .. Len(s) : u[k] = s[k], u[Len(s) + 1] = e
  PROVE  u = Append(s, e)
<1>1. /\ Append(s, e) \in Seq(S)
      /\ Len(Append(s, e)) = Len(s) + 1
      /\ \A k \in 1 .. Len(s) : Append(s, e)[k] = s[k]
      /\ Append(s, e)[Len(s) + 1] = e
  BY AppendProperties
<1>2. \A k \in 1 .. Len(u) : u[k] = Append(s, e)[k]
  <2>1. Len(s) \in Nat
    OBVIOUS
  <2> QED
    BY <1>1, <2>1
<1> QED
  BY <1>1, <1>2, SeqEqual

\* A queue without its first element.
LEMMA IsTail ==
  ASSUME NEW S, NEW s \in Seq(S), NEW u \in Seq(S),
         Len(s) = Len(u) + 1, \A k \in 1 .. Len(u) : u[k] = s[k + 1]
  PROVE  s # << >> /\ Head(s) = s[1] /\ u = Tail(s)
<1>1. s # << >> /\ Len(u) \in Nat
  OBVIOUS
<1>2. /\ Tail(s) \in Seq(S) /\ Len(Tail(s)) = Len(s) - 1
      /\ \A k \in 1 .. Len(Tail(s)) : Tail(s)[k] = s[k + 1]
  BY <1>1, HeadTailProperties
<1>3. u = Tail(s)
  <2>1. Len(u) = Len(Tail(s)) /\ \A k \in 1 .. Len(u) : u[k] = Tail(s)[k]
    BY <1>1, <1>2
  <2> QED
    BY <1>2, <2>1, SeqEqual
<1> QED
  BY <1>1, <1>3

-----------------------------------------------------------------------------
(* Types.                                                                  *)

\* An entry of the pool is a buffer, and a buffer is its pool and its entry.
LEMMA BufferPair ==
  ASSUME NEW b \in Buffer
  PROVE  b[1] \in Pool /\ b[2] \in Entry /\ b = <<b[1], b[2]>>
BY DEF Buffer

\* The buffer that alloc_buf returns is one of the pool, and taking it leaves a
\* free stack of entries.
LEMMA PoppedType ==
  ASSUME PoolTypeOK, NEW p \in Pool, CanAlloc(p)
  PROVE  /\ Top(p) \in Buffer
         /\ Popped(p) \in [Pool -> Seq(Entry)]
<1> DEFINE s == free_stack[p]
<1>1. s \in Seq(Entry) /\ s # << >>
  BY DEF PoolTypeOK, CanAlloc
<1>2. Last(s) \in Entry /\ Front(s) \in Seq(Entry)
  BY <1>1, FrontLast
<1> QED
  BY <1>2 DEF PoolTypeOK, Top, Popped, Buffer

\* The buffer that alloc_buf returns is free before.
LEMMA TopIsFree ==
  ASSUME PoolTypeOK, NEW p \in Pool, CanAlloc(p)
  PROVE  Top(p) \in Buffer /\ IsFree(Top(p))
<1>1. PICK s : s = free_stack[p]
  OBVIOUS
<1>2. s \in Seq(Entry) /\ s # << >>
  BY <1>1 DEF PoolTypeOK, CanAlloc
<1>3. ToSet(s) = ToSet(Front(s)) \cup {Last(s)}
  BY <1>2, FrontLast
<1> QED
  BY <1>1, <1>3, PoppedType DEF IsFree, Top

\* Entries that go back to a pool leave a free stack of entries.
LEMMA PushedType ==
  ASSUME PoolTypeOK, NEW p \in Pool, NEW ids \in Seq(Entry)
  PROVE  Pushed(p, ids) \in [Pool -> Seq(Entry)]
<1>1. free_stack[p] \in Seq(Entry)
  BY DEF PoolTypeOK
<1>2. free_stack[p] \o ids \in Seq(Entry)
  BY <1>1, ConcatProperties
<1> QED
  BY <1>2 DEF PoolTypeOK, Pushed

\* A packet that the application allocates or drops keeps the pools' types.
LEMMA AllocPktType ==
  ASSUME PoolTypeOK, NEW p \in Pool, NEW f \in Frame, AllocPkt(p, f)
  PROVE  PoolTypeOK'
<1>1. Top(p) \in Buffer /\ Popped(p) \in [Pool -> Seq(Entry)]
  BY PoppedType DEF AllocPkt
<1> QED
  BY <1>1 DEF AllocPkt, PoolTypeOK

\* The drop of a packet keeps the types of the pool.
LEMMA DropPktType ==
  ASSUME PoolTypeOK, NEW b \in held, DropPkt(b)
  PROVE  PoolTypeOK'
<1>1. b[1] \in Pool /\ b[2] \in Entry
  BY BufferPair DEF PoolTypeOK
<1>2. <<b[2]>> \in Seq(Entry)
  BY <1>1
<1>3. Pushed(b[1], <<b[2]>>) \in [Pool -> Seq(Entry)]
  BY <1>1, <1>2, PushedType
<1> QED
  BY <1>3 DEF DropPkt, FreeBuf, PoolTypeOK

-----------------------------------------------------------------------------
(* Owners.                                                                 *)

\* alloc_buf takes the buffer that was on top, and no other, off the stacks.
LEMMA PoppedOwned ==
  ASSUME PoolTypeOK, NEW p \in Pool, CanAlloc(p),
         \A q \in Pool : IsInjective(free_stack[q]),
         free_stack' = Popped(p)
  PROVE  /\ \A q \in Pool : IsInjective(free_stack'[q])
         /\ Top(p) \in Buffer /\ IsFree(Top(p))
         /\ \A b \in Buffer : IsFree(b)' <=> IsFree(b) /\ b # Top(p)
<1> DEFINE s == free_stack[p]
<1>1. s \in Seq(Entry) /\ s # << >> /\ IsInjective(s)
  BY DEF PoolTypeOK, CanAlloc
<1>2. /\ ToSet(s) = ToSet(Front(s)) \cup {Last(s)}
      /\ IsInjective(Front(s))
      /\ Last(s) \notin ToSet(Front(s))
  BY <1>1, FrontLast
<1>3. Top(p) \in Buffer /\ Top(p)[1] = p /\ Top(p)[2] = Last(s)
  BY PoppedType DEF Top
<1>4. /\ free_stack'[p] = Front(s)
      /\ \A q \in Pool : q # p => free_stack'[q] = free_stack[q]
  BY DEF Popped, PoolTypeOK
<1>5. ASSUME NEW b \in Buffer PROVE IsFree(b)' <=> IsFree(b) /\ b # Top(p)
  <2>1. b[1] \in Pool /\ (b = Top(p) <=> b[1] = p /\ b[2] = Last(s))
    BY <1>3, BufferPair
  <2>2. CASE b[1] = p
    BY <2>1, <2>2, <1>2, <1>4 DEF IsFree
  <2>3. CASE b[1] # p
    BY <2>1, <2>3, <1>4 DEF IsFree
  <2> QED
    BY <2>2, <2>3
<1>6. \A q \in Pool : IsInjective(free_stack'[q])
  BY <1>2, <1>4
<1>7. IsFree(Top(p))
  BY <1>2, <1>3 DEF IsFree
<1> QED
  BY <1>3, <1>5, <1>6, <1>7

\* Entries that go back to a pool are free then, and no others.
LEMMA PushedOwned ==
  ASSUME PoolTypeOK, NEW p \in Pool, NEW ids \in Seq(Entry),
         \A q \in Pool : IsInjective(free_stack[q]),
         IsInjective(ids),
         \A n \in ToSet(ids) : ~IsFree(<<p, n>>),
         free_stack' = Pushed(p, ids)
  PROVE  /\ \A q \in Pool : IsInjective(free_stack'[q])
         /\ \A b \in Buffer :
              IsFree(b)' <=> IsFree(b) \/ (b[1] = p /\ b[2] \in ToSet(ids))
<1> DEFINE s == free_stack[p]
<1>1. s \in Seq(Entry) /\ IsInjective(s)
  BY DEF PoolTypeOK
<1>2. ToSet(s) \cap ToSet(ids) = {}
  BY DEF IsFree
<1>3. ToSet(s \o ids) = ToSet(s) \cup ToSet(ids) /\ IsInjective(s \o ids)
  BY <1>1, <1>2, ConcatDistinct
<1>4. /\ free_stack'[p] = s \o ids
      /\ \A q \in Pool : q # p => free_stack'[q] = free_stack[q]
  BY DEF Pushed, PoolTypeOK
<1>5. ASSUME NEW b \in Buffer
      PROVE  IsFree(b)' <=> IsFree(b) \/ (b[1] = p /\ b[2] \in ToSet(ids))
  <2>1. b[1] \in Pool
    BY BufferPair
  <2>2. CASE b[1] = p
    BY <2>2, <1>3, <1>4 DEF IsFree
  <2>3. CASE b[1] # p
    BY <2>1, <2>3, <1>4 DEF IsFree
  <2> QED
    BY <2>2, <2>3
<1>6. \A q \in Pool : IsInjective(free_stack'[q])
  BY <1>3, <1>4
<1> QED
  BY <1>5, <1>6

\* A packet that the application allocates gets a buffer that had no other
\* owner.
LEMMA AllocPktOwned ==
  ASSUME PoolTypeOK, NEW Q, OwnedOnce(Q), NEW p \in Pool, NEW f \in Frame,
         AllocPkt(p, f)
  PROVE  OwnedOnce(Q)'
<1>1. /\ \A q \in Pool : IsInjective(free_stack'[q])
      /\ Top(p) \in Buffer /\ IsFree(Top(p))
      /\ \A b \in Buffer : IsFree(b)' <=> IsFree(b) /\ b # Top(p)
  BY PoppedOwned DEF AllocPkt, OwnedOnce
<1>2. held' = held \cup {Top(p)}
  BY DEF AllocPkt
<1> QED
  BY <1>1, <1>2 DEF OwnedOnce

\* A packet that the application drops is not free yet, so that the check of
\* free_buf passes, and its buffer has no other owner afterwards.
LEMMA DropPktOwned ==
  ASSUME PoolTypeOK, NEW Q, OwnedOnce(Q), NEW b \in held, DropPkt(b)
  PROVE  OwnedOnce(Q)' /\ UNCHANGED panicked
<1>1. b \in Buffer /\ b[1] \in Pool /\ b[2] \in Entry /\ b = <<b[1], b[2]>>
  BY BufferPair DEF PoolTypeOK
<1>2. ~IsFree(b)
  BY <1>1 DEF OwnedOnce
<1>3. free_stack' = Pushed(b[1], <<b[2]>>) /\ UNCHANGED panicked
  BY <1>2 DEF DropPkt, FreeBuf
<1>4. <<b[2]>> \in Seq(Entry) /\ ToSet(<<b[2]>>) = {b[2]} /\ IsInjective(<<b[2]>>)
  BY <1>1 DEF ToSet, IsInjective
<1>5. \A n \in ToSet(<<b[2]>>) : ~IsFree(<<b[1], n>>)
  BY <1>1, <1>2, <1>4
<1>6. /\ \A q \in Pool : IsInjective(free_stack'[q])
      /\ \A c \in Buffer :
           IsFree(c)' <=> IsFree(c) \/ (c[1] = b[1] /\ c[2] \in ToSet(<<b[2]>>))
  BY <1>1, <1>3, <1>4, <1>5, PushedOwned DEF OwnedOnce
<1>7. \A c \in Buffer : IsFree(c)' <=> IsFree(c) \/ c = b
  BY <1>1, <1>4, <1>6, BufferPair
<1>8. held' = held \ {b}
  BY DEF DropPkt
<1> QED
  BY <1>1, <1>3, <1>6, <1>7, <1>8 DEF OwnedOnce
=============================================================================
