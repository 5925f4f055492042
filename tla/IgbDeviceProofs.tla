--------------------------- MODULE IgbDeviceProofs ---------------------------
(***************************************************************************)
(* Proofs about the device of IgbDevice, for every number of queues, ring  *)
(* size, clean batch, pool size and packet_nums.                           *)
(***************************************************************************)
EXTENDS IgbDevice, PoolProofs, RingProofs, WellFoundedInduction

-----------------------------------------------------------------------------
(* Loops.                                                                  *)

\* A set of numbers has a least one.
LEMMA LeastNumber ==
  ASSUME NEW T \in SUBSET Nat, T # {}
  PROVE  \E m \in T : \A k \in T : m <= k
<1>1. PICK m \in T : \A k \in T : <<k, m>> \notin OpToRel(<, Nat)
  BY NatLessThanWellFounded, WFMin
<1>2. \A k \in T : ~(k < m)
  BY <1>1 DEF OpToRel
<1> QED
  BY <1>2

\* g lists what n iterations of F make of a.
Iterates(S, F, a, n, g) ==
  /\ g \in [0 .. n -> S]
  /\ \A k \in 0 .. n : g[k] = IF k = 0 THEN a ELSE F[g[k - 1]]

\* The iterations of a function on S, from a member of S, stay in S.
LEMMA IterationsExist ==
  ASSUME NEW S, NEW F \in [S -> S], NEW a \in S, NEW n \in Nat
  PROVE  \E g : Iterates(S, F, a, n, g)
<1> USE DEF Iterates
<1> DEFINE T == {m \in Nat : ~\E g : Iterates(S, F, a, m, g)}
<1>1. SUFFICES ASSUME T # {} PROVE FALSE
  OBVIOUS
<1>2. PICK m \in T : \A k \in T : m <= k
  BY <1>1, LeastNumber
<1>3. CASE m = 0
  <2>1. Iterates(S, F, a, 0, [k \in 0 .. 0 |-> a])
    OBVIOUS
  <2> QED
    BY <2>1, <1>2, <1>3
<1>4. CASE m # 0
  <2>1. m \in Nat /\ m - 1 \in Nat /\ m - 1 \notin T
    <3>1. m \in Nat /\ \A k \in T : m <= k
      BY <1>2
    <3>2. m - 1 \in Nat /\ ~(m <= m - 1)
      BY <3>1, <1>4
    <3> QED
      BY <3>1, <3>2
  <2>2. PICK g : Iterates(S, F, a, m - 1, g)
    BY <2>1
  <2> DEFINE h == [k \in 0 .. m |-> IF k = m THEN F[g[m - 1]] ELSE g[k]]
  <2>3. g[m - 1] \in S /\ F[g[m - 1]] \in S
    BY <2>1, <2>2
  <2>4. h \in [0 .. m -> S]
    BY <2>1, <2>2, <2>3
  <2>5. ASSUME NEW k \in 0 .. m PROVE h[k] = IF k = 0 THEN a ELSE F[h[k - 1]]
    <3>1. CASE k = m
      <4>1. h[m] = F[g[m - 1]] /\ h[m - 1] = g[m - 1]
        BY <2>1
      <4> QED
        BY <4>1, <3>1, <1>4
    <3>2. CASE k # m
      <4>1. k \in 0 .. m - 1 /\ h[k] = g[k]
        BY <3>2, <2>1
      <4>2. k # 0 => h[k - 1] = g[k - 1]
        BY <4>1, <2>1
      <4> QED
        BY <4>1, <4>2, <2>2
    <3> QED
      BY <3>1, <3>2
  <2>6. Iterates(S, F, a, m, h)
    BY <2>4, <2>5
  <2> QED
    BY <2>6, <1>2
<1> QED
  BY <1>3, <1>4

\* Elements 0 to n that are in S if the one before is.
LEMMA FiniteInduction ==
  ASSUME NEW S, NEW n \in Nat, NEW g,
         g[0] \in S,
         \A k \in 1 .. n : g[k - 1] \in S => g[k] \in S
  PROVE  \A k \in 0 .. n : g[k] \in S
<1> DEFINE T == {k \in 0 .. n : g[k] \notin S}
<1> SUFFICES ASSUME T # {} PROVE FALSE
  OBVIOUS
<1>1. T \in SUBSET Nat
  OBVIOUS
<1>2. PICK m \in T : \A k \in T : m <= k
  BY <1>1, LeastNumber
<1>3. m \in 1 .. n /\ m - 1 \in 0 .. n /\ m - 1 \notin T
  BY <1>2
<1> QED
  BY <1>2, <1>3

\* What holds before the loop of receive_packets and is kept by each iteration
\* holds after it, however many iterations there are: the rule for loops.
LEMMA LoopRule ==
  ASSUME NEW S, NEW q \in RxId, NEW packet_nums \in Nat, NEW keep \in BOOLEAN,
         LoopStart(q) \in S,
         \A s \in S : Iteration(s, keep) \in S
  PROVE  LoopEnd(q, packet_nums, keep) \in S
<1> DEFINE F == [s \in S |-> Iteration(s, keep)]
           Def(g) == [k \in 0 .. packet_nums |->
                        IF k = 0 THEN LoopStart(q) ELSE Iteration(g[k - 1], keep)]
           after == CHOOSE g : g = Def(g)
<1>1. F \in [S -> S]
  OBVIOUS
<1> HIDE DEF F
<1>2. PICK g \in [0 .. packet_nums -> S] :
             \A k \in 0 .. packet_nums : g[k] = IF k = 0 THEN LoopStart(q) ELSE F[g[k - 1]]
  <2>1. PICK g : Iterates(S, F, LoopStart(q), packet_nums, g)
    BY <1>1, IterationsExist
  <2> QED
    BY <2>1 DEF Iterates
<1>3. \A k \in 0 .. packet_nums : k # 0 => g[k - 1] \in S
  BY <1>2
<1>4. g = Def(g)
  BY <1>2, <1>3 DEF F
<1>5. after = Def(after)
  BY <1>4
<1>6. LoopEnd(q, packet_nums, keep) = after[packet_nums]
  BY DEF LoopEnd
<1> HIDE DEF after
<1>7. /\ after[0] = LoopStart(q)
      /\ \A k \in 1 .. packet_nums : after[k] = Iteration(after[k - 1], keep)
  BY <1>5
<1>8. after[packet_nums] \in S
  <2>1. after[0] \in S /\ \A k \in 1 .. packet_nums : after[k - 1] \in S => after[k] \in S
    BY <1>7
  <2>2. \A k \in 0 .. packet_nums : after[k] \in S
    BY <2>1, FiniteInduction
  <2> QED
    BY <2>2
<1> QED
  BY <1>6, <1>8

-----------------------------------------------------------------------------
(* The inductive invariant.                                                *)

RxQueue == [rx_index : Ring, RDT : Ring, RDH : Ring, bufs_in_use : [Ring -> Entry]]
TxQueue == [clean_index : Ring, tx_index : Ring, TDH : Ring, bufs_in_use : Seq(Entry)]

Types == PoolTypeOK /\ rx \in [RxId -> RxQueue] /\ tx \in [TxId -> TxQueue]

\* A transmit ring holds as many entries as it has descriptors in use, and the
\* card is at one of those or behind them.
CountedIn(queue) ==
  /\ Len(queue.bufs_in_use) = Distance(queue.clean_index, queue.tx_index)
  /\ Distance(queue.clean_index, queue.TDH) <= Distance(queue.clean_index, queue.tx_index)

Counted == \A q \in TxId : CountedIn(tx[q])

\* The entries in a receive ring.
OnRing(bufs) == {bufs[i] : i \in Ring}

\* The rings, and the entries in each of them.
RingId    == ({"rx"} \X RxId) \cup ({"tx"} \X TxId)
InRing(r) == IF r[1] = "rx" THEN OnRing(rx[r[2]].bufs_in_use)
                            ELSE ToSet(tx[r[2]].bufs_in_use)
Rings     == UNION {InRing(r) : r \in RingId}

FreeEntries == ToSet(free_stack[P])
InPackets(buffers) == {n \in Entry : <<P, n>> \in buffers}

\* F, H and R are what the pool, the packets and the rings have of the entries E.
Partition(E, F, H, R) ==
  /\ F \cup H \cup R = E
  /\ F \cap H = {} /\ F \cap R = {} /\ H \cap R = {}

\* The entries are divided between the pool, the packets and the rings, and
\* those in the rings between the rings and their places.
Owners ==
  /\ ~panicked
  /\ IsInjective(free_stack[P])
  /\ Partition(Entry, FreeEntries, InPackets(held), Rings)
  /\ \A q \in RxId : IsInjective(rx[q].bufs_in_use)
  /\ \A q \in TxId : IsInjective(tx[q].bufs_in_use)
  /\ \A r, t \in RingId : r # t => InRing(r) \cap InRing(t) = {}

Inv == Types /\ Counted /\ Owners

-----------------------------------------------------------------------------
(* The loop of receive_packets.                                            *)

LoopState ==
  [queue : RxQueue, index : Ring, last : Ring, stack : Seq(Entry),
   given : SUBSET Buffer, ended : BOOLEAN, panic : BOOLEAN]

\* The states of a call to which E, the entries of the pool and of the ring when
\* it started, came: they are divided between the pool, the packets that were
\* given and the ring, and each is there once.
Dividing(E) ==
  {s \in LoopState :
     /\ ~s.panic
     /\ IsInjective(s.stack) /\ IsInjective(s.queue.bufs_in_use)
     /\ Partition(E, ToSet(s.stack), InPackets(s.given), OnRing(s.queue.bufs_in_use))}

\* An element of an injective function on the ring is replaced by another one.
LEMMA Replaced ==
  ASSUME NEW f \in [Ring -> Entry], IsInjective(f), NEW i \in Ring, NEW e \in Entry,
         e \notin OnRing(f)
  PROVE  LET g == [f EXCEPT ![i] = e]
         IN  /\ g \in [Ring -> Entry]
             /\ IsInjective(g)
             /\ OnRing(g) = (OnRing(f) \ {f[i]}) \cup {e}
<1> DEFINE g == [f EXCEPT ![i] = e]
<1>1. g \in [Ring -> Entry] /\ g[i] = e /\ \A k \in Ring : k # i => g[k] = f[k]
  OBVIOUS
<1>2. \A k, l \in Ring : f[k] = f[l] => k = l
  BY DEF IsInjective
<1> HIDE DEF g
<1>3. \A k, l \in Ring : g[k] = g[l] => k = l
  BY <1>1, <1>2 DEF OnRing
<1>4. IsInjective(g)
  BY <1>1, <1>3 DEF IsInjective
<1>5. OnRing(g) = (OnRing(f) \ {f[i]}) \cup {e}
  BY <1>1, <1>2 DEF OnRing
<1> QED
  BY <1>1, <1>4, <1>5 DEF g

\* The entry on top of a stack changes places with one of a ring, which goes to
\* the others or on top of the stack.
LEMMA Exchanged ==
  ASSUME NEW E, NEW H, NEW stack \in Seq(Entry), NEW f \in [Ring -> Entry],
         stack # << >>, IsInjective(stack), IsInjective(f),
         Partition(E, ToSet(stack), H, OnRing(f)),
         NEW i \in Ring
  PROVE  LET rest == Front(stack)
             back == Append(rest, f[i])
             g    == [f EXCEPT ![i] = Last(stack)]
             ring == OnRing(g)
         IN  /\ g \in [Ring -> Entry] /\ IsInjective(g)
             /\ rest \in Seq(Entry) /\ IsInjective(rest)
             /\ back \in Seq(Entry) /\ IsInjective(back)
             /\ f[i] \notin ToSet(rest)
             /\ Partition(E, ToSet(rest), H \cup {f[i]}, ring)
             /\ Partition(E, ToSet(back), H, ring)
<1>1. PICK e \in Entry, rest \in Seq(Entry) :
        /\ e = Last(stack) /\ rest = Front(stack)
        /\ ToSet(stack) = ToSet(rest) \cup {e}
        /\ IsInjective(rest) /\ e \notin ToSet(rest)
  BY FrontLast
<1>2. PICK R : R = OnRing(f)
  OBVIOUS
<1>3. PICK g : g = [f EXCEPT ![i] = e]
  OBVIOUS
<1>4. f[i] \in Entry /\ f[i] \in R /\ f[i] \notin ToSet(stack) /\ e \notin R
  BY <1>1, <1>2 DEF Partition, OnRing
<1>5. /\ g \in [Ring -> Entry] /\ IsInjective(g)
      /\ OnRing(g) = (R \ {f[i]}) \cup {e}
  <2>1. e \notin OnRing(f)
    BY <1>2, <1>4
  <2>2. LET h == [f EXCEPT ![i] = e]
        IN  /\ h \in [Ring -> Entry] /\ IsInjective(h)
            /\ OnRing(h) = (OnRing(f) \ {f[i]}) \cup {e}
    BY <2>1, Replaced
  <2> QED
    BY <2>2, <1>2, <1>3
<1>6. PICK back : back = Append(rest, f[i])
  OBVIOUS
<1>7. /\ back \in Seq(Entry) /\ IsInjective(back)
      /\ ToSet(back) = ToSet(rest) \cup {f[i]}
  BY <1>1, <1>4, <1>6, AppendDistinct
<1>8. PICK T : T = OnRing(g)
  OBVIOUS
<1>9. Partition(E, ToSet(rest), H \cup {f[i]}, T)
  BY <1>1, <1>2, <1>4, <1>5, <1>8 DEF Partition
<1>10. Partition(E, ToSet(back), H, T)
  <2>1. PICK A : A = ToSet(rest)
    OBVIOUS
  <2>2. T = (R \ {f[i]}) \cup {e} /\ ToSet(back) = A \cup {f[i]}
    BY <2>1, <1>5, <1>7, <1>8
  <2>3. Partition(E, A \cup {e}, H, R) /\ f[i] \notin A
    BY <2>1, <1>1, <1>2, <1>4
  <2> QED
    BY <2>2, <2>3, <1>1, <1>4, <2>1 DEF Partition
<1>11. f[i] \notin ToSet(rest)
  BY <1>1, <1>4
<1> QED
  BY <1>1, <1>3, <1>5, <1>6, <1>7, <1>8, <1>9, <1>10, <1>11

\* An iteration exchanges an entry of the pool for one of the ring, which goes
\* to a packet or, when the callback drops that, to the pool.
LEMMA IterationDivides ==
  ASSUME NEW E, NEW s \in Dividing(E), NEW keep \in BOOLEAN
  PROVE  Iteration(s, keep) \in Dividing(E)
<1> DEFINE bufs == s.queue.bufs_in_use
           idle == s.ended \/ s.panic \/ ~Done(s.queue, s.index) \/ s.stack = << >>
<1>1. /\ s \in LoopState /\ s.queue \in RxQueue /\ s.index \in Ring
      /\ s.stack \in Seq(Entry) /\ s.given \subseteq Buffer
      /\ bufs \in [Ring -> Entry]
      /\ ~s.panic /\ IsInjective(s.stack) /\ IsInjective(bufs)
      /\ Partition(E, ToSet(s.stack), InPackets(s.given), OnRing(bufs))
  BY DEF Dividing, LoopState, RxQueue
<1>2. CASE idle
  <2>1. Iteration(s, keep) = [s EXCEPT !.ended = TRUE]
    BY <1>2 DEF Iteration
  <2>2. PICK t : t = [s EXCEPT !.ended = TRUE]
    OBVIOUS
  <2>3. /\ t \in LoopState
        /\ t.queue = s.queue /\ t.stack = s.stack /\ t.given = s.given /\ t.panic = s.panic
    BY <1>1, <2>2 DEF LoopState
  <2>4. t \in Dividing(E)
    BY <2>3, <1>1 DEF Dividing
  <2> QED
    BY <2>1, <2>2, <2>4
<1>3. CASE ~idle
  <2>1. PICK rest, back, g, filled :
          /\ rest = Front(s.stack) /\ filled = bufs[s.index]
          /\ back = Append(rest, filled)
          /\ g = [bufs EXCEPT ![s.index] = Last(s.stack)]
    OBVIOUS
  <2>2. /\ g \in [Ring -> Entry] /\ IsInjective(g) /\ filled \in Entry
        /\ rest \in Seq(Entry) /\ IsInjective(rest)
        /\ back \in Seq(Entry) /\ IsInjective(back)
        /\ filled \notin ToSet(rest)
        /\ Partition(E, ToSet(rest), InPackets(s.given) \cup {filled}, OnRing(g))
        /\ Partition(E, ToSet(back), InPackets(s.given), OnRing(g))
    <3>1. s.stack # << >>
      BY <1>3
    <3>2. filled \in Entry
      BY <1>1, <2>1
    <3> HIDE DEF bufs, idle
    <3>3. PICK H, st, i : H = InPackets(s.given) /\ st = s.stack /\ i = s.index
      OBVIOUS
    <3>4. /\ st \in Seq(Entry) /\ st # << >> /\ IsInjective(st)
          /\ bufs \in [Ring -> Entry] /\ IsInjective(bufs) /\ i \in Ring
          /\ Partition(E, ToSet(st), H, OnRing(bufs))
      BY <1>1, <3>1, <3>3
    <3>5. LET r == Front(st)
              b == Append(r, bufs[i])
              h == [bufs EXCEPT ![i] = Last(st)]
              x == OnRing(h)
          IN  /\ h \in [Ring -> Entry] /\ IsInjective(h)
              /\ r \in Seq(Entry) /\ IsInjective(r)
              /\ b \in Seq(Entry) /\ IsInjective(b)
              /\ bufs[i] \notin ToSet(r)
              /\ Partition(E, ToSet(r), H \cup {bufs[i]}, x)
              /\ Partition(E, ToSet(b), H, x)
      BY <3>4, Exchanged
    <3> QED
      BY <3>2, <3>3, <3>5, <2>1
  <2>3. PICK queue : queue = [s.queue EXCEPT !.bufs_in_use = g]
    OBVIOUS
  <2>4. queue \in RxQueue /\ queue.bufs_in_use = g
    BY <1>1, <2>2, <2>3 DEF RxQueue
  <2>5. PICK given : given = IF keep THEN s.given \cup {<<P, filled>>} ELSE s.given
    OBVIOUS
  <2>6. /\ given \in SUBSET Buffer
        /\ InPackets(given) = IF keep THEN InPackets(s.given) \cup {filled}
                                      ELSE InPackets(s.given)
    BY <1>1, <2>2, <2>5, DeviceAssumption DEF InPackets, Buffer
  <2>7. PICK stack : stack = IF keep THEN rest ELSE back
    OBVIOUS
  <2>8. PICK t : t = [s EXCEPT !.stack = stack, !.given = given, !.panic = FALSE,
                               !.queue = queue, !.last = s.index,
                               !.index = wrap_ring(s.index)]
    OBVIOUS
  <2>9. Iteration(s, keep) = t
    <3>1. Iteration(s, keep) =
            [s EXCEPT !.stack = stack, !.given = given,
                      !.panic = ~keep /\ filled \in ToSet(rest),
                      !.queue = queue, !.last = s.index, !.index = wrap_ring(s.index)]
      BY <1>1, <1>3, <2>1, <2>3, <2>5, <2>7 DEF Iteration, FreshEntry
    <3>2. (~keep /\ filled \in ToSet(rest)) = FALSE
      BY <2>2
    <3> QED
      BY <3>1, <3>2, <2>8
  <2>10. wrap_ring(s.index) \in Ring
    BY <1>1, DistanceNext
  <2>11. stack \in Seq(Entry) /\ IsInjective(stack)
    BY <2>2, <2>7
  <2>12. /\ t \in LoopState
         /\ t.stack = stack /\ t.given = given /\ t.queue = queue /\ t.panic = FALSE
    BY <1>1, <2>4, <2>6, <2>8, <2>10, <2>11 DEF LoopState
  <2>13. Partition(E, ToSet(stack), InPackets(given), OnRing(g))
    BY <2>2, <2>6, <2>7
  <2> QED
    BY <2>2, <2>4, <2>9, <2>11, <2>12, <2>13 DEF Dividing
<1> QED
  BY <1>2, <1>3

\* The loop divides the entries that the pool and the ring had.
LEMMA LoopDivides ==
  ASSUME Inv, NEW q \in RxId, NEW packet_nums \in Nat, NEW keep \in BOOLEAN
  PROVE  LoopEnd(q, packet_nums, keep) \in Dividing(FreeEntries \cup InRing(<<"rx", q>>))
<1> DEFINE E == FreeEntries \cup InRing(<<"rx", q>>)
<1>1. /\ rx[q] \in RxQueue /\ free_stack[P] \in Seq(Entry)
      /\ IsInjective(free_stack[P]) /\ IsInjective(rx[q].bufs_in_use)
  BY DeviceAssumption DEF Inv, Types, Owners, PoolTypeOK
<1>2. <<"rx", q>> \in RingId /\ InRing(<<"rx", q>>) = OnRing(rx[q].bufs_in_use)
  BY DEF RingId, InRing
<1>3. ToSet(free_stack[P]) \cap OnRing(rx[q].bufs_in_use) = {}
  BY <1>2 DEF Inv, Owners, Partition, Rings, FreeEntries
<1>4. Partition(E, ToSet(free_stack[P]), InPackets({}), OnRing(rx[q].bufs_in_use))
  BY <1>2, <1>3 DEF Partition, InPackets, FreeEntries
<1> HIDE DEF E
<1>5. LoopStart(q) \in Dividing(E)
  <2>1. PICK s : s = LoopStart(q)
    OBVIOUS
  <2>2. /\ s \in LoopState
        /\ s.stack = free_stack[P] /\ s.queue = rx[q] /\ s.given = {} /\ s.panic = FALSE
    BY <1>1, <2>1 DEF LoopStart, LoopState, RxQueue
  <2> QED
    BY <1>1, <1>4, <2>1, <2>2 DEF Dividing
<1>6. \A s \in Dividing(E) : Iteration(s, keep) \in Dividing(E)
  BY IterationDivides
<1>7. PICK S : S = Dividing(E)
  OBVIOUS
<1>8. LoopEnd(q, packet_nums, keep) \in S
  BY <1>5, <1>6, <1>7, LoopRule
<1> QED
  BY <1>7, <1>8 DEF E

-----------------------------------------------------------------------------
(* Types and the number of descriptors in use.                             *)

\* A ring has a first and a last index.
LEMMA RingHasZero == 0 \in Ring /\ QS - 1 \in Ring
BY RingAssumption DEF Ring

\* The pool has an entry for each descriptor of each receive ring.
LEMMA RegionOfRx ==
  ASSUME NEW q \in RxId, NEW i \in Ring
  PROVE  NumEntries - 1 - (q * QS + i) \in Entry
<1>1. q \in Nat /\ q + 1 <= num_rx_queues /\ i \in Nat /\ i + 1 <= QS /\ QS \in Nat
  BY RingAssumption, DeviceAssumption DEF RxId, Ring
<1>2. q * QS \in Nat /\ (q + 1) * QS = q * QS + QS /\ num_rx_queues * QS \in Nat
  BY <1>1, DeviceAssumption
<1>3. (q + 1) * QS <= num_rx_queues * QS
  BY <1>1, DeviceAssumption
<1> QED
  BY <1>1, <1>2, <1>3, PoolAssumption, DeviceAssumption DEF Entry

\* A device that was initialised has full receive rings and empty transmit rings.
LEMMA TypesInit == Init => Types /\ Counted
<1> SUFFICES ASSUME Init PROVE Types /\ Counted
  OBVIOUS
<1> USE DEF Init
<1>1. num_rx_queues * QS \in Nat /\ num_rx_queues * QS <= NumEntries
  BY DeviceAssumption, RingAssumption
<1>2. PoolTypeOK
  <2>1. [k \in 1 .. NumEntries - num_rx_queues * QS |-> k - 1] \in Seq(Entry)
    <3>1. PICK n \in Nat : n = NumEntries - num_rx_queues * QS
      BY <1>1, PoolAssumption
    <3>2. [k \in 1 .. n |-> k - 1] \in Seq(Entry)
      <4>1. \A k \in 1 .. n : k - 1 \in Entry
        BY <3>1, <1>1, PoolAssumption DEF Entry
      <4> QED
        BY <4>1, <3>1
    <3> QED
      BY <3>1, <3>2
  <2>2. payload \in [Buffer -> Frame]
    BY PoolAssumption
  <2> QED
    BY <2>1, <2>2 DEF PoolTypeOK
<1>3. rx \in [RxId -> RxQueue]
  BY RingHasZero, RegionOfRx DEF RxQueue
<1>4. tx \in [TxId -> TxQueue]
  BY RingHasZero DEF TxQueue
<1>5. Counted
  <2>1. Len(<< >>) = 0 /\ Distance(0, 0) = 0
    BY RingHasZero, DistanceRange
  <2> QED
    BY <2>1 DEF Counted, CountedIn
<1> QED
  BY <1>2, <1>3, <1>4, <1>5 DEF Types

\* What a call of receive_packets makes of the state.
LEMMA Received ==
  ASSUME Inv, NEW q \in RxId, NEW packet_nums \in Nat, NEW keep \in BOOLEAN,
         receive_packets(q, packet_nums, keep)
  PROVE  \E s \in Dividing(FreeEntries \cup InRing(<<"rx", q>>)), queue \in RxQueue :
           /\ rx' = [rx EXCEPT ![q] = queue] /\ queue.bufs_in_use = s.queue.bufs_in_use
           /\ free_stack' = [free_stack EXCEPT ![P] = s.stack]
           /\ held' = held \cup s.given
           /\ ~panicked' /\ UNCHANGED <<payload, tx>>
<1> DEFINE E == FreeEntries \cup InRing(<<"rx", q>>)
<1>1. PICK s : s = LoopEnd(q, packet_nums, keep)
  OBVIOUS
<1>2. s \in Dividing(E)
  BY <1>1, LoopDivides
<1>3. s \in LoopState /\ s.queue \in RxQueue /\ s.index \in Ring /\ s.last \in Ring /\ ~s.panic
  BY <1>2 DEF Dividing, LoopState
<1> HIDE DEF E
<1>4. PICK queue : queue = [s.queue EXCEPT !.rx_index = s.index, !.RDT = TailOf(s)]
  OBVIOUS
<1>5. queue \in RxQueue /\ queue.bufs_in_use = s.queue.bufs_in_use
  BY <1>3, <1>4 DEF RxQueue, TailOf
<1>6. /\ rx' = [rx EXCEPT ![q] = queue]
      /\ free_stack' = [free_stack EXCEPT ![P] = s.stack]
      /\ held' = held \cup s.given
      /\ ~panicked' /\ UNCHANGED <<payload, tx>>
  BY <1>1, <1>3, <1>4 DEF receive_packets
<1> QED
  BY <1>2, <1>5, <1>6 DEF E

\* The descriptors that recycle_tx_buffers cleans: those of whole batches, none
\* beyond the card's.
LEMMA CleanedRange ==
  ASSUME Types, NEW q \in TxId
  PROVE  /\ Batches(tx[q]) \in Nat /\ Batches(tx[q]) * TX_CLEAN_BATCH \in Nat
         /\ Batches(tx[q]) * TX_CLEAN_BATCH <= Distance(tx[q].clean_index, tx[q].TDH)
<1>1. PICK D \in Nat : D = Distance(tx[q].clean_index, tx[q].TDH)
  BY DistanceRange DEF Types, TxQueue
<1>2. PICK B \in Nat \ {0} : B = TX_CLEAN_BATCH
  BY DeviceAssumption, RingAssumption
<1>3. D \div B \in Nat /\ D = B * (D \div B) + (D % B) /\ D % B \in 0 .. B - 1
  OBVIOUS
<1>4. (D \div B) * B = B * (D \div B) /\ (D \div B) * B \in Nat
  BY <1>3
<1>5. (D \div B) * B <= D
  BY <1>3, <1>4
<1> QED
  BY <1>1, <1>2, <1>3, <1>4, <1>5 DEF Batches

\* recycle_tx_buffers moves clean_index as far as it takes entries from the
\* front of bufs_in_use.
LEMMA Recycled ==
  ASSUME Types, Counted, NEW q \in TxId, recycle_tx_buffers(q)
  PROVE  \E cleaned \in 0 .. Len(tx[q].bufs_in_use), queue \in TxQueue :
           /\ free_stack' = Pushed(P, SubSeq(tx[q].bufs_in_use, 1, cleaned))
           /\ tx' = [tx EXCEPT ![q] = queue]
           /\ queue.bufs_in_use = SubSeq(tx[q].bufs_in_use, cleaned + 1, Len(tx[q].bufs_in_use))
           /\ CountedIn(queue)
           /\ UNCHANGED <<held, payload, panicked, rx>>
<1> DEFINE old == tx[q]
           c == old.clean_index
           t == old.tx_index
           h == old.TDH
<1>1. old \in TxQueue /\ CountedIn(old)
  BY DEF Types, Counted
<1>2. c \in Ring /\ t \in Ring /\ h \in Ring /\ old.bufs_in_use \in Seq(Entry)
  BY <1>1 DEF TxQueue
<1>3. PICK n \in Nat : n = Batches(old) * TX_CLEAN_BATCH
  BY CleanedRange
<1>4. /\ n <= Distance(c, h) /\ Distance(c, h) <= Distance(c, t)
      /\ Distance(c, t) = Len(old.bufs_in_use)
  BY <1>1, <1>3, CleanedRange DEF CountedIn
<1>5. n \in Ring /\ n \in 0 .. Len(old.bufs_in_use)
  <2>1. Distance(c, h) \in 0 .. QS - 1 /\ Distance(c, t) \in 0 .. QS - 1
    BY <1>2, DistanceRange
  <2> QED
    BY <2>1, <1>4, RingAssumption DEF Ring
<1> DEFINE d == (c + n) % QS
           rest == SubSeq(old.bufs_in_use, n + 1, Len(old.bufs_in_use))
<1>6. d \in Ring /\ Distance(c, d) = n
  BY <1>2, <1>5, DistanceAhead
<1>7. rest \in Seq(Entry) /\ Len(rest) = Len(old.bufs_in_use) - n
  BY <1>2, <1>5, SplitDistinct
<1>8. Distance(d, t) = Distance(c, t) - n /\ Distance(d, h) = Distance(c, h) - n
  <2>1. Distance(c, d) <= Distance(c, h) /\ Distance(c, d) <= Distance(c, t)
    <3>1. Distance(c, h) \in Int /\ Distance(c, t) \in Int
      BY <1>2, DistanceRange
    <3> QED
      BY <3>1, <1>4, <1>6
  <2> HIDE DEF d
  <2> QED
    BY <2>1, <1>2, <1>6, DistanceShift
<1>9. PICK queue : queue = [old EXCEPT !.clean_index = d, !.bufs_in_use = rest]
  OBVIOUS
<1> HIDE DEF d, rest
<1>10. /\ queue \in TxQueue
       /\ queue.clean_index = d /\ queue.tx_index = t /\ queue.TDH = h
       /\ queue.bufs_in_use = rest
  BY <1>1, <1>6, <1>7, <1>9 DEF TxQueue
<1>11. CountedIn(queue)
  <2>1. Distance(c, t) \in Nat /\ Distance(c, h) \in Nat
    BY <1>2, DistanceRange
  <2> QED
    BY <2>1, <1>4, <1>7, <1>8, <1>10 DEF CountedIn
<1>12. /\ free_stack' = Pushed(P, SubSeq(old.bufs_in_use, 1, n))
       /\ tx' = [tx EXCEPT ![q].clean_index = d, ![q].bufs_in_use = rest]
       /\ UNCHANGED <<held, payload, panicked, rx>>
  BY <1>3 DEF recycle_tx_buffers, d, rest
<1>13. tx' = [tx EXCEPT ![q] = queue]
  BY <1>1, <1>9, <1>12 DEF Types
<1> QED
  BY <1>5, <1>10, <1>11, <1>12, <1>13 DEF rest

\* A packet that is sent is the last one in bufs_in_use.
LEMMA Sent ==
  ASSUME Types, Counted, NEW q \in TxId, NEW b \in held, send(q, b), can_send(tx[q])
  PROVE  \E queue \in TxQueue :
           /\ tx' = [tx EXCEPT ![q] = queue]
           /\ queue.bufs_in_use = Append(tx[q].bufs_in_use, b[2])
           /\ CountedIn(queue)
           /\ held' = held \ {b}
           /\ UNCHANGED <<free_stack, payload, panicked, rx>>
<1> DEFINE old == tx[q]
           c == old.clean_index
           t == old.tx_index
           h == old.TDH
           w == wrap_ring(t)
           bufs == Append(old.bufs_in_use, b[2])
<1>1. old \in TxQueue /\ CountedIn(old) /\ b[2] \in Entry
  BY BufferPair DEF Types, Counted, PoolTypeOK
<1>2. c \in Ring /\ t \in Ring /\ h \in Ring /\ old.bufs_in_use \in Seq(Entry)
  BY <1>1 DEF TxQueue
<1>3. w \in Ring /\ Distance(c, w) = Distance(c, t) + 1
  <2>1. w # c
    BY DEF can_send
  <2>2. Distance(c, t) < QS - 1
    <3>1. Distance(c, t) \in 0 .. QS - 1 /\ Distance(c, t) # QS - 1
      BY <2>1, <1>2, DistanceNext, DistanceRange
    <3> QED
      BY <3>1, RingAssumption
  <2> QED
    BY <2>2, <1>2, DistanceNext
<1>4. bufs \in Seq(Entry) /\ Len(bufs) = Len(old.bufs_in_use) + 1
  BY <1>1, <1>2, AppendProperties
<1>5. PICK queue : queue = [old EXCEPT !.tx_index = w, !.bufs_in_use = bufs]
  OBVIOUS
<1> HIDE DEF w, bufs
<1>6. /\ queue \in TxQueue
      /\ queue.clean_index = c /\ queue.tx_index = w /\ queue.TDH = h
      /\ queue.bufs_in_use = bufs
  BY <1>1, <1>3, <1>4, <1>5 DEF TxQueue
<1>7. CountedIn(queue)
  <2>1. Distance(c, t) \in Nat /\ Distance(c, h) \in Nat
    BY <1>2, DistanceRange
  <2> QED
    BY <2>1, <1>1, <1>3, <1>4, <1>6 DEF CountedIn
<1>8. /\ tx' = [tx EXCEPT ![q].tx_index = w, ![q].bufs_in_use = bufs]
      /\ held' = held \ {b}
      /\ UNCHANGED <<free_stack, payload, panicked, rx>>
  BY DEF send, AfterSend, w, bufs
<1>9. tx' = [tx EXCEPT ![q] = queue]
  BY <1>1, <1>5, <1>8 DEF Types
<1> QED
  BY <1>6, <1>7, <1>8, <1>9 DEF bufs

\* The card does not overtake the driver.
LEMMA Transmitted ==
  ASSUME Types, Counted, NEW q \in TxId, CardTransmit(q)
  PROVE  \E queue \in TxQueue :
           /\ tx' = [tx EXCEPT ![q] = queue]
           /\ queue.bufs_in_use = tx[q].bufs_in_use
           /\ CountedIn(queue)
           /\ UNCHANGED <<poolVars, rx>>
<1> DEFINE old == tx[q]
           c == old.clean_index
           t == old.tx_index
           h == old.TDH
           w == wrap_ring(h)
<1>1. old \in TxQueue /\ CountedIn(old)
  BY DEF Types, Counted
<1>2. c \in Ring /\ t \in Ring /\ h \in Ring /\ h # t
  BY <1>1 DEF TxQueue, CardTransmit
<1>3. Distance(c, h) < Distance(c, t)
  BY <1>1, <1>2, DistanceRange DEF CountedIn
<1>4. w \in Ring /\ Distance(c, w) = Distance(c, h) + 1
  BY <1>2, <1>3, DistanceNext, DistanceRange
<1>5. PICK queue : queue = [old EXCEPT !.TDH = w]
  OBVIOUS
<1> HIDE DEF w
<1>6. /\ queue \in TxQueue
      /\ queue.clean_index = c /\ queue.tx_index = t /\ queue.TDH = w
      /\ queue.bufs_in_use = old.bufs_in_use
  BY <1>1, <1>4, <1>5 DEF TxQueue
<1>7. CountedIn(queue)
  <2>1. Distance(c, t) \in Nat /\ Distance(c, h) \in Nat
    BY <1>2, DistanceRange
  <2> QED
    BY <2>1, <1>1, <1>3, <1>4, <1>6 DEF CountedIn
<1>8. tx' = [tx EXCEPT ![q] = queue] /\ UNCHANGED <<poolVars, rx>>
  BY <1>1, <1>5 DEF CardTransmit, Types, w
<1> QED
  BY <1>6, <1>7, <1>8

-----------------------------------------------------------------------------
(* Owners.                                                                 *)

\* A ring is a receive or a transmit ring.
LEMMA RingKinds ==
  /\ \A q \in RxId : <<"rx", q>> \in RingId /\ InRing(<<"rx", q>>) = OnRing(rx[q].bufs_in_use)
  /\ \A q \in TxId : <<"tx", q>> \in RingId /\ InRing(<<"tx", q>>) = ToSet(tx[q].bufs_in_use)
  /\ \A r \in RingId : \/ \E q \in RxId : r = <<"rx", q>>
                       \/ \E q \in TxId : r = <<"tx", q>>
BY DEF RingId, InRing

\* The other rings keep their entries when one of them changes.
LEMMA RxChanged ==
  ASSUME Types, NEW q \in RxId, NEW queue \in RxQueue,
         rx' = [rx EXCEPT ![q] = queue], UNCHANGED tx
  PROVE  /\ rx' \in [RxId -> RxQueue]
         /\ InRing(<<"rx", q>>)' = OnRing(queue.bufs_in_use)
         /\ \A r \in RingId : r # <<"rx", q>> => InRing(r)' = InRing(r)
<1>1. /\ rx' \in [RxId -> RxQueue] /\ rx'[q] = queue
      /\ \A s \in RxId : s # q => rx'[s] = rx[s]
  BY DEF Types
<1>2. ASSUME NEW r \in RingId, r # <<"rx", q>> PROVE InRing(r)' = InRing(r)
  <2>1. CASE \E s \in RxId : r = <<"rx", s>>
    BY <2>1, <1>1, <1>2 DEF InRing
  <2>2. CASE \E s \in TxId : r = <<"tx", s>>
    BY <2>2 DEF InRing
  <2> QED
    BY <2>1, <2>2, RingKinds
<1> QED
  BY <1>1, <1>2 DEF InRing

\* A step that changes one transmit queue leaves the other rings alone.
LEMMA TxChanged ==
  ASSUME Types, NEW q \in TxId, NEW queue \in TxQueue,
         tx' = [tx EXCEPT ![q] = queue], UNCHANGED rx
  PROVE  /\ tx' \in [TxId -> TxQueue]
         /\ InRing(<<"tx", q>>)' = ToSet(queue.bufs_in_use)
         /\ \A r \in RingId : r # <<"tx", q>> => InRing(r)' = InRing(r)
         /\ \A s \in TxId : tx'[s] = IF s = q THEN queue ELSE tx[s]
<1>1. /\ tx' \in [TxId -> TxQueue] /\ tx'[q] = queue
      /\ \A s \in TxId : s # q => tx'[s] = tx[s]
  BY DEF Types
<1>2. ASSUME NEW r \in RingId, r # <<"tx", q>> PROVE InRing(r)' = InRing(r)
  <2>1. CASE \E s \in TxId : r = <<"tx", s>>
    BY <2>1, <1>1, <1>2 DEF InRing
  <2>2. CASE \E s \in RxId : r = <<"rx", s>>
    BY <2>2 DEF InRing
  <2> QED
    BY <2>1, <2>2, RingKinds
<1> QED
  BY <1>1, <1>2 DEF InRing

\* Entries that move between the pool, the packets and one ring are divided
\* between all rings, the pool and the packets again.
LEMMA OneRingMoves ==
  ASSUME Owners, NEW r \in RingId,
         \A t \in RingId : t # r => InRing(t)' = InRing(t),
         Partition(FreeEntries \cup InPackets(held) \cup InRing(r),
                   FreeEntries', InPackets(held'), InRing(r)')
  PROVE  /\ Partition(Entry, FreeEntries', InPackets(held'), Rings')
         /\ \A t, u \in RingId : t # u => InRing(t)' \cap InRing(u)' = {}
<1>1. PICK F, H, R, others :
        /\ F = FreeEntries /\ H = InPackets(held) /\ R = InRing(r)
        /\ others = UNION {InRing(t) : t \in RingId \ {r}}
  OBVIOUS
<1>2. PICK nF, nH, nR :
        nF = FreeEntries' /\ nH = InPackets(held') /\ nR = InRing(r)'
  OBVIOUS
<1>3. Rings = R \cup others
  BY <1>1 DEF Rings
<1>4. Rings' = nR \cup others
  <2>1. \A t \in RingId \ {r} : InRing(t)' = InRing(t)
    OBVIOUS
  <2>2. others = UNION {InRing(t)' : t \in RingId \ {r}}
    BY <1>1, <2>1
  <2>3. Rings' = UNION {InRing(t)' : t \in RingId}
    BY DEF Rings, RingId, RxId, TxId
  <2> QED
    BY <1>2, <2>2, <2>3
<1>5. others \cap R = {}
  BY <1>1 DEF Owners
<1>6. Partition(Entry, F, H, R \cup others)
  BY <1>1, <1>3 DEF Owners
<1>7. Partition(F \cup H \cup R, nF, nH, nR)
  BY <1>1, <1>2
<1>8. Partition(Entry, nF, nH, nR \cup others)
  BY <1>5, <1>6, <1>7 DEF Partition
<1>9. ASSUME NEW t \in RingId, t # r PROVE InRing(t) \cap nR = {}
  <2>1. InRing(t) \subseteq others
    BY <1>1, <1>9
  <2> QED
    BY <2>1, <1>5, <1>6, <1>7 DEF Partition
<1>10. ASSUME NEW t \in RingId, NEW u \in RingId, t # u
       PROVE  InRing(t)' \cap InRing(u)' = {}
  <2>1. CASE t # r /\ u # r
    BY <2>1, <1>10 DEF Owners
  <2>2. CASE t = r
    BY <2>2, <1>2, <1>9, <1>10
  <2>3. CASE u = r
    BY <2>3, <1>2, <1>9, <1>10
  <2> QED
    BY <2>1, <2>2, <2>3
<1> QED
  BY <1>2, <1>4, <1>8, <1>10

\* Entries that move between the pool and the packets leave the rings alone.
LEMMA PacketsMove ==
  ASSUME Owners, UNCHANGED <<rx, tx>>, ~panicked', IsInjective(free_stack'[P]),
         Partition(FreeEntries \cup InPackets(held), FreeEntries', InPackets(held'), {})
  PROVE  Owners'
<1>1. Rings' = Rings /\ \A r \in RingId : InRing(r)' = InRing(r)
  BY DEF Rings, InRing
<1>2. PICK F, H, R : F = FreeEntries /\ H = InPackets(held) /\ R = Rings
  OBVIOUS
<1>3. Partition(Entry, F, H, R)
  BY <1>2 DEF Owners
<1>4. Partition(Entry, FreeEntries', InPackets(held'), R)
  <2>1. PICK nF, nH : nF = FreeEntries' /\ nH = InPackets(held')
    OBVIOUS
  <2> QED
    BY <2>1, <1>2, <1>3 DEF Partition
<1> QED
  BY <1>1, <1>2, <1>4 DEF Owners

\* alloc_pkt moves an entry from the pool to the packets.
LEMMA AllocateOwners ==
  ASSUME Types, Owners, NEW f \in Frame, AllocPkt(P, f), UNCHANGED <<rx, tx>>
  PROVE  Owners'
<1>1. P \in Pool /\ free_stack \in [Pool -> Seq(Entry)] /\ held \subseteq Buffer
  BY DeviceAssumption DEF Types, PoolTypeOK
<1>2. PICK n, s : n = Last(free_stack[P]) /\ s = Front(free_stack[P])
  OBVIOUS
<1>3. /\ n \in Entry /\ FreeEntries = ToSet(s) \cup {n} /\ n \notin ToSet(s)
      /\ IsInjective(s)
  BY <1>1, <1>2, FrontLast DEF Owners, FreeEntries, AllocPkt, CanAlloc
<1>4. free_stack'[P] = s
  BY <1>1, <1>2 DEF AllocPkt, Popped
<1>5. held' = held \cup {<<P, n>>}
  BY <1>2 DEF AllocPkt, Top
<1>6. InPackets(held') = InPackets(held) \cup {n}
  BY <1>3, <1>5 DEF InPackets
<1>7. Partition(FreeEntries \cup InPackets(held), FreeEntries', InPackets(held'), {})
  <2>1. FreeEntries \cap InPackets(held) = {}
    BY DEF Owners, Partition
  <2>2. FreeEntries' = ToSet(s)
    BY <1>4 DEF FreeEntries
  <2> QED
    BY <2>1, <2>2, <1>3, <1>6 DEF Partition
<1> QED
  BY <1>3, <1>4, <1>7, PacketsMove DEF AllocPkt, Owners

\* The drop of a packet moves its entry back, without a double free.
LEMMA DropOwners ==
  ASSUME Types, Owners, NEW b \in held, DropPkt(b), UNCHANGED <<rx, tx>>
  PROVE  Owners'
<1>1. P \in Pool /\ free_stack \in [Pool -> Seq(Entry)] /\ b \in Buffer
  BY DeviceAssumption DEF Types, PoolTypeOK
<1>2. PICK n \in Entry : b = <<P, n>>
  BY <1>1, BufferPair, DeviceAssumption
<1>3. n \in InPackets(held) /\ n \notin FreeEntries
  BY <1>2 DEF InPackets, Owners, Partition
<1>4. /\ free_stack' = [free_stack EXCEPT ![P] = @ \o <<n>>]
      /\ UNCHANGED panicked
  BY <1>2, <1>3 DEF DropPkt, FreeBuf, IsFree, FreeEntries, Pushed
<1>5. free_stack'[P] = Append(free_stack[P], n)
  BY <1>1, <1>2, <1>4, AppendIsConcat
<1>6. FreeEntries' = FreeEntries \cup {n} /\ IsInjective(free_stack'[P])
  BY <1>1, <1>2, <1>3, <1>5, AppendDistinct DEF FreeEntries, Owners
<1>7. InPackets(held') = InPackets(held) \ {n}
  BY <1>2 DEF InPackets, DropPkt
<1>8. Partition(FreeEntries \cup InPackets(held), FreeEntries', InPackets(held'), {})
  <2>1. FreeEntries \cap InPackets(held) = {}
    BY DEF Owners, Partition
  <2> QED
    BY <2>1, <1>3, <1>6, <1>7 DEF Partition
<1> QED
  BY <1>4, <1>6, <1>8, PacketsMove DEF Owners

\* A packet that the application receives comes from the ring, which gets an
\* entry of the pool for it.
LEMMA ReceiveOwners ==
  ASSUME Inv, NEW q \in RxId, NEW packet_nums \in Nat, NEW keep \in BOOLEAN,
         receive_packets(q, packet_nums, keep)
  PROVE  Owners'
<1>1. PICK s \in Dividing(FreeEntries \cup InRing(<<"rx", q>>)), queue \in RxQueue :
        /\ rx' = [rx EXCEPT ![q] = queue] /\ queue.bufs_in_use = s.queue.bufs_in_use
        /\ free_stack' = [free_stack EXCEPT ![P] = s.stack]
        /\ held' = held \cup s.given
        /\ ~panicked' /\ UNCHANGED <<payload, tx>>
  BY Received
<1>2. /\ IsInjective(s.stack) /\ IsInjective(queue.bufs_in_use)
      /\ Partition(FreeEntries \cup InRing(<<"rx", q>>),
                   ToSet(s.stack), InPackets(s.given), OnRing(queue.bufs_in_use))
  BY <1>1 DEF Dividing
<1>3. PICK r : r = <<"rx", q>>
  OBVIOUS
<1>4. /\ r \in RingId /\ InRing(r)' = OnRing(queue.bufs_in_use)
      /\ \A t \in RingId : t # r => InRing(t)' = InRing(t)
  BY <1>1, <1>3, RingKinds, RxChanged DEF Inv
<1>5. free_stack'[P] = s.stack /\ FreeEntries' = ToSet(s.stack)
  BY <1>1, DeviceAssumption DEF Inv, Types, PoolTypeOK, FreeEntries
<1>6. InPackets(held') = InPackets(held) \cup InPackets(s.given)
  BY <1>1 DEF InPackets
<1>7. Partition(FreeEntries \cup InPackets(held) \cup InRing(r),
                FreeEntries', InPackets(held'), InRing(r)')
  <2>1. InPackets(held) \cap (FreeEntries \cup InRing(r)) = {}
    BY <1>4 DEF Inv, Owners, Partition, Rings
  <2>2. Partition(FreeEntries \cup InRing(r), FreeEntries', InPackets(s.given), InRing(r)')
    BY <1>2, <1>3, <1>4, <1>5
  <2> QED
    BY <2>1, <2>2, <1>6 DEF Partition
<1>8. /\ Partition(Entry, FreeEntries', InPackets(held'), Rings')
      /\ \A t, u \in RingId : t # u => InRing(t)' \cap InRing(u)' = {}
  BY <1>4, <1>7, OneRingMoves DEF Inv
<1>9. \A p \in RxId : IsInjective(rx'[p].bufs_in_use)
  BY <1>1, <1>2 DEF Inv, Types, Owners
<1>10. \A p \in TxId : IsInjective(tx'[p].bufs_in_use)
  BY <1>1 DEF Inv, Owners
<1> QED
  BY <1>1, <1>2, <1>5, <1>8, <1>9, <1>10 DEF Owners, RingId, RxId, TxId

\* A packet that is sent goes to the ring.
LEMMA SendOwners ==
  ASSUME Inv, NEW q \in TxId, NEW b \in held, send(q, b), can_send(tx[q])
  PROVE  Owners'
<1>1. PICK queue \in TxQueue :
        /\ tx' = [tx EXCEPT ![q] = queue]
        /\ queue.bufs_in_use = Append(tx[q].bufs_in_use, b[2])
        /\ held' = held \ {b}
        /\ UNCHANGED <<free_stack, payload, panicked, rx>>
  BY Sent DEF Inv
<1>2. PICK n \in Entry : b = <<P, n>>
  BY BufferPair, DeviceAssumption DEF Inv, Types, PoolTypeOK
<1>3. PICK r : r = <<"tx", q>>
  OBVIOUS
<1>4. /\ r \in RingId /\ InRing(r) = ToSet(tx[q].bufs_in_use)
      /\ InRing(r)' = ToSet(queue.bufs_in_use)
      /\ \A t \in RingId : t # r => InRing(t)' = InRing(t)
      /\ \A s \in TxId : tx'[s] = IF s = q THEN queue ELSE tx[s]
  BY <1>1, <1>3, RingKinds, TxChanged DEF Inv
<1>5. n \in InPackets(held) /\ InPackets(held') = InPackets(held) \ {n}
  BY <1>1, <1>2 DEF InPackets
<1>6. /\ InPackets(held) \cap InRing(r) = {} /\ InPackets(held) \cap FreeEntries = {}
      /\ InRing(r) \cap FreeEntries = {}
  BY <1>4 DEF Inv, Owners, Partition, Rings
<1>7. InRing(r)' = InRing(r) \cup {n} /\ IsInjective(queue.bufs_in_use)
  <2>1. tx[q].bufs_in_use \in Seq(Entry) /\ IsInjective(tx[q].bufs_in_use)
    BY DEF Inv, Types, TxQueue, Owners
  <2> QED
    BY <2>1, <1>1, <1>2, <1>4, <1>5, <1>6, AppendDistinct
<1>8. FreeEntries' = FreeEntries
  BY <1>1 DEF FreeEntries
<1>9. Partition(FreeEntries \cup InPackets(held) \cup InRing(r),
                FreeEntries', InPackets(held'), InRing(r)')
  BY <1>5, <1>6, <1>7, <1>8 DEF Partition
<1>10. /\ Partition(Entry, FreeEntries', InPackets(held'), Rings')
       /\ \A t, u \in RingId : t # u => InRing(t)' \cap InRing(u)' = {}
  BY <1>4, <1>9, OneRingMoves DEF Inv
<1>11. \A s \in TxId : IsInjective(tx'[s].bufs_in_use)
  BY <1>4, <1>7 DEF Inv, Owners
<1>12. \A s \in RxId : IsInjective(rx'[s].bufs_in_use)
  BY <1>1 DEF Inv, Owners
<1> QED
  BY <1>1, <1>10, <1>11, <1>12 DEF Inv, Owners, RingId, RxId, TxId

\* The entries that recycle_tx_buffers takes from the ring go to the pool.
LEMMA RecycleOwners ==
  ASSUME Inv, NEW q \in TxId, recycle_tx_buffers(q)
  PROVE  Owners'
<1>1. PICK cleaned \in 0 .. Len(tx[q].bufs_in_use), queue \in TxQueue :
        /\ free_stack' = Pushed(P, SubSeq(tx[q].bufs_in_use, 1, cleaned))
        /\ tx' = [tx EXCEPT ![q] = queue]
        /\ queue.bufs_in_use = SubSeq(tx[q].bufs_in_use, cleaned + 1, Len(tx[q].bufs_in_use))
        /\ UNCHANGED <<held, payload, panicked, rx>>
  BY Recycled DEF Inv
<1>2. PICK bufs, a, z :
        /\ bufs = tx[q].bufs_in_use
        /\ a = SubSeq(bufs, 1, cleaned) /\ z = SubSeq(bufs, cleaned + 1, Len(bufs))
  OBVIOUS
<1>3. bufs \in Seq(Entry) /\ IsInjective(bufs)
  BY <1>2 DEF Inv, Types, TxQueue, Owners
<1>4. /\ a \in Seq(Entry) /\ IsInjective(a) /\ IsInjective(z)
      /\ ToSet(bufs) = ToSet(a) \cup ToSet(z) /\ ToSet(a) \cap ToSet(z) = {}
  BY <1>1, <1>2, <1>3, SplitDistinct
<1>5. PICK r : r = <<"tx", q>>
  OBVIOUS
<1>6. /\ r \in RingId /\ InRing(r) = ToSet(bufs) /\ InRing(r)' = ToSet(z)
      /\ \A t \in RingId : t # r => InRing(t)' = InRing(t)
      /\ \A s \in TxId : tx'[s] = IF s = q THEN queue ELSE tx[s]
  BY <1>1, <1>2, <1>5, RingKinds, TxChanged DEF Inv
<1>7. /\ InPackets(held) \cap InRing(r) = {} /\ InPackets(held) \cap FreeEntries = {}
      /\ InRing(r) \cap FreeEntries = {}
  BY <1>6 DEF Inv, Owners, Partition, Rings
<1>8. free_stack'[P] = free_stack[P] \o a
  BY <1>1, <1>2, DeviceAssumption DEF Pushed, Inv, Types, PoolTypeOK
<1>9. FreeEntries' = FreeEntries \cup ToSet(a) /\ IsInjective(free_stack'[P])
  <2>1. PICK f : f = free_stack[P]
    OBVIOUS
  <2>2. f \in Seq(Entry) /\ IsInjective(f) /\ FreeEntries = ToSet(f)
    BY <2>1, DeviceAssumption DEF Inv, Types, PoolTypeOK, Owners, FreeEntries
  <2>3. ToSet(f) \cap ToSet(a) = {}
    BY <2>2, <1>4, <1>6, <1>7
  <2>4. ToSet(f \o a) = ToSet(f) \cup ToSet(a) /\ IsInjective(f \o a)
    BY <2>2, <2>3, <1>4, ConcatDistinct
  <2> QED
    BY <2>1, <2>2, <2>4, <1>8 DEF FreeEntries
<1>10. Partition(FreeEntries \cup InPackets(held) \cup InRing(r),
                 FreeEntries', InPackets(held'), InRing(r)')
  <2>1. held' = held
    BY <1>1
  <2> QED
    BY <2>1, <1>4, <1>6, <1>7, <1>9 DEF Partition
<1>11. /\ Partition(Entry, FreeEntries', InPackets(held'), Rings')
       /\ \A t, u \in RingId : t # u => InRing(t)' \cap InRing(u)' = {}
  BY <1>6, <1>10, OneRingMoves DEF Inv
<1>12. \A s \in TxId : IsInjective(tx'[s].bufs_in_use)
  BY <1>1, <1>2, <1>4, <1>6 DEF Inv, Owners
<1>13. \A s \in RxId : IsInjective(rx'[s].bufs_in_use)
  BY <1>1 DEF Inv, Owners
<1> QED
  BY <1>1, <1>9, <1>11, <1>12, <1>13 DEF Inv, Owners, RingId, RxId, TxId

\* Numbers below a * b are those of b places in each of a rings.
LEMMA PlaceOf ==
  ASSUME NEW a \in Nat, NEW b \in Nat \ {0}, NEW m \in Nat, m < a * b
  PROVE  \E q \in 0 .. a - 1, i \in 0 .. b - 1 : m = q * b + i
<1> DEFINE T == {k \in Nat : m < k * b}
<1>1. T \in SUBSET Nat /\ a \in T
  OBVIOUS
<1>2. PICK k \in T : \A l \in T : k <= l
  BY <1>1, LeastNumber
<1>3. k \in Nat /\ m < k * b /\ k <= a
  BY <1>1, <1>2
<1>4. k # 0
  BY <1>3
<1>5. PICK q \in Nat : k = q + 1
  BY <1>3, <1>4
<1>6. q \notin T
  BY <1>2, <1>5
<1>7. q * b \in Nat /\ k * b = q * b + b /\ ~(m < q * b)
  BY <1>5, <1>6
<1>8. PICK p \in Nat : p = q * b
  BY <1>7
<1>9. m - p \in 0 .. b - 1 /\ m = p + (m - p)
  BY <1>3, <1>7, <1>8
<1>10. q \in 0 .. a - 1
  BY <1>3, <1>5
<1> QED
  BY <1>8, <1>9, <1>10

\* A number is that of one place only.
LEMMA OnePlace ==
  ASSUME NEW b \in Nat \ {0}, NEW q \in Nat, NEW r \in Nat,
         NEW i \in 0 .. b - 1, NEW j \in 0 .. b - 1,
         q * b + i = r * b + j
  PROVE  q = r /\ i = j
<1>1. ASSUME NEW x \in Nat, NEW y \in Nat, NEW k \in 0 .. b - 1, NEW l \in 0 .. b - 1,
             x < y, x * b + k = y * b + l
      PROVE  FALSE
  <2>1. PICK d \in Nat : y = x + 1 + d
    <3>1. y - x - 1 \in Nat /\ y = x + 1 + (y - x - 1)
      BY <1>1
    <3> QED
      BY <3>1
  <2>2. y * b = x * b + b + d * b /\ x * b \in Nat /\ d * b \in Nat
    BY <2>1
  <2> QED
    BY <1>1, <2>2
<1>2. ~(q < r) /\ ~(r < q)
  BY <1>1
<1>3. q = r
  BY <1>2
<1>4. q * b \in Nat
  OBVIOUS
<1> QED
  BY <1>3, <1>4

\* init gives each place of a receive ring an entry of its own from the top of
\* the stack.
LEMMA OwnersInit == Init => Owners
<1> SUFFICES ASSUME Init PROVE Owners
  OBVIOUS
<1>1. Types
  BY TypesInit
<1>2. PICK m \in Nat : m = num_rx_queues * QS
  BY DeviceAssumption, RingAssumption
<1>3. PICK n \in Nat : n = NumEntries - m
  BY <1>2, DeviceAssumption, PoolAssumption
<1>4. free_stack[P] = [k \in 1 .. n |-> k - 1] /\ free_stack[P] \in Seq(Entry)
  BY <1>1, <1>2, <1>3, DeviceAssumption DEF Init, Types, PoolTypeOK
<1>5. FreeEntries = 0 .. n - 1 /\ IsInjective(free_stack[P])
  <2>1. PICK s \in Seq(Entry) : s = free_stack[P]
    BY <1>4
  <2>2. Len(s) = n /\ \A k \in 1 .. n : s[k] = k - 1
    BY <2>1, <1>4
  <2>3. ToSet(s) = {s[k] : k \in 1 .. n}
    BY <2>2, Elements
  <2>4. ToSet(s) = 0 .. n - 1
    <3>1. \A e \in 0 .. n - 1 : e + 1 \in 1 .. n /\ s[e + 1] = e
      BY <2>2
    <3> QED
      BY <2>2, <2>3, <3>1
  <2>5. IsInjective(s)
    BY <2>2, Elements
  <2> QED
    BY <2>1, <2>4, <2>5 DEF FreeEntries
<1>6. InPackets(held) = {}
  BY DEF Init, InPackets
<1>7. \A q \in RxId, i \in Ring :
        /\ q \in 0 .. num_rx_queues - 1 /\ i \in 0 .. QS - 1 /\ q * QS + i \in Nat
        /\ rx[q].bufs_in_use[i] = NumEntries - 1 - (q * QS + i)
        /\ rx[q].bufs_in_use[i] \in Entry
  BY RegionOfRx, DeviceAssumption, RingAssumption DEF Init, RxId, Ring
<1>8. ASSUME NEW q \in RxId, NEW r \in RxId, NEW i \in Ring, NEW j \in Ring,
             rx[q].bufs_in_use[i] = rx[r].bufs_in_use[j]
      PROVE  q = r /\ i = j
  <2>1. q * QS + i = r * QS + j
    BY <1>7, <1>8, PoolAssumption
  <2>2. q \in Nat /\ r \in Nat /\ QS \in Nat \ {0}
    BY <1>7, DeviceAssumption, RingAssumption
  <2> QED
    BY <2>1, <2>2, <1>7, OnePlace
<1>9. \A q \in RxId : IsInjective(rx[q].bufs_in_use)
  <2>1. \A q \in RxId : DOMAIN rx[q].bufs_in_use = Ring
    BY DEF Init
  <2> QED
    BY <2>1, <1>8 DEF IsInjective
<1>10. \A q \in TxId : tx[q].bufs_in_use = << >> /\ ToSet(tx[q].bufs_in_use) = {}
  BY DEF Init, ToSet
<1>11. \A q \in TxId : IsInjective(tx[q].bufs_in_use)
  BY <1>10 DEF IsInjective
<1>12. ASSUME NEW r \in RingId, NEW t \in RingId, r # t
       PROVE  InRing(r) \cap InRing(t) = {}
  <2>1. CASE \E q \in TxId : r = <<"tx", q>> \/ t = <<"tx", q>>
    BY <2>1, <1>10, RingKinds
  <2>2. CASE \E q, p \in RxId : r = <<"rx", q>> /\ t = <<"rx", p>>
    <3>1. PICK q \in RxId, p \in RxId : r = <<"rx", q>> /\ t = <<"rx", p>>
      BY <2>2
    <3>2. /\ InRing(r) = OnRing(rx[q].bufs_in_use)
          /\ InRing(t) = OnRing(rx[p].bufs_in_use)
      BY <3>1, RingKinds
    <3>3. q # p
      BY <3>1, <1>12
    <3>4. ASSUME NEW e \in OnRing(rx[q].bufs_in_use),
                 e \in OnRing(rx[p].bufs_in_use)
          PROVE  FALSE
      <4>1. PICK i \in Ring : e = rx[q].bufs_in_use[i]
        BY DEF OnRing
      <4>2. PICK j \in Ring : e = rx[p].bufs_in_use[j]
        BY <3>4 DEF OnRing
      <4>3. rx[q].bufs_in_use[i] = rx[p].bufs_in_use[j]
        BY <4>1, <4>2
      <4> QED
        BY <4>3, <3>3, <1>8, Zenon
    <3> QED
      BY <3>2, <3>4, Zenon
  <2>3. \/ \E q \in TxId : r = <<"tx", q>> \/ t = <<"tx", q>>
        \/ \E q, p \in RxId : r = <<"rx", q>> /\ t = <<"rx", p>>
    BY RingKinds, Zenon
  <2> QED
    BY <2>1, <2>2, <2>3, Zenon
<1>13. ASSUME NEW e \in Entry PROVE e \in Rings <=> e \notin FreeEntries
  <2>1. e \in Nat /\ e <= NumEntries - 1 /\ (e \in FreeEntries <=> e < n)
    BY <1>5, PoolAssumption DEF Entry
  <2>2. ASSUME e >= n PROVE e \in Rings
    <3>1. NumEntries - 1 - e \in Nat /\ NumEntries - 1 - e < num_rx_queues * QS
      BY <2>1, <2>2, <1>2, <1>3, PoolAssumption
    <3>5. num_rx_queues \in Nat /\ QS \in Nat \ {0}
      BY DeviceAssumption, RingAssumption
    <3>2. PICK q \in RxId, i \in Ring : NumEntries - 1 - e = q * QS + i
      BY <3>1, <3>5, PlaceOf DEF RxId, Ring
    <3>3. rx[q].bufs_in_use[i] = e
      BY <3>2, <2>1, <1>7, PoolAssumption
    <3>4. e \in OnRing(rx[q].bufs_in_use)
      BY <3>3 DEF OnRing
    <3> QED
      BY <3>4, RingKinds, Zenon DEF Rings
  <2>3. ASSUME e \in Rings PROVE e >= n
    <3>1. PICK r \in RingId : e \in InRing(r)
      BY <2>3 DEF Rings
    <3>2. PICK q \in RxId : r = <<"rx", q>>
      BY <3>1, <1>10, RingKinds
    <3>3. PICK i \in Ring : e = NumEntries - 1 - (q * QS + i)
      BY <3>1, <3>2, <1>7, RingKinds DEF OnRing
    <3>4. q * QS + i < m
      <4>1. q \in Nat /\ q + 1 <= num_rx_queues /\ QS \in Nat /\ i \in Nat /\ i < QS
        BY <1>7, DeviceAssumption, RingAssumption
      <4>2. (q + 1) * QS <= num_rx_queues * QS /\ (q + 1) * QS = q * QS + QS /\ q * QS \in Nat
        BY <4>1, DeviceAssumption
      <4> QED
        BY <4>1, <4>2, <1>2
    <3> QED
      BY <3>3, <3>4, <2>1, <1>3, <1>7, PoolAssumption
  <2> QED
    BY <2>1, <2>2, <2>3
<1>14. Rings \subseteq Entry /\ FreeEntries \subseteq Entry
  <2>1. \A r \in RingId : InRing(r) \subseteq Entry
    BY <1>7, <1>10, RingKinds DEF OnRing
  <2>2. FreeEntries \subseteq Entry
    BY <1>4, Elements DEF FreeEntries
  <2> QED
    BY <2>1, <2>2 DEF Rings
<1>15. Partition(Entry, FreeEntries, InPackets(held), Rings)
  BY <1>6, <1>13, <1>14 DEF Partition
<1> QED
  BY <1>5, <1>9, <1>11, <1>12, <1>15 DEF Init, Owners

-----------------------------------------------------------------------------
(* The theorems.                                                           *)

\* What Owners says of entries, OneOwner says of buffers and of places.
LEMMA OwnersOneOwner ==
  ASSUME Types, Owners
  PROVE  OneOwner
<1> DEFINE Q == {<<P, EntryAt(place)>> : place \in RxPlaces \cup TxPlaces}
<1>1. ASSUME NEW x \in RxPlaces
      PROVE  \E q \in RxId, i \in Ring :
               /\ x = <<"rx", q, i>> /\ EntryAt(x) = rx[q].bufs_in_use[i]
               /\ EntryAt(x) \in InRing(<<"rx", q>>)
  BY RingKinds DEF RxPlaces, EntryAt, OnRing
<1>2. ASSUME NEW x \in TxPlaces
      PROVE  \E q \in TxId : \E k \in DOMAIN tx[q].bufs_in_use :
               /\ x = <<"tx", q, k>> /\ EntryAt(x) = tx[q].bufs_in_use[k]
               /\ EntryAt(x) \in InRing(<<"tx", q>>)
  <2>1. PICK q \in TxId : \E k \in DOMAIN tx[q].bufs_in_use : x = <<"tx", q, k>>
    BY DEF TxPlaces
  <2>2. PICK k \in DOMAIN tx[q].bufs_in_use : x = <<"tx", q, k>>
    BY <2>1
  <2>3. EntryAt(x) = tx[q].bufs_in_use[k]
    BY <2>2 DEF EntryAt
  <2>4. tx[q].bufs_in_use[k] \in ToSet(tx[q].bufs_in_use)
    BY DEF ToSet
  <2> QED
    BY <2>2, <2>3, <2>4, RingKinds
<1>3. ASSUME NEW r \in RingId, NEW e \in InRing(r)
      PROVE  \E x \in RxPlaces \cup TxPlaces : EntryAt(x) = e
  <2>1. CASE \E q \in RxId : r = <<"rx", q>>
    <3>1. PICK q \in RxId : r = <<"rx", q>>
      BY <2>1
    <3>2. PICK i \in Ring : e = rx[q].bufs_in_use[i]
      BY <3>1, RingKinds DEF OnRing
    <3>3. <<"rx", q, i>> \in RxPlaces /\ EntryAt(<<"rx", q, i>>) = e
      BY <3>2 DEF RxPlaces, EntryAt
    <3> QED
      BY <3>3
  <2>2. CASE \E q \in TxId : r = <<"tx", q>>
    <3>1. PICK q \in TxId : r = <<"tx", q>>
      BY <2>2
    <3>2. PICK k \in DOMAIN tx[q].bufs_in_use : e = tx[q].bufs_in_use[k]
      BY <3>1, RingKinds DEF ToSet
    <3>3. <<"tx", q, k>> \in TxPlaces /\ EntryAt(<<"tx", q, k>>) = e
      BY <3>2 DEF TxPlaces, EntryAt
    <3> QED
      BY <3>3
  <2> QED
    BY <2>1, <2>2, RingKinds
<1>4. \A e : (\E x \in RxPlaces \cup TxPlaces : EntryAt(x) = e) <=> e \in Rings
  <2>1. ASSUME NEW x \in RxPlaces \cup TxPlaces PROVE EntryAt(x) \in Rings
    <3>1. \E r \in RingId : EntryAt(x) \in InRing(r)
      BY <1>1, <1>2, RingKinds
    <3> QED
      BY <3>1 DEF Rings
  <2>2. ASSUME NEW e \in Rings PROVE \E x \in RxPlaces \cup TxPlaces : EntryAt(x) = e
    BY <1>3 DEF Rings
  <2> QED
    BY <2>1, <2>2
<1>5. ASSUME NEW e \in Entry
      PROVE  /\ IsFree(<<P, e>>) <=> e \in FreeEntries
             /\ <<P, e>> \in held <=> e \in InPackets(held)
             /\ <<P, e>> \in Q <=> e \in Rings
  BY <1>4 DEF IsFree, FreeEntries, InPackets
<1>6. OwnedOnce(Q)
  <2> HIDE DEF Q
  <2>1. \A b \in Buffer : \E e \in Entry : b = <<P, e>>
    BY BufferPair, DeviceAssumption
  <2>2. \A p \in Pool : IsInjective(free_stack[p])
    BY DeviceAssumption DEF Owners
  <2>3. ASSUME NEW b \in Buffer
        PROVE  /\ IsFree(b) \/ b \in held \/ b \in Q
               /\ ~(IsFree(b) /\ b \in held)
               /\ ~(IsFree(b) /\ b \in Q)
               /\ ~(b \in held /\ b \in Q)
    <3>1. PICK e \in Entry : b = <<P, e>>
      BY <2>1
    <3> QED
      BY <3>1, <1>5 DEF Owners, Partition
  <2> QED
    BY <2>2, <2>3 DEF OwnedOnce
<1>7. ASSUME NEW x \in RxPlaces \cup TxPlaces, NEW y \in RxPlaces \cup TxPlaces,
             EntryAt(x) = EntryAt(y)
      PROVE  x = y
  <2>1. CASE x \in RxPlaces /\ y \in RxPlaces
    <3>1. PICK q \in RxId, i \in Ring :
            /\ x = <<"rx", q, i>> /\ EntryAt(x) = rx[q].bufs_in_use[i]
            /\ EntryAt(x) \in InRing(<<"rx", q>>)
      BY <2>1, <1>1
    <3>2. PICK r \in RxId, j \in Ring :
            /\ y = <<"rx", r, j>> /\ EntryAt(y) = rx[r].bufs_in_use[j]
            /\ EntryAt(y) \in InRing(<<"rx", r>>)
      BY <2>1, <1>1
    <3>3. q = r
      BY <3>1, <3>2, <1>7, RingKinds DEF Owners
    <3>4. IsInjective(rx[q].bufs_in_use) /\ DOMAIN rx[q].bufs_in_use = Ring
      BY DEF Types, RxQueue, Owners
    <3> QED
      BY <3>1, <3>2, <3>3, <3>4, <1>7 DEF IsInjective
  <2>2. CASE x \in TxPlaces /\ y \in TxPlaces
    <3>1. PICK q \in TxId : \E i \in DOMAIN tx[q].bufs_in_use :
            /\ x = <<"tx", q, i>> /\ EntryAt(x) = tx[q].bufs_in_use[i]
            /\ EntryAt(x) \in InRing(<<"tx", q>>)
      BY <2>2, <1>2
    <3>2. PICK r \in TxId : \E j \in DOMAIN tx[r].bufs_in_use :
            /\ y = <<"tx", r, j>> /\ EntryAt(y) = tx[r].bufs_in_use[j]
            /\ EntryAt(y) \in InRing(<<"tx", r>>)
      BY <2>2, <1>2
    <3>3. q = r
      BY <3>1, <3>2, <1>7, RingKinds DEF Owners
    <3>4. IsInjective(tx[q].bufs_in_use)
      BY DEF Owners
    <3> QED
      BY <3>1, <3>2, <3>3, <3>4, <1>7 DEF IsInjective
  <2>3. ASSUME NEW u \in RxPlaces, NEW v \in TxPlaces PROVE EntryAt(u) # EntryAt(v)
    <3>1. PICK q \in RxId : EntryAt(u) \in InRing(<<"rx", q>>)
      BY <1>1
    <3>2. PICK r \in TxId : EntryAt(v) \in InRing(<<"tx", r>>)
      BY <1>2
    <3>3. InRing(<<"rx", q>>) \cap InRing(<<"tx", r>>) = {}
      BY RingKinds DEF Owners
    <3> QED
      BY <3>1, <3>2, <3>3
  <2> QED
    BY <2>1, <2>2, <2>3, <1>7
<1> QED
  BY <1>6, <1>7 DEF OneOwner, Owners

\* Each step keeps the types and the count of the descriptors in use.
LEMMA TypesStep == Inv /\ [Next]_vars => Types' /\ Counted'
<1> SUFFICES ASSUME Inv, [Next]_vars PROVE Types' /\ Counted'
  OBVIOUS
<1> USE DEF Inv
<1>1. P \in Pool
  BY DeviceAssumption
<1>2. ASSUME PoolTypeOK', UNCHANGED <<rx, tx>> PROVE Types' /\ Counted'
  BY <1>2 DEF Types, Counted, TxId, RxId
<1>3. ASSUME NEW q \in TxId, NEW queue \in TxQueue, PoolTypeOK', UNCHANGED rx,
             tx' = [tx EXCEPT ![q] = queue], CountedIn(queue)
      PROVE  Types' /\ Counted'
  <2>1. /\ tx' \in [TxId -> TxQueue]
        /\ \A s \in TxId : tx'[s] = IF s = q THEN queue ELSE tx[s]
    BY <1>3, TxChanged
  <2> QED
    BY <2>1, <1>3 DEF Types, Counted, CountedIn, TxId
<1>4. ASSUME NEW q \in RxId, NEW queue \in RxQueue, PoolTypeOK', UNCHANGED tx,
             rx' = [rx EXCEPT ![q] = queue]
      PROVE  Types' /\ Counted'
  <2>1. rx' \in [RxId -> RxQueue]
    BY <1>4, RxChanged
  <2> QED
    BY <2>1, <1>4 DEF Types, Counted, TxId
<1>5. ASSUME UNCHANGED poolVars PROVE PoolTypeOK'
  BY <1>5 DEF poolVars, Types, PoolTypeOK
<1>6. ASSUME NEW q \in RxId, CardReceive(q) PROVE Types' /\ Counted'
  <2>1. PICK queue : queue = [rx[q] EXCEPT !.RDH = wrap_ring(@)]
    OBVIOUS
  <2>2. queue \in RxQueue
    <3>1. rx[q] \in RxQueue
      BY DEF Types
    <3>2. wrap_ring(rx[q].RDH) \in Ring
      BY <3>1, DistanceNext DEF RxQueue
    <3> QED
      BY <3>1, <3>2, <2>1 DEF RxQueue
  <2> QED
    BY <2>1, <2>2, <1>4, <1>5, <1>6 DEF CardReceive, Types
<1>7. ASSUME NEW q \in RxId, NEW n \in 1 .. MaxNums, NEW keep \in BOOLEAN,
             receive_packets(q, n, keep)
      PROVE  Types' /\ Counted'
  <2>1. PICK s \in Dividing(FreeEntries \cup InRing(<<"rx", q>>)), queue \in RxQueue :
          /\ rx' = [rx EXCEPT ![q] = queue]
          /\ free_stack' = [free_stack EXCEPT ![P] = s.stack]
          /\ held' = held \cup s.given
          /\ ~panicked' /\ UNCHANGED <<payload, tx>>
    BY <1>7, Received
  <2>2. s.stack \in Seq(Entry) /\ s.given \subseteq Buffer
    BY <2>1 DEF Dividing, LoopState
  <2>3. panicked' = FALSE
    BY <1>7, <2>1 DEF receive_packets, LoopState, Dividing
  <2>4. PoolTypeOK'
    BY <2>1, <2>2, <2>3 DEF Types, PoolTypeOK
  <2> QED
    BY <2>1, <2>4, <1>4
<1>8. ASSUME NEW q \in TxId, CardTransmit(q) PROVE Types' /\ Counted'
  BY <1>8, <1>3, <1>5, Transmitted
<1>9. ASSUME NEW q \in TxId, recycle_tx_buffers(q) PROVE Types' /\ Counted'
  <2>1. PICK cleaned \in 0 .. Len(tx[q].bufs_in_use), queue \in TxQueue :
          /\ free_stack' = Pushed(P, SubSeq(tx[q].bufs_in_use, 1, cleaned))
          /\ tx' = [tx EXCEPT ![q] = queue]
          /\ CountedIn(queue)
          /\ UNCHANGED <<held, payload, panicked, rx>>
    BY <1>9, Recycled
  <2>2. tx[q].bufs_in_use \in Seq(Entry)
    BY DEF Types, TxQueue
  <2>3. SubSeq(tx[q].bufs_in_use, 1, cleaned) \in Seq(Entry)
    BY <2>2, SplitDistinct
  <2>4. free_stack' \in [Pool -> Seq(Entry)]
    BY <2>1, <2>3, <1>1, PushedType DEF Types
  <2> QED
    BY <2>1, <2>4, <1>3 DEF Types, PoolTypeOK
<1>10. ASSUME NEW b \in held, Free(b) PROVE Types' /\ Counted'
  BY <1>10, <1>2, DropPktType DEF Free, Types
<1>11. ASSUME NEW b \in held, NEW q \in QueueId, send(q, b) PROVE Types' /\ Counted'
  <2>1. CASE q \in TxId /\ can_send(tx[q])
    <3>1. PICK queue \in TxQueue :
            /\ tx' = [tx EXCEPT ![q] = queue]
            /\ CountedIn(queue)
            /\ held' = held \ {b}
            /\ UNCHANGED <<free_stack, payload, panicked, rx>>
      BY <2>1, <1>11, Sent
    <3> QED
      BY <3>1, <2>1, <1>3 DEF Types, PoolTypeOK
  <2>2. CASE ~(q \in TxId /\ can_send(tx[q]))
    <3>1. DropPkt(b) /\ UNCHANGED <<rx, tx>>
      BY <2>2, <1>11 DEF send
    <3> QED
      BY <3>1, <1>2, DropPktType DEF Types
  <2> QED
    BY <2>1, <2>2
<1>12. ASSUME Allocate PROVE Types' /\ Counted'
  BY <1>12, <1>1, <1>2, AllocPktType DEF Allocate, Types
<1>13. CASE UNCHANGED vars
  BY <1>13, <1>2, <1>5 DEF vars
<1> QED
  BY <1>6, <1>7, <1>8, <1>9, <1>10, <1>11, <1>12, <1>13 DEF Next

\* Each step keeps the entries divided.
LEMMA OwnersStep == Inv /\ [Next]_vars => Owners'
<1> SUFFICES ASSUME Inv, [Next]_vars PROVE Owners'
  OBVIOUS
<1>1. ASSUME UNCHANGED poolVars, \A r \in RingId : InRing(r)' = InRing(r),
             \A q \in RxId : rx'[q].bufs_in_use = rx[q].bufs_in_use,
             \A q \in TxId : tx'[q].bufs_in_use = tx[q].bufs_in_use
      PROVE  Owners'
  <2>1. Rings' = Rings
    <3>1. Rings' = UNION {InRing(r)' : r \in RingId}
      BY DEF Rings, RingId, RxId, TxId
    <3> QED
      BY <3>1, <1>1 DEF Rings
  <2>2. free_stack' = free_stack /\ held' = held /\ panicked' = panicked
    BY <1>1 DEF poolVars
  <2>3. FreeEntries' = FreeEntries
    BY <2>2 DEF FreeEntries
  <2> QED
    BY <2>1, <2>2, <2>3, <1>1 DEF Inv, Owners, RingId, RxId, TxId
<1>2. ASSUME NEW q \in RxId, CardReceive(q) PROVE Owners'
  <2>1. PICK queue : queue = [rx[q] EXCEPT !.RDH = wrap_ring(@)]
    OBVIOUS
  <2>2. rx' = [rx EXCEPT ![q] = queue] /\ UNCHANGED <<poolVars, tx>>
    BY <2>1, <1>2 DEF CardReceive, Inv, Types
  <2>3. \A s \in RxId : rx'[s].bufs_in_use = rx[s].bufs_in_use
    BY <2>1, <2>2 DEF Inv, Types, RxQueue
  <2>4. \A r \in RingId : InRing(r)' = InRing(r)
    BY <2>2, <2>3, RingKinds DEF InRing
  <2> QED
    BY <2>2, <2>3, <2>4, <1>1
<1>3. ASSUME NEW q \in TxId, CardTransmit(q) PROVE Owners'
  <2>1. PICK queue \in TxQueue :
          /\ tx' = [tx EXCEPT ![q] = queue]
          /\ queue.bufs_in_use = tx[q].bufs_in_use
          /\ UNCHANGED <<poolVars, rx>>
    BY <1>3, Transmitted DEF Inv
  <2>2. \A s \in TxId : tx'[s].bufs_in_use = tx[s].bufs_in_use
    BY <2>1 DEF Inv, Types
  <2>3. \A r \in RingId : InRing(r)' = InRing(r)
    BY <2>1, <2>2, RingKinds DEF InRing
  <2> QED
    BY <2>1, <2>2, <2>3, <1>1
<1>4. ASSUME NEW q \in RxId, NEW n \in 1 .. MaxNums, NEW keep \in BOOLEAN,
             receive_packets(q, n, keep)
      PROVE  Owners'
  BY <1>4, ReceiveOwners
<1>5. ASSUME NEW q \in TxId, recycle_tx_buffers(q) PROVE Owners'
  BY <1>5, RecycleOwners
<1>6. ASSUME NEW b \in held, Free(b) PROVE Owners'
  BY <1>6, DropOwners DEF Free, Inv
<1>7. ASSUME NEW b \in held, NEW q \in QueueId, send(q, b) PROVE Owners'
  <2>1. CASE q \in TxId /\ can_send(tx[q])
    BY <2>1, <1>7, SendOwners
  <2>2. CASE ~(q \in TxId /\ can_send(tx[q]))
    BY <2>2, <1>7, DropOwners DEF send, Inv
  <2> QED
    BY <2>1, <2>2
<1>8. ASSUME Allocate PROVE Owners'
  BY <1>8, AllocateOwners DEF Allocate, Inv
<1>9. CASE UNCHANGED vars
  BY <1>9, <1>1 DEF vars, InRing
<1> QED
  BY <1>2, <1>3, <1>4, <1>5, <1>6, <1>7, <1>8, <1>9 DEF Next

\* The invariant holds in every state, for every number of queues.
THEOREM Invariance == Spec => []Inv
<1>1. Init => Inv
  BY TypesInit, OwnersInit DEF Inv
<1>2. Inv /\ [Next]_vars => Inv'
  BY TypesStep, OwnersStep DEF Inv
<1> QED
  BY <1>1, <1>2, PTL DEF Spec

\* Every variable keeps to its type.
THEOREM TypeCorrect == Spec => []TypeOK
<1>1. Inv => TypeOK
  BY DEF Inv, Types, TypeOK, RxQueue, TxQueue
<1> QED
  BY <1>1, Invariance, PTL

\* No entry is lost and none has two owners, whichever queues it goes through,
\* and so no drop ever panics.
THEOREM OneOwnerHolds == Spec => []OneOwner
<1>1. Inv => OneOwner
  BY OwnersOneOwner DEF Inv
<1> QED
  BY <1>1, Invariance, PTL

\* A transmit ring has as many entries as descriptors between clean_index and
\* tx_index, and the card is never beyond them: what makes drain in
\* recycle_tx_buffers find a whole batch.
THEOREM CountedHolds == Spec => []Counted
<1>1. Inv => Counted
  BY DEF Inv
<1> QED
  BY <1>1, Invariance, PTL
=============================================================================
