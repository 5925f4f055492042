------------------------------ MODULE RingProofs ------------------------------
(***************************************************************************)
(* Arithmetic of a descriptor ring, for every size.                        *)
(***************************************************************************)
EXTENDS DescriptorRing, TLAPS

\* wrap_ring stays in the ring, whatever the index.
LEMMA WrapRingType ==
  ASSUME NEW i \in Int
  PROVE  wrap_ring(i) \in Ring
BY RingAssumption DEF wrap_ring, Ring

\* The mask steps to the next index, and from the last one to 0.
LEMMA WrapRing ==
  ASSUME NEW i \in Ring
  PROVE  wrap_ring(i) = IF i = QS - 1 THEN 0 ELSE i + 1
BY RingAssumption DEF wrap_ring, Ring

\* Distances in the ring are less than its size, and tell its indices apart.
LEMMA DistanceRange ==
  ASSUME NEW c \in Ring, NEW i \in Ring, NEW j \in Ring
  PROVE  /\ Distance(c, i) \in 0 .. QS - 1
         /\ Distance(c, c) = 0
         /\ Distance(c, i) = Distance(c, j) => i = j
BY RingAssumption DEF Distance, Ring

\* One step forward is one step further, except onto the start.
LEMMA DistanceNext ==
  ASSUME NEW c \in Ring, NEW i \in Ring
  PROVE  /\ wrap_ring(i) \in Ring
         /\ wrap_ring(i) = c <=> Distance(c, i) = QS - 1
         /\ Distance(c, i) < QS - 1 => Distance(c, wrap_ring(i)) = Distance(c, i) + 1
BY RingAssumption, WrapRing DEF Distance, Ring

\* Distances from a start further on.
LEMMA DistanceShift ==
  ASSUME NEW c \in Ring, NEW d \in Ring, NEW i \in Ring
  PROVE  Distance(d, i) = IF Distance(c, d) <= Distance(c, i)
                            THEN Distance(c, i) - Distance(c, d)
                            ELSE Distance(c, i) - Distance(c, d) + QS
BY RingAssumption DEF Distance, Ring

\* A number of steps forward that is less than the ring's size.
LEMMA DistanceAhead ==
  ASSUME NEW c \in Ring, NEW n \in Ring
  PROVE  (c + n) % QS \in Ring /\ Distance(c, (c + n) % QS) = n
<1>1. QS \in Nat \ {0} /\ c \in 0 .. QS - 1 /\ n \in 0 .. QS - 1
  BY RingAssumption DEF Ring
<1>2. (c + n) % QS = IF c + n < QS THEN c + n ELSE c + n - QS
  BY <1>1
<1> QED
  BY <1>1, <1>2 DEF Ring, Distance

\* Steps counted from the next index.
LEMMA DistanceAheadNext ==
  ASSUME NEW c \in Ring, NEW n \in Ring, n + 1 \in Ring
  PROVE  (wrap_ring(c) + n) % QS = (c + (n + 1)) % QS
<1>1. QS \in Nat \ {0} /\ c \in 0 .. QS - 1 /\ n \in 0 .. QS - 2
  BY RingAssumption DEF Ring
<1>2. (c + (n + 1)) % QS = IF c + n + 1 < QS THEN c + n + 1 ELSE c + n + 1 - QS
  BY <1>1
<1>3. PICK w : w = wrap_ring(c)
  OBVIOUS
<1>4. w = IF c = QS - 1 THEN 0 ELSE c + 1
  BY <1>3, WrapRing
<1>5. (w + n) % QS = IF w + n < QS THEN w + n ELSE w + n - QS
  BY <1>1, <1>4
<1> QED
  BY <1>1, <1>2, <1>3, <1>4, <1>5
=============================================================================
