------------------------------ MODULE RingBuffer ------------------------------
(***************************************************************************)
(* Facts about the ring buffers of the kernel (pipe.c, uart.c, console.c,  *)
(* virtio_disk.c): S slots, and indices that count modulo W, a multiple of *)
(* S, of which r is the oldest entry and w the next free one.              *)
(***************************************************************************)
EXTENDS Integers, Sequences, TLAPS

\* The entries from index r up to index w, oldest first, and how many they are.
Dist(r, w, W) == (w - r) % W
Held(buf, r, w, S, W) == [k \in 1..Dist(r, w, W) |-> buf[(r + k - 1) % S]]

Divides(S, W) == W % S = 0

\* Names for the two sides of a store, for concatenation and for length: they keep the
\* lemmas below out of the provers' own treatment of functions and sequences, so that they
\* find their instances.
Stored(buf, k, c) == [buf EXCEPT ![k] = c]
Added(s, c) == Append(s, c)
Joined(s, t) == s \o t
Length(s) == Len(s)
Values(buf) == {buf[k] : k \in Int}
Shortened(s) == SubSeq(s, 1, Len(s) - 1)

-------------------------------------------------------------------------------
(* Remainders                                                                  *)

\* The quotient and the remainder determine each other.
LEMMA Division ==
  ASSUME NEW W \in Nat \ {0}, NEW a \in Int
  PROVE  a \div W \in Int /\ a % W \in 0..(W - 1) /\ a = (a \div W) * W + (a % W)
OBVIOUS

\* The remainders of numbers in the ranges that index arithmetic produces.
LEMMA SmallMod ==
  ASSUME NEW W \in Nat \ {0}, NEW a \in Int
  PROVE  /\ a \in 0..(W - 1) => a % W = a
         /\ a \in W..(2 * W - 1) => a % W = a - W
         /\ a \in (-W)..(-1) => a % W = a + W
<1>1. a \in 0..(W - 1) => a % W = a
  OBVIOUS
<1>2. ASSUME a \in W..(2 * W - 1) PROVE a % W = a - W
  BY <1>2
<1>3. ASSUME a \in (-W)..(-1) PROVE a % W = a + W
  BY <1>3
<1> QED BY <1>1, <1>2, <1>3

\* A quotient and a remainder, put together again.
LEMMA RemainderOf ==
  ASSUME NEW W \in Nat \ {0}, NEW q \in Int, NEW t \in 0..(W - 1)
  PROVE  (q * W + t) % W = t
OBVIOUS

\* A multiple of the modulus can be left out.
LEMMA ModMultiple ==
  ASSUME NEW S \in Nat \ {0}, NEW q \in Int, NEW a \in Int
  PROVE  (a + q * S) % S = a % S
<1> DEFINE d == a \div S
           t == a % S
<1>1. d \in Int /\ t \in 0..(S - 1) /\ a = d * S + t
  BY Division
<1> HIDE DEF d, t
<1>2. a + q * S = (d + q) * S + t
  BY <1>1
<1>3. d + q \in Int
  BY <1>1
<1>4. ((d + q) * S + t) % S = t
  BY <1>1, <1>3, RemainderOf
<1> QED BY <1>2, <1>4 DEF t

\* Numbers closer to each other than the modulus have different remainders.
LEMMA ModInjective ==
  ASSUME NEW S \in Nat \ {0}, NEW a \in Int, NEW b \in Int,
         a % S = b % S, a - b < S, b - a < S
  PROVE  a = b
<1> DEFINE p == a \div S
           q == b \div S
           t == a % S
<1>1. p \in Int /\ q \in Int /\ t \in Int /\ a = p * S + t /\ b = q * S + t
  BY Division
<1> HIDE DEF p, q, t
<1>2. a - b = (p - q) * S
  BY <1>1
<1>3. CASE p > q
  BY <1>1, <1>2, <1>3
<1>4. CASE p < q
  BY <1>1, <1>2, <1>4
<1> QED BY <1>1, <1>3, <1>4

\* The number of slots divides the modulus, so that a slot is the same one turn later.
LEMMA ModPeriod ==
  ASSUME NEW S \in Nat \ {0}, NEW W \in Nat \ {0}, Divides(S, W), NEW a \in Int
  PROVE  (a + W) % S = a % S
<1> DEFINE m == W \div S
<1>1. m \in Int /\ W = m * S + (W % S)
  BY Division
<1> HIDE DEF m
<1>2. m \in Int /\ W = m * S
  BY <1>1 DEF Divides
<1>3. (a + m * S) % S = a % S
  BY <1>2, ModMultiple, Zenon
<1> QED BY <1>2, <1>3

-------------------------------------------------------------------------------
(* Indices                                                                     *)

\* The distance between two indices.
LEMMA DistIs ==
  ASSUME NEW W \in Nat \ {0}, NEW r \in 0..(W - 1), NEW w \in 0..(W - 1)
  PROVE  Dist(r, w, W) = IF w >= r THEN w - r ELSE w - r + W
<1> DEFINE a == w - r
<1>1. a \in Int /\ (w >= r => a \in 0..(W - 1)) /\ (w < r => a \in (-W)..(-1))
  OBVIOUS
<1> HIDE DEF a
<1>2. (w >= r => a % W = a) /\ (w < r => a % W = a + W)
  BY <1>1, SmallMod
<1> QED BY <1>2 DEF Dist, a

\* A distance is 0 only between an index and itself.
LEMMA DistType ==
  ASSUME NEW W \in Nat \ {0}, NEW r \in 0..(W - 1), NEW w \in 0..(W - 1)
  PROVE  /\ Dist(r, w, W) \in 0..(W - 1)
         /\ r # w => Dist(r, w, W) \in Nat \ {0}
<1> DEFINE d == Dist(r, w, W)
<1>1. d = IF w >= r THEN w - r ELSE w - r + W
  BY DistIs, Zenon
<1> HIDE DEF d
<1>2. d \in 0..(W - 1) /\ (r # w => d \in Nat \ {0})
  BY <1>1
<1> QED BY <1>2 DEF d

\* The slot of the index at distance d from r, whether or not it has wrapped.
LEMMA SlotAt ==
  ASSUME NEW S \in Nat \ {0}, NEW W \in Nat \ {0}, W > S, Divides(S, W),
         NEW r \in 0..(W - 1), NEW w \in 0..(W - 1)
  PROVE  /\ Dist(r, w, W) \in 0..(W - 1)
         /\ w % S = (r + Dist(r, w, W)) % S
<1> DEFINE d == Dist(r, w, W)
<1>1. d = IF w >= r THEN w - r ELSE w - r + W
  BY DistIs, Zenon
<1> HIDE DEF d
<1>2. d \in 0..(W - 1) /\ (r + d = w \/ r + d = w + W)
  BY <1>1
<1>3. w \in Int
  OBVIOUS
<1>4. (w + W) % S = w % S
  BY <1>3, ModPeriod, Zenon
<1> QED BY <1>2, <1>4 DEF d

\* The next index, and the one before.
LEMMA NextIndex ==
  ASSUME NEW W \in Nat \ {0}, NEW w \in 0..(W - 1)
  PROVE  /\ (w + 1) % W \in 0..(W - 1)
         /\ (w + 1) % W = IF w = W - 1 THEN 0 ELSE w + 1
         /\ (w - 1) % W \in 0..(W - 1)
         /\ (w - 1) % W = IF w = 0 THEN W - 1 ELSE w - 1
<1> DEFINE a == w + 1
           b == w - 1
<1>1. /\ a \in Int /\ b \in Int
      /\ a \in 0..(W - 1) \/ (a = W /\ a \in W..(2 * W - 1))
      /\ b \in 0..(W - 1) \/ (b = -1 /\ b \in (-W)..(-1))
  OBVIOUS
<1> HIDE DEF a, b
<1>2. a % W = (IF a = W THEN 0 ELSE a) /\ b % W = (IF b = -1 THEN W - 1 ELSE b)
  <2>1. /\ a \in 0..(W - 1) => a % W = a
        /\ a \in W..(2 * W - 1) => a % W = a - W
        /\ b \in 0..(W - 1) => b % W = b
        /\ b \in (-W)..(-1) => b % W = b + W
    BY <1>1, SmallMod, Zenon
  <2> QED BY <1>1, <2>1
<1> QED BY <1>2 DEF a, b

\* Distances add up as long as they do not exceed the modulus.
LEMMA DistAdd ==
  ASSUME NEW W \in Nat \ {0}, NEW a \in 0..(W - 1), NEW b \in 0..(W - 1), NEW c \in 0..(W - 1),
         Dist(a, b, W) + Dist(b, c, W) < W
  PROVE  Dist(a, c, W) = Dist(a, b, W) + Dist(b, c, W)
BY DistIs

\* One more entry, one less at either end, and none.
LEMMA DistStep ==
  ASSUME NEW W \in Nat \ {0}, NEW r \in 0..(W - 1), NEW w \in 0..(W - 1)
  PROVE  /\ Dist(r, w, W) + 1 < W => Dist(r, (w + 1) % W, W) = Dist(r, w, W) + 1
         /\ r # w => Dist((r + 1) % W, w, W) = Dist(r, w, W) - 1
         /\ r # w => Dist(r, (w - 1) % W, W) = Dist(r, w, W) - 1
         /\ r = w <=> Dist(r, w, W) = 0
<1> DEFINE u == (w + 1) % W
           v == (w - 1) % W
           q == (r + 1) % W
<1>1. /\ u \in 0..(W - 1) /\ u = IF w = W - 1 THEN 0 ELSE w + 1
      /\ v \in 0..(W - 1) /\ v = IF w = 0 THEN W - 1 ELSE w - 1
      /\ q \in 0..(W - 1) /\ q = IF r = W - 1 THEN 0 ELSE r + 1
  BY NextIndex
<1> HIDE DEF u, v, q
<1>2. /\ Dist(r, w, W) = IF w >= r THEN w - r ELSE w - r + W
      /\ Dist(r, u, W) = IF u >= r THEN u - r ELSE u - r + W
      /\ Dist(r, v, W) = IF v >= r THEN v - r ELSE v - r + W
      /\ Dist(q, w, W) = IF w >= q THEN w - q ELSE w - q + W
  BY <1>1, DistIs
<1>3. /\ Dist(r, w, W) + 1 < W => Dist(r, u, W) = Dist(r, w, W) + 1
      /\ r # w => Dist(q, w, W) = Dist(r, w, W) - 1
      /\ r # w => Dist(r, v, W) = Dist(r, w, W) - 1
      /\ r = w <=> Dist(r, w, W) = 0
  BY <1>1, <1>2
<1> QED BY <1>3 DEF u, v, q

\* The test for a full ring: the indices are as far apart as there are slots.
LEMMA FullRing ==
  ASSUME NEW S \in Nat \ {0}, NEW W \in Nat \ {0}, W > S, Divides(S, W),
         NEW r \in 0..(W - 1), NEW w \in 0..(W - 1)
  PROVE  w = (r + S) % W <=> Dist(r, w, W) = S
<1> DEFINE a == r + S
<1>1. a \in Int /\ (a \in 0..(W - 1) \/ a \in W..(2 * W - 1))
  OBVIOUS
<1> HIDE DEF a
<1>2. a % W = IF a < W THEN a ELSE a - W
  <2>1. /\ a \in 0..(W - 1) => a % W = a
        /\ a \in W..(2 * W - 1) => a % W = a - W
    BY <1>1, SmallMod, Zenon
  <2> QED BY <1>1, <2>1
<1>3. Dist(r, w, W) = IF w >= r THEN w - r ELSE w - r + W
  BY DistIs, Zenon
<1> QED BY <1>2, <1>3 DEF a

-------------------------------------------------------------------------------
(* Contents                                                                    *)

\* An entry that is held is not in the slot of the next free index.
LEMMA SlotFree ==
  ASSUME NEW S \in Nat \ {0}, NEW W \in Nat \ {0}, W > S, Divides(S, W),
         NEW r \in 0..(W - 1), NEW w \in 0..(W - 1), Dist(r, w, W) < S,
         NEW k \in 1..Dist(r, w, W)
  PROVE  (r + k - 1) % S # w % S
<1> DEFINE d == Dist(r, w, W)
           a == r + k - 1
           b == r + d
<1>1. d \in 0..(W - 1) /\ w % S = (r + d) % S
  BY SlotAt
<1>2. d \in Int /\ a \in Int /\ b \in Int /\ a - b < S /\ b - a < S /\ a # b
  <2> HIDE DEF d
  <2>1. k \in 1..d /\ d < S
    BY DEF d
  <2> QED BY <1>1, <2>1
<1> HIDE DEF a, b
<1>3. a % S # b % S
  BY <1>2, ModInjective
<1> QED BY <1>1, <1>3 DEF a, b

\* What a ring holds is a sequence, and slots are slots.
LEMMA HeldSeq ==
  ASSUME NEW S \in Nat \ {0}, NEW W \in Nat \ {0}, NEW V, NEW buf \in [0..(S - 1) -> V],
         NEW r \in 0..(W - 1), NEW w \in 0..(W - 1)
  PROVE  /\ Held(buf, r, w, S, W) \in Seq(V)
         /\ r = w <=> Held(buf, r, w, S, W) = <<>>
<1> DEFINE d == Dist(r, w, W)
           Slot(k) == (r + k - 1) % S
           h == [k \in 1..d |-> buf[Slot(k)]]
<1>1. d \in 0..(W - 1) /\ (r # w => d \in Nat \ {0}) /\ (r = w => d = 0)
  BY DistType, DistStep, Zenon
<1>2. ASSUME NEW k \in 1..d PROVE Slot(k) \in 0..(S - 1)
  <2> DEFINE a == r + k - 1
  <2>1. a \in Int
    BY <1>1
  <2> HIDE DEF a
  <2>2. a % S \in 0..(S - 1)
    BY <2>1, Division
  <2> QED BY <2>2 DEF a
<1>3. h = Held(buf, r, w, S, W)
  BY DEF Held
<1> HIDE DEF d, Slot
<1>4. h \in [1..d -> V]
  BY <1>2
<1> HIDE DEF h
<1>5. d \in Nat
  BY <1>1
<1>6. h \in Seq(V) /\ Len(h) = d
  BY <1>4, <1>5
<1>7. r = w <=> h = <<>>
  BY <1>1, <1>6
<1> QED BY <1>3, <1>6, <1>7 DEF d

\* It is one whatever is in the slots.
LEMMA HeldAny ==
  ASSUME NEW S \in Nat \ {0}, NEW W \in Nat \ {0}, NEW buf,
         NEW r \in 0..(W - 1), NEW w \in 0..(W - 1)
  PROVE  Held(buf, r, w, S, W) \in Seq(Values(buf))
<1> DEFINE d == Dist(r, w, W)
           Slot(k) == (r + k - 1) % S
           h == [k \in 1..d |-> buf[Slot(k)]]
           V == Values(buf)
<1>1. d \in 0..(W - 1)
  BY DistType, Zenon
<1>2. ASSUME NEW k \in 1..d PROVE Slot(k) \in Int
  <2> DEFINE a == r + k - 1
  <2>1. a \in Int
    BY <1>1
  <2> HIDE DEF a
  <2>2. a % S \in Int
    BY <2>1, Division
  <2> QED BY <2>2 DEF a
<1>3. h = Held(buf, r, w, S, W)
  BY DEF Held
<1> HIDE DEF d, Slot
<1>4. \A k \in 1..d : buf[Slot(k)] \in V
  BY <1>2 DEF Values
<1> HIDE DEF V
<1>5. h \in [1..d -> V]
  BY <1>4
<1> HIDE DEF h
<1>6. h \in Seq(V)
  BY <1>1, <1>5
<1> QED BY <1>3, <1>6 DEF V

\* How many entries a ring holds.
LEMMA HeldLength ==
  ASSUME NEW S \in Nat \ {0}, NEW W \in Nat \ {0}, NEW buf,
         NEW r \in 0..(W - 1), NEW w \in 0..(W - 1)
  PROVE  Length(Held(buf, r, w, S, W)) = Dist(r, w, W)
<1> DEFINE d == Dist(r, w, W)
           Slot(k) == (r + k - 1) % S
           h == [k \in 1..d |-> buf[Slot(k)]]
<1>1. d \in 0..(W - 1)
  BY DistType, Zenon
<1>2. h = Held(buf, r, w, S, W)
  BY DEF Held
<1> HIDE DEF d, Slot
<1>3. Len(h) = d
  BY <1>1
<1> QED BY <1>2, <1>3 DEF d, Length

\* Storing at w adds one entry to those that are held.
LEMMA HeldPut ==
  ASSUME NEW S \in Nat \ {0}, NEW W \in Nat \ {0}, W > S, Divides(S, W),
         NEW V, NEW buf \in [0..(S - 1) -> V], NEW c \in V,
         NEW r \in 0..(W - 1), NEW w \in 0..(W - 1), Dist(r, w, W) < S
  PROVE  Held(Stored(buf, w % S, c), r, (w + 1) % W, S, W) = Added(Held(buf, r, w, S, W), c)
<1> DEFINE d == Dist(r, w, W)
           new == [buf EXCEPT ![w % S] = c]
           u == (w + 1) % W
           Slot(k) == (r + k - 1) % S
           h == Held(buf, r, w, S, W)
<1>1. d \in 0..(W - 1) /\ w % S = (r + d) % S /\ d < S
  BY SlotAt
<1>2. u \in 0..(W - 1) /\ Dist(r, u, W) = d + 1
  <2>1. u \in 0..(W - 1)
    BY NextIndex, Zenon
  <2>2. d + 1 < W
    BY <1>1
  <2> QED BY <2>1, <2>2, DistStep, Zenon
<1>3. w % S \in 0..(S - 1)
  BY Division
<1>4. new \in [0..(S - 1) -> V] /\ new[w % S] = c
  BY <1>3
<1>5. ASSUME NEW k \in 1..d PROVE Slot(k) \in 0..(S - 1) /\ Slot(k) # w % S
  <2>1. (r + k - 1) % S # w % S
    BY SlotFree, Zenon
  <2> DEFINE a == r + k - 1
  <2>2. a \in Int
    BY <1>1
  <2> HIDE DEF a
  <2>3. a % S \in 0..(S - 1)
    BY <2>2, Division
  <2> QED BY <2>1, <2>3 DEF a
<1>6. Slot(d + 1) = w % S
  <2>1. r + (d + 1) - 1 = r + d
    BY <1>1
  <2> QED BY <1>1, <2>1
<1>7. h = [k \in 1..d |-> buf[Slot(k)]]
  BY DEF Held
<1>8. Held(new, r, u, S, W) = [k \in 1..(d + 1) |-> new[Slot(k)]]
  BY <1>2 DEF Held
<1>9. h \in Seq(V) /\ Len(h) = d
  <2>1. h \in Seq(V)
    BY HeldSeq, Zenon
  <2> HIDE DEF d, h, Slot
  <2>2. Len(h) = d
    BY <1>1, <1>7
  <2> QED BY <2>1, <2>2
<1>10. \A k \in 1..d : new[Slot(k)] = buf[Slot(k)]
  BY <1>5
<1> HIDE DEF d, u, Slot, h
<1>11. Held(new, r, u, S, W) = Append(h, c)
  <2> HIDE DEF new
  <2> SUFFICES [k \in 1..(d + 1) |-> new[Slot(k)]] = Append(h, c)
    BY <1>8
  <2>1. \A k \in 1..(d + 1) : k = d + 1 \/ k \in 1..d
    BY <1>1
  <2> QED BY <1>1, <1>4, <1>6, <1>7, <1>9, <1>10, <2>1
<1> QED BY <1>11 DEF d, u, h, Stored, Added

\* Storing at w changes no entry between r and an index before w.
LEMMA HeldKept ==
  ASSUME NEW S \in Nat \ {0}, NEW W \in Nat \ {0}, W > S, Divides(S, W),
         NEW V, NEW buf \in [0..(S - 1) -> V], NEW c \in V,
         NEW r \in 0..(W - 1), NEW w \in 0..(W - 1), Dist(r, w, W) < S,
         NEW v \in 0..(W - 1), Dist(r, v, W) <= Dist(r, w, W)
  PROVE  Held(Stored(buf, w % S, c), r, v, S, W) = Held(buf, r, v, S, W)
<1> DEFINE d == Dist(r, w, W)
           x == Dist(r, v, W)
           new == [buf EXCEPT ![w % S] = c]
           Slot(k) == (r + k - 1) % S
<1>1. d \in 0..(W - 1) /\ x \in 0..(W - 1) /\ x <= d
  BY DistType, Zenon
<1>2. ASSUME NEW k \in 1..d PROVE Slot(k) # w % S
  BY SlotFree, Zenon
<1>3. /\ Held(new, r, v, S, W) = [k \in 1..x |-> new[Slot(k)]]
      /\ Held(buf, r, v, S, W) = [k \in 1..x |-> buf[Slot(k)]]
  BY DEF Held
<1>4. ASSUME NEW k \in 1..d PROVE Slot(k) \in 0..(S - 1)
  <2> DEFINE a == r + k - 1
  <2>1. a \in Int
    BY <1>1
  <2> HIDE DEF a
  <2>2. a % S \in 0..(S - 1)
    BY <2>1, Division
  <2> QED BY <2>2 DEF a
<1>5. \A k \in 1..d : new[Slot(k)] = buf[Slot(k)]
  BY <1>2, <1>4
<1> HIDE DEF d, x, new, Slot
<1>6. \A k \in 1..x : k \in 1..d
  BY <1>1
<1>7. Held(new, r, v, S, W) = Held(buf, r, v, S, W)
  BY <1>3, <1>5, <1>6
<1> QED BY <1>7 DEF new, Stored

\* The oldest entry is the one at r.
LEMMA HeldHead ==
  ASSUME NEW S \in Nat \ {0}, NEW W \in Nat \ {0}, W > S, Divides(S, W),
         NEW V, NEW buf \in [0..(S - 1) -> V],
         NEW r \in 0..(W - 1), NEW w \in 0..(W - 1), r # w
  PROVE  Head(Held(buf, r, w, S, W)) = buf[r % S]
<1> DEFINE d == Dist(r, w, W)
           h == Held(buf, r, w, S, W)
<1>1. d \in Nat \ {0}
  BY DistType, Zenon
<1>2. h = [k \in 1..d |-> buf[(r + k - 1) % S]]
  BY DEF Held
<1>3. h \in Seq(V)
  BY HeldSeq, Zenon
<1> HIDE DEF d, h
<1>4. Len(h) = d /\ r + 1 - 1 = r
  BY <1>1, <1>2
<1>5. Head(h) = buf[r % S]
  BY <1>1, <1>2, <1>3, <1>4
<1> QED BY <1>5 DEF h

\* Taking the entry at r.
LEMMA HeldGet ==
  ASSUME NEW S \in Nat \ {0}, NEW W \in Nat \ {0}, W > S, Divides(S, W),
         NEW V, NEW buf \in [0..(S - 1) -> V],
         NEW r \in 0..(W - 1), NEW w \in 0..(W - 1), r # w
  PROVE  /\ Held(buf, (r + 1) % W, w, S, W) = Tail(Held(buf, r, w, S, W))
         /\ Head(Held(buf, r, w, S, W)) = buf[r % S]
<1> DEFINE d == Dist(r, w, W)
           q == (r + 1) % W
           Slot(k) == (r + k - 1) % S
           h == Held(buf, r, w, S, W)
<1>1. d \in Nat \ {0}
  BY DistType, Zenon
<1>2. q \in 0..(W - 1) /\ (q = r + 1 \/ q + W = r + 1) /\ Dist(q, w, W) = d - 1
  <2>1. q \in 0..(W - 1) /\ q = IF r = W - 1 THEN 0 ELSE r + 1
    BY NextIndex, Zenon
  <2>2. Dist(q, w, W) = d - 1
    BY DistStep, Zenon
  <2> HIDE DEF q, d
  <2> QED BY <2>1, <2>2
<1>3. h = [k \in 1..d |-> buf[Slot(k)]]
  BY DEF Held
<1>4. h \in Seq(V) /\ Len(h) = d
  <2>1. h \in Seq(V)
    BY HeldSeq, Zenon
  <2> HIDE DEF d, h, Slot
  <2>2. Len(h) = d
    BY <1>1, <1>3
  <2> QED BY <2>1, <2>2
<1>5. Slot(1) = r % S
  <2>1. r + 1 - 1 = r
    OBVIOUS
  <2> QED BY <2>1
<1>6. ASSUME NEW k \in 1..(d - 1) PROVE (q + k - 1) % S = Slot(k + 1)
  <2> DEFINE a == q + k - 1
             b == r + (k + 1) - 1
  <2> HIDE DEF d
  <2>1. a \in Int /\ (b = a \/ b = a + W)
    <3> HIDE DEF q
    <3> QED BY <1>1, <1>2
  <2> HIDE DEF a, b
  <2>2. (a + W) % S = a % S
    BY <2>1, ModPeriod, Zenon
  <2>3. b % S = a % S
    BY <2>1, <2>2
  <2> QED BY <2>3 DEF a, b
<1>7. Held(buf, q, w, S, W) = [k \in 1..(d - 1) |-> buf[(q + k - 1) % S]]
  BY <1>2 DEF Held
<1>8. Held(buf, q, w, S, W) = [k \in 1..(d - 1) |-> buf[Slot(k + 1)]]
  BY <1>6, <1>7
<1> HIDE DEF d, q, Slot, h
<1>9. Head(h) = buf[r % S]
  BY <1>1, <1>3, <1>4, <1>5
<1>10. Tail(h) = [k \in 1..(d - 1) |-> buf[Slot(k + 1)]]
  BY <1>1, <1>3, <1>4
<1> QED BY <1>8, <1>9, <1>10 DEF q, h

\* Giving up the youngest entry.
LEMMA HeldErase ==
  ASSUME NEW S \in Nat \ {0}, NEW W \in Nat \ {0}, NEW buf,
         NEW r \in 0..(W - 1), NEW w \in 0..(W - 1), r # w
  PROVE  Held(buf, r, (w - 1) % W, S, W) = Shortened(Held(buf, r, w, S, W))
<1> DEFINE d == Dist(r, w, W)
           v == (w - 1) % W
           Slot(k) == (r + k - 1) % S
           h == Held(buf, r, w, S, W)
           V == Values(buf)
<1>1. d \in Nat \ {0}
  BY DistType, Zenon
<1>2. Dist(r, v, W) = d - 1
  BY DistStep, Zenon
<1>3. h = [k \in 1..d |-> buf[Slot(k)]]
  BY DEF Held
<1>4. Held(buf, r, v, S, W) = [k \in 1..(d - 1) |-> buf[Slot(k)]]
  BY <1>2 DEF Held
<1>5. h \in Seq(V)
  BY HeldAny, Zenon
<1> HIDE DEF V, d, v, Slot, h
<1>6. Len(h) = d
  BY <1>1, <1>3
<1>7. SubSeq(h, 1, d - 1) = [k \in 1..(d - 1) |-> buf[Slot(k)]]
  BY <1>1, <1>3, <1>5, <1>6
<1> QED BY <1>4, <1>6, <1>7 DEF v, h, Shortened

\* A concatenation, element by element.
LEMMA ConcatIs ==
  ASSUME NEW V, NEW f \in Seq(V), NEW g \in Seq(V)
  PROVE  f \o g = [k \in 1..(Len(f) + Len(g)) |->
                     IF k <= Len(f) THEN f[k] ELSE g[k - Len(f)]]
<1> DEFINE h == f \o g
           d == Len(f) + Len(g)
<1>1. h \in Seq(V) /\ Len(h) = d
  OBVIOUS
<1>2. \A k \in 1..d : h[k] = IF k <= Len(f) THEN f[k] ELSE g[k - Len(f)]
  OBVIOUS
<1> HIDE DEF h, d
<1>3. h = [k \in 1..d |-> h[k]]
  BY <1>1
<1> QED BY <1>2, <1>3 DEF h, d

\* What is held up to b, and from there on.
LEMMA HeldJoin ==
  ASSUME NEW S \in Nat \ {0}, NEW W \in Nat \ {0}, W > S, Divides(S, W),
         NEW buf, NEW a \in 0..(W - 1), NEW b \in 0..(W - 1), NEW c \in 0..(W - 1),
         Dist(a, b, W) + Dist(b, c, W) < W
  PROVE  Held(buf, a, c, S, W) = Joined(Held(buf, a, b, S, W), Held(buf, b, c, S, W))
<1> DEFINE x == Dist(a, b, W)
           y == Dist(b, c, W)
           SlotA(k) == (a + k - 1) % S
           SlotB(k) == (b + k - 1) % S
           f == Held(buf, a, b, S, W)
           g == Held(buf, b, c, S, W)
           V == Values(buf)
<1>1. x \in 0..(W - 1) /\ y \in 0..(W - 1) /\ Dist(a, c, W) = x + y
  BY DistType, DistAdd, Zenon
<1>2. a + x = b \/ a + x = b + W
  <2>1. x = IF b >= a THEN b - a ELSE b - a + W
    BY DistIs, Zenon
  <2> HIDE DEF x
  <2> QED BY <2>1
<1>3. ASSUME NEW k \in 1..y PROVE SlotA(x + k) = SlotB(k)
  <2> DEFINE m == b + k - 1
             l == a + (x + k) - 1
  <2>1. m \in Int /\ (l = m \/ l = m + W)
    <3> HIDE DEF x, y
    <3> QED BY <1>1, <1>2
  <2> HIDE DEF l, m
  <2>2. (m + W) % S = m % S
    BY <2>1, ModPeriod, Zenon
  <2>3. l % S = m % S
    BY <2>1, <2>2
  <2> QED BY <2>3 DEF l, m
<1>4. /\ f = [k \in 1..x |-> buf[SlotA(k)]]
      /\ g = [k \in 1..y |-> buf[SlotB(k)]]
      /\ Held(buf, a, c, S, W) = [k \in 1..(x + y) |-> buf[SlotA(k)]]
  BY <1>1 DEF Held
<1>5. f \in Seq(V) /\ g \in Seq(V)
  BY HeldAny, Zenon
<1> HIDE DEF V, x, y, SlotA, SlotB, f, g
<1>6. Len(f) = x /\ Len(g) = y
  BY <1>1, <1>4
<1>7. f \o g = [k \in 1..(x + y) |-> IF k <= x THEN f[k] ELSE g[k - x]]
  <2>1. f \o g = [k \in 1..(Len(f) + Len(g)) |-> IF k <= Len(f) THEN f[k] ELSE g[k - Len(f)]]
    BY <1>5, ConcatIs
  <2> QED BY <1>6, <2>1, Zenon
<1>8. ASSUME NEW k \in 1..(x + y)
      PROVE  (IF k <= x THEN f[k] ELSE g[k - x]) = buf[SlotA(k)]
  <2>1. CASE k <= x
    BY <1>1, <1>4, <2>1
  <2>2. CASE k > x
    <3>1. k - x \in 1..y /\ x + (k - x) = k
      BY <1>1, <2>2
    <3>2. SlotA(x + (k - x)) = SlotB(k - x)
      BY <1>3, <3>1
    <3>3. g[k - x] = buf[SlotB(k - x)]
      BY <1>4, <3>1
    <3> QED BY <1>1, <2>2, <3>1, <3>2, <3>3
  <2> QED BY <1>1, <2>1, <2>2
<1> QED BY <1>4, <1>7, <1>8 DEF f, g, Joined

===============================================================================
