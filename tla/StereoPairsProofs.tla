------------------------- MODULE StereoPairsProofs -------------------------
(***************************************************************************)
(* Proofs about StereoPairs, for any ports and names, whether or not two   *)
(* ports share one.                                                        *)
(***************************************************************************)
EXTENDS StereoPairs, FiniteSetTheorems, WellFoundedInduction, TLAPS

USE NamesAssumption

-----------------------------------------------------------------------------
(* Sequences.                                                              *)

LEMMA Joined ==
  ASSUME NEW S, NEW s \in Seq(S), NEW t \in Seq(S)
  PROVE  /\ s \o t \in Seq(S) /\ Len(s \o t) = Len(s) + Len(t)
         /\ \A k \in 1 .. Len(s) : (s \o t)[k] = s[k]
         /\ \A k \in 1 .. Len(s) + Len(t) : k > Len(s) => (s \o t)[k] = t[k - Len(s)]
OBVIOUS

LEMMA Removed ==
  ASSUME NEW S, NEW s \in Seq(S), NEW i \in 1 .. Len(s)
  PROVE  /\ RemoveAt(s, i) \in Seq(S)
         /\ Len(RemoveAt(s, i)) = Len(s) - 1
         /\ \A k \in 1 .. Len(s) - 1 : RemoveAt(s, i)[k] = IF k < i THEN s[k] ELSE s[k + 1]
<1> DEFINE front == SubSeq(s, 1, i - 1)
           back  == SubSeq(s, i + 1, Len(s))
<1>1. /\ front \in Seq(S) /\ Len(front) = i - 1
      /\ \A k \in 1 .. i - 1 : front[k] = s[k]
  OBVIOUS
<1>2. /\ back \in Seq(S) /\ Len(back) = Len(s) - i
      /\ \A k \in 1 .. Len(s) - i : back[k] = s[k + i]
  OBVIOUS
<1>3. RemoveAt(s, i) = front \o back
  BY DEF RemoveAt
<1> HIDE DEF front, back
<1>4. /\ front \o back \in Seq(S) /\ Len(front \o back) = Len(s) - 1
      /\ \A k \in 1 .. Len(s) - 1 : (front \o back)[k] = IF k < i THEN s[k] ELSE s[k + 1]
  <2> DEFINE all == front \o back
  <2>1. /\ all \in Seq(S) /\ Len(all) = Len(s) - 1
        /\ \A k \in 1 .. i - 1 : all[k] = front[k]
        /\ \A k \in 1 .. Len(s) - 1 : k > i - 1 => all[k] = back[k - (i - 1)]
    <3>1. /\ all \in Seq(S) /\ Len(all) = Len(front) + Len(back)
          /\ \A k \in 1 .. Len(front) : all[k] = front[k]
          /\ \A k \in 1 .. Len(front) + Len(back) : k > Len(front) => all[k] = back[k - Len(front)]
      <4>1. front \in Seq(S) /\ back \in Seq(S)
        BY <1>1, <1>2
      <4> QED
        BY <4>1
    <3>2. Len(front) = i - 1 /\ Len(front) + Len(back) = Len(s) - 1
      BY <1>1, <1>2
    <3> QED
      BY <3>1, <3>2
  <2> HIDE DEF all
  <2>2. ASSUME NEW k \in 1 .. Len(s) - 1, k < i PROVE all[k] = s[k]
    BY <1>1, <2>1, <2>2
  <2>3. ASSUME NEW k \in 1 .. Len(s) - 1, ~(k < i) PROVE all[k] = s[k + 1]
    <3>1. k - (i - 1) \in 1 .. Len(s) - i /\ k > i - 1 /\ (k - (i - 1)) + i = k + 1
      BY <2>3
    <3> QED
      BY <1>2, <2>1, <3>1
  <2> QED
    BY <2>1, <2>2, <2>3 DEF all
<1> QED
  BY <1>3, <1>4

LEMMA Inserted ==
  ASSUME NEW S, NEW s \in Seq(S), NEW i \in 1 .. Len(s) + 1, NEW e \in S
  PROVE  /\ InsertAt(s, i, e) \in Seq(S)
         /\ Len(InsertAt(s, i, e)) = Len(s) + 1
         /\ \A k \in 1 .. Len(s) + 1 :
              InsertAt(s, i, e)[k] = IF k < i THEN s[k] ELSE IF k = i THEN e ELSE s[k - 1]
<1> DEFINE front == SubSeq(s, 1, i - 1)
           back  == SubSeq(s, i, Len(s))
<1>1. /\ front \in Seq(S) /\ Len(front) = i - 1
      /\ \A k \in 1 .. i - 1 : front[k] = s[k]
  OBVIOUS
<1>2. /\ back \in Seq(S) /\ Len(back) = Len(s) - i + 1
      /\ \A k \in 1 .. Len(s) - i + 1 : back[k] = s[k + i - 1]
  OBVIOUS
<1> HIDE DEF front, back
<1> DEFINE mid == front \o <<e>>
<1>3. /\ mid \in Seq(S) /\ Len(mid) = i
      /\ \A k \in 1 .. i : mid[k] = IF k < i THEN s[k] ELSE e
  BY <1>1
<1> HIDE DEF mid
<1>4. InsertAt(s, i, e) = mid \o back
  BY DEF InsertAt, mid, front, back
<1>5. /\ mid \o back \in Seq(S) /\ Len(mid \o back) = Len(s) + 1
      /\ \A k \in 1 .. Len(s) + 1 :
           (mid \o back)[k] = IF k < i THEN s[k] ELSE IF k = i THEN e ELSE s[k - 1]
  <2> DEFINE all == mid \o back
  <2>1. /\ all \in Seq(S) /\ Len(all) = Len(s) + 1
        /\ \A k \in 1 .. i : all[k] = mid[k]
        /\ \A k \in 1 .. Len(s) + 1 : k > i => all[k] = back[k - i]
    BY <1>2, <1>3, Joined
  <2> HIDE DEF all
  <2>2. ASSUME NEW k \in 1 .. Len(s) + 1, k <= i PROVE all[k] = IF k < i THEN s[k] ELSE e
    BY <1>3, <2>1, <2>2
  <2>3. ASSUME NEW k \in 1 .. Len(s) + 1, k > i PROVE all[k] = s[k - 1]
    <3>1. k - i \in 1 .. Len(s) - i + 1 /\ (k - i) + i - 1 = k - 1
      BY <2>3
    <3> QED
      BY <1>2, <2>1, <2>3, <3>1
  <2> QED
    BY <2>1, <2>2, <2>3 DEF all
<1> QED
  BY <1>4, <1>5

-----------------------------------------------------------------------------
(* The base of a port.                                                     *)

Less == {p \in Nat \X Nat : p[1] < p[2]}

LEMMA LessWellFounded == IsWellFoundedOn(Less, Nat)
BY NatLessThanWellFounded DEF OpToRel, Less

LEMMA BaseAtType ==
  ASSUME ports \in Seq(Ports), NEW i \in Indices, Bases(i) /= {}
  PROVE  BaseAt(i) \in Bases(i)
<1>1. Bases(i) \subseteq Nat
  BY DEF Bases, Indices
<1>2. PICK x \in Bases(i) : \A y \in Bases(i) : ~ (<<y, x>> \in Less)
  BY <1>1, LessWellFounded, WFMin, ZenonT(30)
<1>3. ASSUME NEW y \in Bases(i) PROVE x <= y
  <2>1. x \in Nat /\ y \in Nat
    BY <1>1
  <2>2. ~ (y < x)
    BY <1>2, <2>1 DEF Less
  <2> QED
    BY <2>1, <2>2
<1>4. \E b \in Bases(i) : \A j \in Bases(i) : b <= j
  BY <1>3
<1> QED
  BY <1>4 DEF BaseAt

-----------------------------------------------------------------------------
\* The column has the ports it was given, and when the loop has ended none is out of
\* its place.
Inv ==
  /\ ports \in Seq(Ports) /\ given \in Seq(Ports)
  /\ OthersKeepOrder
  /\ changed \in BOOLEAN
  /\ ~changed => \A i \in Indices : ~Misplaced(i)

\* What a relocation puts at each index: the ports shift to close the gap at i and to open
\* one at b + 1.
LEMMA RelocatedAt ==
  ASSUME ports \in Seq(Ports), NEW i \in Indices, Misplaced(i)
  PROVE  /\ Relocate(i) \in Seq(Ports) /\ Len(Relocate(i)) = Len(ports)
         /\ \E b \in 0 .. Len(ports) - 1 :
              /\ b = IF BaseAt(i) > i THEN BaseAt(i) - 1 ELSE BaseAt(i)
              /\ \A k \in 1 .. Len(ports) :
                   Relocate(i)[k] =
                     IF k < b + 1 THEN IF k < i THEN ports[k] ELSE ports[k + 1]
                     ELSE IF k = b + 1 THEN ports[i]
                     ELSE IF k - 1 < i THEN ports[k - 1] ELSE ports[k]
<1> DEFINE b == IF BaseAt(i) > i THEN BaseAt(i) - 1 ELSE BaseAt(i)
           rest == RemoveAt(ports, i)
           new == InsertAt(rest, b + 1, ports[i])
<1>1. BaseAt(i) \in 1 .. Len(ports) /\ i \in 1 .. Len(ports) /\ Len(ports) \in Nat
  BY BaseAtType DEF Misplaced, Bases, Indices
<1>2. /\ rest \in Seq(Ports) /\ Len(rest) = Len(ports) - 1
      /\ \A k \in 1 .. Len(ports) - 1 : rest[k] = IF k < i THEN ports[k] ELSE ports[k + 1]
  BY <1>1, Removed
<1>3. b + 1 \in 1 .. Len(ports)
  <2>1. name[ports[i]] \in Names
    BY <1>1
  <2>2. BaseAt(i) /= i
    BY <2>1, <1>1, BaseAtType DEF Misplaced, Bases
  <2> QED
    BY <1>1, <2>2
<1> HIDE DEF b, rest
<1>4. /\ new \in Seq(Ports) /\ Len(new) = Len(ports)
      /\ \A k \in 1 .. Len(ports) :
           new[k] = IF k < b + 1 THEN rest[k] ELSE IF k = b + 1 THEN ports[i] ELSE rest[k - 1]
  <2>1. ports[i] \in Ports
    BY <1>1
  <2>2. b + 1 \in 1 .. Len(rest) + 1
    BY <1>1, <1>2, <1>3
  <2>3. /\ new \in Seq(Ports) /\ Len(new) = Len(rest) + 1
        /\ \A k \in 1 .. Len(rest) + 1 :
             new[k] = IF k < b + 1 THEN rest[k] ELSE IF k = b + 1 THEN ports[i] ELSE rest[k - 1]
    <3> DEFINE place == b + 1
               e == ports[i]
    <3>1. rest \in Seq(Ports) /\ place \in 1 .. Len(rest) + 1 /\ e \in Ports
      BY <1>2, <2>1, <2>2
    <3> HIDE DEF place, e
    <3>2. /\ InsertAt(rest, place, e) \in Seq(Ports) /\ Len(InsertAt(rest, place, e)) = Len(rest) + 1
          /\ \A k \in 1 .. Len(rest) + 1 :
               InsertAt(rest, place, e)[k] =
                 IF k < place THEN rest[k] ELSE IF k = place THEN e ELSE rest[k - 1]
      BY <3>1, Inserted
    <3> QED
      BY <3>2 DEF place, e
  <2>4. Len(rest) + 1 = Len(ports)
    BY <1>1, <1>2
  <2> QED
    BY <2>3, <2>4
<1>5. Relocate(i) = new
  BY DEF Relocate, b, rest
<1>6. b \in 0 .. Len(ports) - 1
  BY <1>1, <1>3 DEF b
<1> HIDE DEF new
<1>7. \A k \in 1 .. Len(ports) :
        new[k] = IF k < b + 1 THEN IF k < i THEN ports[k] ELSE ports[k + 1]
                 ELSE IF k = b + 1 THEN ports[i]
                 ELSE IF k - 1 < i THEN ports[k - 1] ELSE ports[k]
  <2> SUFFICES ASSUME NEW k \in 1 .. Len(ports)
               PROVE  new[k] = IF k < b + 1 THEN IF k < i THEN ports[k] ELSE ports[k + 1]
                               ELSE IF k = b + 1 THEN ports[i]
                               ELSE IF k - 1 < i THEN ports[k - 1] ELSE ports[k]
    OBVIOUS
  <2>1. CASE k < b + 1
    <3>1. k \in 1 .. Len(ports) - 1
      BY <1>1, <1>6, <2>1
    <3> QED
      BY <1>2, <1>4, <2>1, <3>1
  <2>2. CASE k = b + 1
    BY <1>1, <1>4, <1>6, <2>2
  <2>3. CASE k > b + 1
    <3>1. k - 1 \in 1 .. Len(ports) - 1 /\ (k - 1) + 1 = k /\ ~(k < b + 1) /\ k /= b + 1
      BY <1>1, <1>6, <2>3
    <3> QED
      BY <1>2, <1>4, <3>1
  <2> QED
    BY <1>1, <1>6, <2>1, <2>2, <2>3
<1>8. b = IF BaseAt(i) > i THEN BaseAt(i) - 1 ELSE BaseAt(i)
  BY DEF b
<1> QED
  BY <1>4, <1>5, <1>6, <1>7, <1>8

\* A relocation loses and doubles nothing.
LEMMA Relocated ==
  ASSUME ports \in Seq(Ports), NEW i \in Indices, Misplaced(i)
  PROVE  /\ Relocate(i) \in Seq(Ports) /\ Len(Relocate(i)) = Len(ports)
         /\ ToSet(Relocate(i)) = ToSet(ports)
<1> DEFINE new == Relocate(i)
<1>1. i \in 1 .. Len(ports) /\ Len(ports) \in Nat
  BY DEF Indices
<1>2. new \in Seq(Ports) /\ Len(new) = Len(ports)
  BY RelocatedAt
<1>3. PICK b \in 0 .. Len(ports) - 1 : \A k \in 1 .. Len(ports) :
        new[k] = IF k < b + 1 THEN IF k < i THEN ports[k] ELSE ports[k + 1]
                 ELSE IF k = b + 1 THEN ports[i]
                 ELSE IF k - 1 < i THEN ports[k - 1] ELSE ports[k]
  BY RelocatedAt
<1> HIDE DEF new
<1>4. \A k \in 1 .. Len(ports) : \E j \in 1 .. Len(ports) : new[k] = ports[j]
  <2> SUFFICES ASSUME NEW k \in 1 .. Len(ports)
               PROVE  \E j \in 1 .. Len(ports) : new[k] = ports[j]
    OBVIOUS
  <2> DEFINE j == IF k < b + 1 THEN IF k < i THEN k ELSE k + 1
                  ELSE IF k = b + 1 THEN i
                  ELSE IF k - 1 < i THEN k - 1 ELSE k
  <2>1. j \in 1 .. Len(ports)
    BY <1>1
  <2>2. new[k] = ports[j]
    BY <1>3
  <2> QED BY <2>1, <2>2
<1>5. \A j \in 1 .. Len(ports) : \E k \in 1 .. Len(ports) : new[k] = ports[j]
  <2> SUFFICES ASSUME NEW j \in 1 .. Len(ports)
               PROVE  \E k \in 1 .. Len(ports) : new[k] = ports[j]
    OBVIOUS
  <2> DEFINE r == IF j < i THEN j ELSE j - 1
             k == IF j = i THEN b + 1 ELSE IF r < b + 1 THEN r ELSE r + 1
  <2>1. k \in 1 .. Len(ports)
    BY <1>1
  <2>2. new[k] = IF k < b + 1 THEN IF k < i THEN ports[k] ELSE ports[k + 1]
                 ELSE IF k = b + 1 THEN ports[i]
                 ELSE IF k - 1 < i THEN ports[k - 1] ELSE ports[k]
    BY <1>3, <2>1
  <2>3. CASE j = i
    BY <2>2, <2>3
  <2>4. CASE j < i
    BY <1>1, <2>2, <2>4
  <2>5. CASE j > i
    <3>1. CASE r < b + 1
      BY <1>1, <2>2, <2>5, <3>1
    <3>2. CASE ~(r < b + 1)
      BY <1>1, <2>2, <2>5, <3>2
    <3> QED BY <3>1, <3>2
  <2> QED BY <1>1, <2>1, <2>3, <2>4, <2>5
<1>6. ToSet(new) = ToSet(ports)
  <2>1. DOMAIN new = 1 .. Len(ports) /\ DOMAIN ports = 1 .. Len(ports)
    BY <1>2
  <2>2. ToSet(new) = {new[k] : k \in 1 .. Len(ports)}
    BY <2>1 DEF ToSet
  <2>3. ToSet(ports) = {ports[k] : k \in 1 .. Len(ports)}
    BY <2>1 DEF ToSet
  <2>4. ASSUME NEW x \in ToSet(new) PROVE x \in ToSet(ports)
    <3>1. PICK k \in 1 .. Len(ports) : x = new[k]
      BY <2>2
    <3>2. PICK j \in 1 .. Len(ports) : new[k] = ports[j]
      BY <1>4
    <3> QED
      BY <2>3, <3>1, <3>2
  <2>5. ASSUME NEW x \in ToSet(ports) PROVE x \in ToSet(new)
    <3>1. PICK j \in 1 .. Len(ports) : x = ports[j]
      BY <2>3
    <3>2. PICK k \in 1 .. Len(ports) : new[k] = ports[j]
      BY <1>5
    <3> QED
      BY <2>2, <3>1, <3>2
  <2> QED
    BY <2>4, <2>5
<1> QED
  BY <1>2, <1>6 DEF new

\* A relocation changes the order of no two ports other than the one it moves.
LEMMA OrderKept ==
  ASSUME ports \in Seq(Ports), NEW i \in Indices, Misplaced(i),
         NEW p, NEW q, p /= ports[i], q /= ports[i]
  PROVE  Precedes(Relocate(i), p, q) <=> Precedes(ports, p, q)
<1> DEFINE new == Relocate(i)
<1>1. i \in 1 .. Len(ports) /\ Len(ports) \in Nat
  BY DEF Indices
<1>2. DOMAIN new = 1 .. Len(ports) /\ DOMAIN ports = 1 .. Len(ports)
  BY RelocatedAt
<1>3. PICK b \in 0 .. Len(ports) - 1 : \A k \in 1 .. Len(ports) :
        new[k] = IF k < b + 1 THEN IF k < i THEN ports[k] ELSE ports[k + 1]
                 ELSE IF k = b + 1 THEN ports[i]
                 ELSE IF k - 1 < i THEN ports[k - 1] ELSE ports[k]
  BY RelocatedAt
<1> HIDE DEF new
<1> DEFINE r(j) == IF j < i THEN j ELSE j - 1           \* where an old index goes
           To(j) == IF r(j) < b + 1 THEN r(j) ELSE r(j) + 1
           s(k) == IF k < b + 1 THEN k ELSE k - 1        \* where a new index is from
           From(k) == IF s(k) < i THEN s(k) ELSE s(k) + 1
<1>4. ASSUME NEW j \in 1 .. Len(ports), j /= i
      PROVE  To(j) \in 1 .. Len(ports) /\ new[To(j)] = ports[j]
  <2>1. To(j) \in 1 .. Len(ports)
    BY <1>1, <1>4
  <2> DEFINE k == To(j)
  <2>2. new[k] = IF k < b + 1 THEN IF k < i THEN ports[k] ELSE ports[k + 1]
                 ELSE IF k = b + 1 THEN ports[i]
                 ELSE IF k - 1 < i THEN ports[k - 1] ELSE ports[k]
    <3> HIDE DEF To
    <3> QED BY <1>3, <2>1
  <2>3. CASE j < i
    BY <1>1, <2>2, <2>3
  <2>4. CASE j > i
    <3>1. CASE j - 1 < b + 1
      BY <1>1, <2>2, <2>4, <3>1
    <3>2. CASE ~(j - 1 < b + 1)
      BY <1>1, <2>2, <2>4, <3>2
    <3> QED BY <3>1, <3>2
  <2> QED
    BY <1>1, <1>4, <2>1, <2>3, <2>4
<1>5. ASSUME NEW k \in 1 .. Len(ports), k /= b + 1
      PROVE  From(k) \in 1 .. Len(ports) /\ new[k] = ports[From(k)]
  <2>1. From(k) \in 1 .. Len(ports)
    BY <1>1, <1>5
  <2> QED
    BY <1>1, <1>3, <1>5, <2>1
<1>6. ASSUME NEW j \in 1 .. Len(ports), NEW l \in 1 .. Len(ports), j /= i, l /= i, j < l
      PROVE  To(j) < To(l)
  BY <1>1, <1>6
<1>7. ASSUME NEW j \in 1 .. Len(ports), NEW l \in 1 .. Len(ports), j /= b + 1, l /= b + 1, j < l
      PROVE  From(j) < From(l)
  BY <1>1, <1>7
<1> HIDE DEF To, From
<1>8. ASSUME Precedes(ports, p, q) PROVE Precedes(new, p, q)
  <2>1. PICK j \in 1 .. Len(ports), l \in 1 .. Len(ports) : j < l /\ ports[j] = p /\ ports[l] = q
    BY <1>2, <1>8 DEF Precedes
  <2>2. j /= i /\ l /= i
    BY <2>1
  <2> QED
    BY <1>2, <1>4, <1>6, <2>1, <2>2 DEF Precedes
<1>9. ASSUME Precedes(new, p, q) PROVE Precedes(ports, p, q)
  <2>1. PICK j \in 1 .. Len(ports), l \in 1 .. Len(ports) : j < l /\ new[j] = p /\ new[l] = q
    BY <1>2, <1>9 DEF Precedes
  <2>2. new[b + 1] = ports[i]
    BY <1>1, <1>3
  <2>3. j /= b + 1 /\ l /= b + 1
    BY <2>1, <2>2
  <2> QED
    BY <1>2, <1>5, <1>7, <2>1, <2>3 DEF Precedes
<1> QED
  BY <1>8, <1>9 DEF new

LEMMA InitInv == Init => Inv
<1> SUFFICES ASSUME Init PROVE Inv
  OBVIOUS
<1>1. PICK S \in SUBSET Ports : given \in SetToSeqs(S)
  BY DEF Init
<1>2. Cardinality(S) \in Nat
  <2>1. IsFiniteSet(S)
    BY FS_Subset
  <2> QED
    BY <2>1, FS_CardinalityType
<1>3. given \in Seq(Ports)
  BY <1>1, <1>2 DEF SetToSeqs
<1>4. ports = given /\ changed = TRUE
  BY DEF Init
<1>5. OthersKeepOrder
  BY <1>4 DEF OthersKeepOrder
<1> QED
  BY <1>3, <1>4, <1>5 DEF Inv

LEMMA SamePorts ==
  ASSUME ports' = ports
  PROVE  Indices' = Indices /\ \A i : Misplaced(i)' = Misplaced(i)
<1>1. Indices' = Indices
  BY DEF Indices
<1>2. \A i : Bases(i)' = Bases(i)
  BY <1>1 DEF Bases
<1>3. \A i : BaseAt(i)' = BaseAt(i)
  BY <1>2 DEF BaseAt
<1> QED
  BY <1>1, <1>2, <1>3, Zenon DEF Misplaced

LEMMA SameOrder ==
  ASSUME OthersKeepOrder, UNCHANGED <<ports, given>>
  PROVE  OthersKeepOrder'
<1>1. \A p : Unpaired(p)' = Unpaired(p)
  BY DEF Unpaired
<1>2. \A p, q : /\ Precedes(ports, p, q)' = Precedes(ports, p, q)
                /\ Precedes(given, p, q)' = Precedes(given, p, q)
  BY DEF Precedes
<1> QED
  BY <1>1, <1>2 DEF OthersKeepOrder

\* A relocated port is paired, so those that are not keep their order.
LEMMA OrderPreserved ==
  ASSUME OthersKeepOrder, ports \in Seq(Ports), NEW i \in Indices, Misplaced(i),
         ports' = Relocate(i), given' = given
  PROVE  OthersKeepOrder'
<1>1. ToSet(ports') = ToSet(ports) /\ Len(ports') = Len(ports)
  BY Relocated
<1>2. PICK j \in Indices : name[ports[j]] = base[name[ports[i]]]
  BY DEF Misplaced, Bases
<1>3. ports[j] \in ToSet(given)
  <2>1. DOMAIN ports = Indices
    BY DEF Indices
  <2>2. ports[j] \in ToSet(ports)
    BY <2>1 DEF ToSet
  <2> QED
    BY <2>2 DEF OthersKeepOrder
<1>4. ~Unpaired(ports[i])
  BY <1>2, <1>3 DEF Unpaired
<1>5. ASSUME NEW p \in ToSet(given), NEW q \in ToSet(given), Unpaired(p), Unpaired(q)
      PROVE  Precedes(ports', p, q) <=> Precedes(given, p, q)
  <2>1. p /= ports[i] /\ q /= ports[i]
    BY <1>4, <1>5
  <2>2. Precedes(Relocate(i), p, q) <=> Precedes(ports, p, q)
    BY <2>1, OrderKept
  <2>3. Precedes(ports, p, q) <=> Precedes(given, p, q)
    BY <1>5 DEF OthersKeepOrder
  <2> QED
    BY <2>2, <2>3
<1>6. \A p : Unpaired(p)' <=> Unpaired(p)
  BY DEF Unpaired
<1>7. \A p, q : /\ Precedes(given, p, q)' <=> Precedes(given, p, q)
                /\ Precedes(ports, p, q)' <=> Precedes(ports', p, q)
  BY DEF Precedes
<1>8. ToSet(ports') = ToSet(given') /\ Len(ports') = Len(given')
  BY <1>1 DEF OthersKeepOrder
<1> QED
  BY <1>5, <1>6, <1>7, <1>8 DEF OthersKeepOrder

LEMMA Preserved == Inv /\ [Next]_vars => Inv'
<1> SUFFICES ASSUME Inv, [Next]_vars PROVE Inv'
  OBVIOUS
<1>0. /\ ports \in Seq(Ports) /\ given \in Seq(Ports) /\ OthersKeepOrder /\ changed \in BOOLEAN
      /\ ~changed => \A i \in Indices : ~Misplaced(i)
  BY DEF Inv
<1>1. ASSUME NEW i \in Indices, Misplaced(i), ports' = Relocate(i), changed, UNCHANGED <<changed, given>>
      PROVE  Inv'
  <2>1. ports' \in Seq(Ports)
    BY <1>0, <1>1, Relocated
  <2>2. changed' \in BOOLEAN /\ (~changed' => \A j \in Indices' : ~Misplaced(j)')
    BY <1>0, <1>1, Zenon
  <2>3. OthersKeepOrder'
    BY <1>0, <1>1, OrderPreserved
  <2> QED
    BY <1>0, <1>1, <2>1, <2>2, <2>3 DEF Inv
<1>2. CASE changed' = FALSE /\ UNCHANGED <<ports, given>> /\ \A i \in Indices : ~Misplaced(i)
  <2>1. \A i \in Indices' : ~Misplaced(i)'
    BY <1>2, SamePorts
  <2>2. changed' \in BOOLEAN
    BY <1>2
  <2>3. OthersKeepOrder'
    BY <1>0, <1>2, SameOrder
  <2> QED
    BY <1>0, <1>2, <2>1, <2>2, <2>3 DEF Inv
<1>3. CASE UNCHANGED vars
  <2>1. changed' \in BOOLEAN /\ (~changed' => \A j \in Indices' : ~Misplaced(j)')
    BY <1>0, <1>3, SamePorts, Zenon DEF vars
  <2>3. OthersKeepOrder'
    BY <1>0, <1>3, SameOrder DEF vars
  <2> QED
    BY <1>0, <1>3, <2>1, <2>3 DEF Inv, vars
<1> QED
  BY <1>1, <1>2, <1>3 DEF Next, Pass

-----------------------------------------------------------------------------
\* When the loop has ended every port that has a base follows it immediately.
THEOREM PairsEndTogether == Spec => []PairsTogether
<1>1. Inv => PairsTogether
  <2> SUFFICES ASSUME Inv, ~changed, NEW i \in Indices,
                      \E p \in ToSet(given) : name[p] = base[name[ports[i]]]
               PROVE  i > 1 /\ name[ports[i - 1]] = base[name[ports[i]]]
    BY DEF PairsTogether
  <2>1. PICK j \in Indices : name[ports[j]] = base[name[ports[i]]]
    <3>1. DOMAIN ports = Indices /\ ToSet(ports) = ToSet(given)
      BY DEF Inv, Indices, OthersKeepOrder
    <3> QED
      BY <3>1 DEF ToSet
  <2>2. Bases(i) /= {}
    BY <2>1 DEF Bases
  <2>3. i = BaseAt(i) + 1
    BY <2>2 DEF Inv, Misplaced
  <2>4. BaseAt(i) \in Bases(i)
    BY <2>2, BaseAtType DEF Inv
  <2>5. BaseAt(i) \in 1 .. Len(ports) /\ name[ports[BaseAt(i)]] = base[name[ports[i]]]
    BY <2>4 DEF Bases, Indices
  <2> QED
    BY <2>3, <2>5 DEF Inv
<1> QED
  BY <1>1, InitInv, Preserved, PTL DEF Spec

\* "All other ports keep their order", after any number of relocations: two ports that
\* are paired with nothing stand as add_port put them, and no port is lost or doubled.
THEOREM OthersStay == Spec => []OthersKeepOrder
<1>1. Inv => OthersKeepOrder
  BY DEF Inv
<1> QED
  BY <1>1, InitInv, Preserved, PTL DEF Spec

\* In particular no port is lost or doubled, whatever is relocated.
THEOREM NoPortIsLost ==
  Spec => [](ToSet(ports) = ToSet(given) /\ Len(ports) = Len(given))
<1>1. OthersKeepOrder => ToSet(ports) = ToSet(given) /\ Len(ports) = Len(given)
  BY DEF OthersKeepOrder
<1> QED
  BY <1>1, OthersStay, PTL

-----------------------------------------------------------------------------
(* Progress, where the names are unique as JACK's are.                     *)

\* No two ports of a column share a name, and a name is not the name of two ports with
\* an "R" appended.
OneNameEach ==
  /\ \A p, q \in Ports : name[p] = name[q] => p = q
  /\ \A m, n \in Names : base[m] = base[n] /\ base[m] \in Names => m = n

Distinct(column) == \A j, k \in DOMAIN column : column[j] = column[k] => j = k

\* A port that has its base in the column follows it.
Placed(column, p) ==
  \A j, k \in DOMAIN column :
    column[k] = p /\ name[column[j]] = base[name[p]] => k = j + 1

\* A relocation puts a port into its place, and takes out of theirs no others than those
\* that belong to that port, which have longer names.
Progress ==
  \E p \in ToSet(ports) :
    /\ ~Placed(ports, p) /\ Placed(ports', p)
    /\ \A q \in ToSet(ports) : Placed(ports, q) => Placed(ports', q) \/ base[name[q]] = name[p]

\* When port i is put at b + 1, From[k] is where the port now at k stood.
ComesFrom(i, b, From) ==
  /\ \A k \in 1 .. Len(ports) : Relocate(i)[k] = ports[From[k]]
  /\ \A j, k \in 1 .. Len(ports) : From[j] = From[k] => j = k
  /\ \A j, k \in 1 .. Len(ports) :
       From[k] = From[j] + 1 /\ j /= b /\ j /= b + 1 /\ k /= b + 1 => k = j + 1

\* Where the ports of the new column stood, and what stands around the one that was moved.
LEMMA Shifted ==
  ASSUME ports \in Seq(Ports), NEW i \in Indices, Misplaced(i)
  PROVE  \E b \in 1 .. Len(ports) - 1 :
           /\ BaseAt(i) \in 1 .. Len(ports) /\ BaseAt(i) /= i
           /\ name[ports[BaseAt(i)]] = base[name[ports[i]]]
           /\ Relocate(i)[b + 1] = ports[i] /\ Relocate(i)[b] = ports[BaseAt(i)]
           /\ \E From \in [1 .. Len(ports) -> 1 .. Len(ports)] : ComesFrom(i, b, From)
<1> DEFINE new == Relocate(i)
           B == BaseAt(i)
<1>1. i \in 1 .. Len(ports) /\ Len(ports) \in Nat
  BY DEF Indices
<1>2. B \in 1 .. Len(ports) /\ name[ports[B]] = base[name[ports[i]]]
  BY BaseAtType DEF Misplaced, Bases, Indices
<1>3. B /= i
  <2>1. name[ports[i]] \in Names
    BY <1>1
  <2> QED
    BY <1>2, <2>1
<1>4. PICK b \in 0 .. Len(ports) - 1 :
        /\ b = IF B > i THEN B - 1 ELSE B
        /\ \A k \in 1 .. Len(ports) :
             new[k] = IF k < b + 1 THEN IF k < i THEN ports[k] ELSE ports[k + 1]
                      ELSE IF k = b + 1 THEN ports[i]
                      ELSE IF k - 1 < i THEN ports[k - 1] ELSE ports[k]
  BY RelocatedAt
<1> HIDE DEF new, B
<1>5. b \in 1 .. Len(ports) - 1
  BY <1>1, <1>2, <1>3, <1>4
<1>6. new[b + 1] = ports[i]
  BY <1>1, <1>4
<1>7. new[b] = ports[B]
  <2>1. b \in 1 .. Len(ports) /\ b < b + 1
    BY <1>5
  <2>2. new[b] = IF b < i THEN ports[b] ELSE ports[b + 1]
    BY <1>4, <2>1
  <2>3. CASE B > i
    BY <1>1, <1>2, <1>4, <2>2, <2>3
  <2>4. CASE B < i
    BY <1>1, <1>2, <1>4, <2>2, <2>4
  <2> QED
    BY <1>1, <1>2, <1>3, <2>3, <2>4
<1> DEFINE F(k) == IF k < b + 1 THEN IF k < i THEN k ELSE k + 1
                   ELSE IF k = b + 1 THEN i
                   ELSE IF k - 1 < i THEN k - 1 ELSE k
           From == [k \in 1 .. Len(ports) |-> F(k)]
<1>8. ASSUME NEW k \in 1 .. Len(ports)
      PROVE  F(k) \in 1 .. Len(ports) /\ new[k] = ports[F(k)]
  <2>1. F(k) \in 1 .. Len(ports)
    BY <1>1, <1>5
  <2> QED
    BY <1>4, <2>1
<1>9. ASSUME NEW j \in 1 .. Len(ports), NEW k \in 1 .. Len(ports), F(j) = F(k)
      PROVE  j = k
  BY <1>1, <1>5, <1>9
<1>10. ASSUME NEW j \in 1 .. Len(ports), NEW k \in 1 .. Len(ports),
              F(k) = F(j) + 1, j /= b, j /= b + 1, k /= b + 1
       PROVE  k = j + 1
  BY <1>1, <1>5, <1>10
<1> HIDE DEF F
<1>11. /\ From \in [1 .. Len(ports) -> 1 .. Len(ports)]
       /\ \A k \in 1 .. Len(ports) : new[k] = ports[From[k]]
       /\ \A j, k \in 1 .. Len(ports) : From[j] = From[k] => j = k
       /\ \A j, k \in 1 .. Len(ports) :
            From[k] = From[j] + 1 /\ j /= b /\ j /= b + 1 /\ k /= b + 1 => k = j + 1
  BY <1>8, <1>9, <1>10
<1> HIDE DEF From
<1>12. ComesFrom(i, b, From)
  BY <1>11 DEF ComesFrom, new
<1> QED
  BY <1>2, <1>3, <1>5, <1>6, <1>7, <1>11, <1>12 DEF new, B

LEMMA DistinctKept ==
  ASSUME ports \in Seq(Ports), Distinct(ports), NEW i \in Indices, Misplaced(i)
  PROVE  Distinct(Relocate(i))
<1>0. PICK b \in 1 .. Len(ports) - 1 :
        \E From \in [1 .. Len(ports) -> 1 .. Len(ports)] : ComesFrom(i, b, From)
  BY Shifted
<1>1. PICK From \in [1 .. Len(ports) -> 1 .. Len(ports)] : ComesFrom(i, b, From)
  BY <1>0
<1>2. DOMAIN Relocate(i) = 1 .. Len(ports) /\ DOMAIN ports = 1 .. Len(ports)
  BY RelocatedAt
<1>3. ASSUME NEW j \in 1 .. Len(ports), NEW k \in 1 .. Len(ports), Relocate(i)[j] = Relocate(i)[k]
      PROVE  j = k
  <2>1. ports[From[j]] = ports[From[k]] /\ From[j] \in 1 .. Len(ports) /\ From[k] \in 1 .. Len(ports)
    BY <1>1, <1>3 DEF ComesFrom
  <2>2. From[j] = From[k]
    BY <1>2, <2>1, Zenon DEF Distinct
  <2> QED
    BY <1>1, <2>2 DEF ComesFrom
<1> QED
  BY <1>2, <1>3 DEF Distinct

LEMMA RelocationProgress ==
  ASSUME OneNameEach, ports \in Seq(Ports), Distinct(ports), NEW i \in Indices, Misplaced(i),
         ports' = Relocate(i)
  PROVE  Progress
<1> DEFINE p == ports[i]
           B == BaseAt(i)
           new == Relocate(i)
<1>1. PICK b \in 1 .. Len(ports) - 1 :
        /\ B \in 1 .. Len(ports) /\ B /= i
        /\ name[ports[B]] = base[name[p]]
        /\ new[b + 1] = p /\ new[b] = ports[B]
        /\ \E From \in [1 .. Len(ports) -> 1 .. Len(ports)] : ComesFrom(i, b, From)
  BY Shifted
<1>2. PICK From \in [1 .. Len(ports) -> 1 .. Len(ports)] :
        /\ \A k \in 1 .. Len(ports) : new[k] = ports[From[k]]
        /\ \A j, k \in 1 .. Len(ports) :
             From[k] = From[j] + 1 /\ j /= b /\ j /= b + 1 /\ k /= b + 1 => k = j + 1
  BY <1>1 DEF ComesFrom
<1>3. DOMAIN new = 1 .. Len(ports) /\ DOMAIN ports = 1 .. Len(ports) /\ i \in 1 .. Len(ports)
  BY RelocatedAt DEF Indices
<1>4. \A j, k \in 1 .. Len(ports) : new[j] = new[k] => j = k
  <2>1. Distinct(new)
    BY DistinctKept
  <2> QED
    BY <1>3, <2>1, Zenon DEF Distinct
<1>5. B + 1 /= i
  BY <1>1 DEF Misplaced
<1>6. p \in Ports /\ ports[B] \in Ports /\ (\A k \in 1 .. Len(ports) : ports[k] \in Ports)
  BY <1>1, <1>3
<1>7. \A k \in 1 .. Len(ports) : new[k] \in Ports
  BY <1>2, <1>6
<1> HIDE DEF B, p, new
<1>8. ~Placed(ports, p)
  <2>1. ports[i] = p
    BY DEF p
  <2> QED
    BY <1>1, <1>3, <1>5, <2>1 DEF Placed
<1>9. Placed(new, p)
  <2> SUFFICES ASSUME NEW j \in 1 .. Len(ports), NEW k \in 1 .. Len(ports),
                      new[k] = p, name[new[j]] = base[name[p]]
               PROVE  k = j + 1
    BY <1>3 DEF Placed
  <2>1. b \in 1 .. Len(ports) /\ b + 1 \in 1 .. Len(ports)
    BY <1>1, <1>3
  <2>2. k = b + 1
    <3>1. new[k] = new[b + 1]
      BY <1>1
    <3> QED
      BY <1>4, <2>1, <3>1
  <2>3. new[j] = new[b]
    <3>1. new[j] \in Ports /\ new[b] \in Ports
      BY <1>7, <2>1
    <3>2. name[new[j]] = name[new[b]]
      BY <1>1
    <3> QED
      BY <3>1, <3>2 DEF OneNameEach
  <2>4. j = b
    BY <1>4, <2>1, <2>3
  <2> QED
    BY <2>2, <2>4
<1>10. ASSUME NEW q \in ToSet(ports), Placed(ports, q), base[name[q]] /= name[p]
       PROVE  Placed(new, q)
  <2> SUFFICES ASSUME NEW j \in 1 .. Len(ports), NEW k \in 1 .. Len(ports),
                      new[k] = q, name[new[j]] = base[name[q]]
               PROVE  k = j + 1
    BY <1>3 DEF Placed
  <2>1. q /= p
    BY <1>8, <1>10
  <2>2. k /= b + 1 /\ j /= b + 1
    BY <1>1, <1>10, <2>1
  <2>3. j /= b
    <3>1. SUFFICES ASSUME j = b PROVE FALSE
      OBVIOUS
    <3>2. q \in Ports
      BY <1>7
    <3>3. base[name[q]] = base[name[p]] /\ name[q] \in Names /\ name[p] \in Names
      BY <1>1, <1>6, <3>1, <3>2
    <3>4. base[name[q]] \in Names
      BY <1>1, <1>6, <3>3
    <3>5. name[q] = name[p]
      BY <3>3, <3>4 DEF OneNameEach
    <3> QED
      BY <1>6, <2>1, <3>2, <3>5 DEF OneNameEach
  <2>4. From[j] \in 1 .. Len(ports) /\ From[k] \in 1 .. Len(ports)
    OBVIOUS
  <2>5. ports[From[k]] = q /\ name[ports[From[j]]] = base[name[q]]
    BY <1>2
  <2>6. From[k] = From[j] + 1
    BY <1>3, <1>10, <2>4, <2>5 DEF Placed
  <2> QED
    BY <1>2, <2>2, <2>3, <2>6
<1>11. p \in ToSet(ports)
  BY <1>3 DEF ToSet, p
<1> QED
  BY <1>8, <1>9, <1>10, <1>11 DEF Progress, new

\* With one port to a name the loop never undoes what it did: every relocation puts a port
\* after its base, and disturbs none but those named after that port.  Names are finite, so
\* this is why "O(n^2) but n is tiny" holds there.
THEOREM RelocationsProgress ==
  ASSUME OneNameEach
  PROVE  Spec => [][ports' /= ports => Progress]_vars
<1> DEFINE DInv == Inv /\ Distinct(ports)
<1>1. Init => DInv
  <2> SUFFICES ASSUME Init PROVE Distinct(ports)
    BY InitInv
  <2>1. PICK S \in SUBSET Ports : ports \in SetToSeqs(S)
    BY DEF Init
  <2> QED
    BY <2>1 DEF SetToSeqs, Distinct
<1>2. DInv /\ [Next]_vars => DInv'
  <2> SUFFICES ASSUME DInv, [Next]_vars PROVE Distinct(ports)'
    BY Preserved
  <2>1. CASE ports' = ports
    BY <2>1 DEF Distinct
  <2>2. ASSUME NEW i \in Indices, Misplaced(i), ports' = Relocate(i) PROVE Distinct(ports)'
    <3>1. Distinct(Relocate(i))
      BY <2>2, DistinctKept DEF Inv
    <3> QED
      BY <2>2, <3>1 DEF Distinct
  <2> QED
    BY <2>1, <2>2 DEF Next, Pass, vars
<1>3. DInv /\ [Next]_vars => [ports' /= ports => Progress]_vars
  <2> SUFFICES ASSUME DInv, Next, ports' /= ports PROVE Progress
    BY DEF vars
  <2>1. PICK i \in Indices : Misplaced(i) /\ ports' = Relocate(i)
    BY DEF Next, Pass
  <2> QED
    BY <2>1, RelocationProgress DEF Inv
<1> QED
  BY <1>1, <1>2, <1>3, PTL DEF Spec
=============================================================================
