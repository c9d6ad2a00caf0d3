---------------------------- MODULE VSchedProofs ----------------------------
(* Proofs about how the hypervisor shares out time, for every value of the    *)
(* constants: the virtual timers on one delta chain (VTimer), the time slices  *)
(* of the scheduler (VSched) and the calls that read and write criticality     *)
(* levels (VCalls).  Each component has an invariant that its steps keep.      *)
(* Where two components share a name, the WITH of one of them says what its    *)
(* own is called here.                                                         *)
EXTENDS Integers, Sequences, WellFoundedInduction, TLAPS

-----------------------------------------------------------------------------
(* Numbers.                                                                   *)

\* A set of naturals that is not empty has a least element.
LEMMA LeastOf ==
    ASSUME NEW S, S \subseteq Nat, S # {}
    PROVE  \E m \in S : \A y \in S : m <= y
  <1> DEFINE Below == {p \in Nat \X Nat : p[1] < p[2]}
  <1>1. \A x, y \in Nat : y < x => <<y, x>> \in Below BY Zenon
  <1>2. IsWellFoundedOn(Below, Nat) BY NatLessThanWellFounded, Zenon DEF OpToRel
  <1> HIDE DEF Below
  <1>3. PICK m \in S : \A y \in S : ~(<<y, m>> \in Below) BY <1>2, WFMin, Zenon
  <1>4. \A y \in S : ~(y < m) BY <1>1, <1>3, Zenon
  <1>5. \A y \in S : y \in Nat BY Zenon
  <1> QED BY <1>4, <1>5

\* A bounded set of naturals that is not empty has a greatest element.
LEMMA GreatestOf ==
    ASSUME NEW n \in Nat, NEW S, S \subseteq 0..n, S # {}
    PROVE  \E m \in S : \A y \in S : m >= y
  <1> DEFINE T == {n - x : x \in S}
  <1>1. \A x \in S : x \in Nat /\ n - x \in Nat OBVIOUS
  <1>2. T \subseteq Nat /\ T # {} BY <1>1, Zenon
  <1>3. PICK t \in T : \A y \in T : t <= y BY <1>2, LeastOf, Zenon
  <1>4. PICK m \in S : t = n - m BY Zenon
  <1>5. \A y \in S : n - m <= n - y BY <1>3, <1>4, Zenon
  <1> QED BY <1>1, <1>5

\* Induction up to a bound: what holds of a number when it holds of all below it.
LEMMA UpTo ==
    ASSUME NEW n \in Nat, NEW S,
           \A i \in 0..n : (\A j \in 0..n : j < i => j \in S) => i \in S
    PROVE  \A i \in 0..n : i \in S
  <1> SUFFICES ASSUME NEW k \in 0..n, k \notin S PROVE FALSE BY Zenon
  <1> DEFINE T == {i \in 0..n : i \notin S}
  <1>1. T \subseteq Nat /\ T # {} OBVIOUS
  <1>2. PICK m \in T : \A y \in T : m <= y BY <1>1, LeastOf, Zenon
  <1>3. \A j \in 0..n : j < m => j \in S BY <1>2
  <1> QED BY <1>2, <1>3, Zenon

-----------------------------------------------------------------------------
(* Sequences.                                                                 *)

\* The elements of a sequence, and a wider set for them.
LEMMA SeqElements ==
    ASSUME NEW S, NEW s \in Seq(S)
    PROVE  /\ Len(s) \in Nat /\ DOMAIN s = 1..Len(s)
           /\ (s = <<>>) <=> (Len(s) = 0)
           /\ \A i \in 1..Len(s) : s[i] \in S
           /\ \A T : (\A i \in 1..Len(s) : s[i] \in T) => s \in Seq(T)
  OBVIOUS

\* What concatenation gives.
LEMMA SeqConcat ==
    ASSUME NEW S, NEW s \in Seq(S), NEW t \in Seq(S)
    PROVE  /\ s \o t \in Seq(S) /\ Len(s \o t) = Len(s) + Len(t)
           /\ \A i \in 1..(Len(s) + Len(t)) :
                (s \o t)[i] = IF i <= Len(s) THEN s[i] ELSE t[i - Len(s)]
  OBVIOUS

\* What a part of a sequence holds.
LEMMA SeqPart ==
    ASSUME NEW S, NEW s \in Seq(S), NEW m \in 1..(Len(s) + 1), NEW n \in (m - 1)..Len(s)
    PROVE  /\ SubSeq(s, m, n) \in Seq(S) /\ Len(SubSeq(s, m, n)) = n - m + 1
           /\ \A i \in 1..(n - m + 1) : SubSeq(s, m, n)[i] = s[m + i - 1]
  OBVIOUS

\* A sequence with one element replaced.
LEMMA SeqExcept ==
    ASSUME NEW S, NEW s \in Seq(S), NEW k \in 1..Len(s), NEW x \in S
    PROVE  /\ [s EXCEPT ![k] = x] \in Seq(S) /\ Len([s EXCEPT ![k] = x]) = Len(s)
           /\ [s EXCEPT ![k] = x][k] = x
           /\ \A i \in 1..Len(s) : i # k => [s EXCEPT ![k] = x][i] = s[i]
  OBVIOUS

\* A sequence is known by its length and its elements.
LEMMA IsSeq ==
    ASSUME NEW S, NEW n \in Nat, NEW s, s \in [1..n -> S]
    PROVE  s \in Seq(S) /\ Len(s) = n
  OBVIOUS

-----------------------------------------------------------------------------
(* The delta chain.                                                           *)

CONSTANTS Timer, MaxTicks
VARIABLES armed, periodic, ticks, chain, value, active, due
Timers == INSTANCE VTimer

\* The sums of a chain's deltas exist and grow by one delta at a time.
LEMMA ExpirySteps ==
    ASSUME NEW s, Len(s) \in Nat, \A i \in 1..Len(s) : s[i].delta \in Int
    PROVE  LET e == Timers!Expiry(s) IN
           /\ e[0] = 0
           /\ \A i \in 0..Len(s) : e[i] \in Int
           /\ \A i \in 1..Len(s) : e[i] = e[i - 1] + s[i].delta
  <1> DEFINE n == Len(s)
             Body(f, m) == [i \in 0..m |-> IF i = 0 THEN 0 ELSE f[i - 1] + s[i].delta]
             Good == {m \in 0..n : \E f : f = Body(f, m)}
  <1> HIDE DEF n
  <1>0. n \in Nat /\ \A i \in 1..n : s[i].delta \in Int BY Zenon DEF n
  <1>1. ASSUME NEW m \in 0..n, \A j \in 0..n : j < m => j \in Good PROVE m \in Good
    <2>1. CASE m = 0
      <3> DEFINE f == [i \in 0..0 |-> 0]
      <3>1. f = Body(f, 0) OBVIOUS
      <3> QED BY <1>0, <2>1, <3>1, Zenon
    <2>2. CASE m # 0
      <3>1. m - 1 \in 0..n /\ m - 1 < m BY <1>0, <2>2
      <3>2. PICK f : f = Body(f, m - 1) BY <1>1, <3>1, Zenon
      <3> DEFINE g == [i \in 0..m |-> IF i = m THEN f[m - 1] + s[m].delta ELSE f[i]]
      <3>3. ASSUME NEW i \in 0..m PROVE g[i] = IF i = 0 THEN 0 ELSE g[i - 1] + s[i].delta
        <4>1. CASE i = m
          <5>1. g[i - 1] = f[m - 1] BY <1>0, <2>2, <4>1
          <5> QED BY <2>2, <4>1, <5>1, Zenon
        <4>2. CASE i # m
          <5>1. i \in 0..(m - 1) /\ g[i] = f[i] BY <1>0, <2>2, <4>2
          <5>2. f[i] = IF i = 0 THEN 0 ELSE f[i - 1] + s[i].delta BY <3>2, <5>1, Zenon
          <5>3. i # 0 => g[i - 1] = f[i - 1] BY <1>0, <2>2, <4>2
          <5> QED BY <5>1, <5>2, <5>3, Zenon
        <4> QED BY <4>1, <4>2, Zenon
      <3>4. g = Body(g, m)
        <4> HIDE DEF g
        <4>1. g = [i \in 0..m |-> g[i]] BY Zenon DEF g
        <4> QED BY <3>3, <4>1, Zenon
      <3> QED BY <3>4, Zenon
    <2> QED BY <2>1, <2>2, Zenon
  <1>2. \A m \in 0..n : m \in Good
    <2> HIDE DEF Good
    <2> QED BY <1>0, <1>1, UpTo, Zenon
  <1>3. n \in Good
    <2>1. n \in 0..n BY <1>0
    <2> QED BY <1>2, <2>1, Zenon
  <1>4. PICK e : e = Body(e, n) BY <1>3, Zenon
  <1> DEFINE f == Timers!Expiry(s)
  <1>5. f = Body(f, n)
    <2>1. f = CHOOSE g : g = Body(g, n) BY Zenon DEF Timers!Expiry, n
    <2> HIDE DEF f
    <2> QED BY <1>4, <2>1, Zenon
  <1> HIDE DEF f
  <1>6. f[0] = 0 BY <1>0, <1>5
  <1>7. ASSUME NEW i \in 1..n PROVE f[i] = f[i - 1] + s[i].delta BY <1>0, <1>5
  <1> DEFINE Num == {i \in 0..n : f[i] \in Int}
  <1>8. ASSUME NEW m \in 0..n, \A j \in 0..n : j < m => j \in Num PROVE m \in Num
    <2>1. CASE m = 0 BY <1>6, <2>1
    <2>2. CASE m # 0
      <3>1. m - 1 \in 0..n /\ m - 1 < m /\ m \in 1..n BY <1>0, <2>2
      <3> QED BY <1>0, <1>7, <1>8, <3>1
    <2> QED BY <2>1, <2>2, Zenon
  <1>9. \A i \in 0..n : f[i] \in Int
    <2>1. \A i \in 0..n : i \in Num
      <3> HIDE DEF Num
      <3> QED BY <1>0, <1>8, UpTo, Zenon
    <2> QED BY <2>1, Zenon
  <1> QED BY <1>6, <1>7, <1>9, Zenon DEF f, n
\* The place delta_chain_insert finds, and the chain it leaves.
LEMMA InsertPlace ==
    ASSUME NEW c \in Seq([node : Timer, delta : Nat]), NEW n \in Timer, NEW t \in Nat
    PROVE  LET e == Timers!Expiry(c)
               s == Timers!Insert(c, n, t)
           IN  \E k \in 0..Len(c) :
                 /\ e[k] \in Int /\ e[k] <= t
                 /\ k < Len(c) => t < e[k + 1]
                 /\ s \in Seq([node : Timer, delta : Int]) /\ Len(s) = Len(c) + 1
                 /\ \A i \in 1..k : s[i] = c[i]
                 /\ s[k + 1] = [node |-> n, delta |-> t - e[k]]
                 /\ k < Len(c) => s[k + 2] = [node |-> c[k + 1].node,
                                              delta |-> c[k + 1].delta - (t - e[k])]
                 /\ \A i \in (k + 3)..(Len(c) + 1) : s[i] = c[i - 1]
  <1> DEFINE e == Timers!Expiry(c)
             L == Len(c)
             At(k) == e[k] <= t /\ (k < L => t < e[k + 1])
             k == CHOOSE i \in 0..L : At(i)
             S == {i \in 0..L : e[i] <= t}
  <1>1. L \in Nat /\ \A i \in 1..L : c[i].node \in Timer /\ c[i].delta \in Nat
    <2>1. L \in Nat /\ \A i \in 1..L : c[i] \in [node : Timer, delta : Nat]
      BY SeqElements, Zenon
    <2> QED BY <2>1, Zenon
  <1>2. e[0] = 0 /\ \A i \in 0..L : e[i] \in Int BY <1>1, ExpirySteps
  <1> HIDE DEF e
  <1>3. \E i \in 0..L : At(i)
    <2>1. S \subseteq 0..L /\ S # {} BY <1>1, <1>2
    <2>2. PICK m \in S : \A y \in S : m >= y BY <1>1, <2>1, GreatestOf, Zenon
    <2>3. m \in 0..L /\ e[m] <= t BY Zenon
    <2>4. ASSUME m < L PROVE t < e[m + 1]
      <3>1. m + 1 \in 0..L BY <1>1, <2>3, <2>4
      <3>2. m + 1 \notin S BY <2>2, <2>3
      <3> QED BY <1>2, <3>1, <3>2
    <2> QED BY <2>3, <2>4, Zenon
  <1>4. k \in 0..L /\ At(k)
    <2> HIDE DEF At
    <2> QED BY <1>3, Zenon
  <1> HIDE DEF k
  <1> DEFINE rest == t - e[k]
             head == Append(SubSeq(c, 1, k), [node |-> n, delta |-> rest])
             tail == [i \in 1..(L - k) |->
                        IF i = 1 THEN [node |-> c[k + 1].node, delta |-> c[k + 1].delta - rest]
                        ELSE c[k + i]]
  <1>5. Timers!Insert(c, n, t) = head \o tail
    BY Zenon DEF Timers!Insert, Timers!Item, k, e
  <1> DEFINE Wide == [node : Timer, delta : Int]
  <1>6. c \in Seq(Wide) /\ \A i \in 1..L : c[i] \in Wide
    <2>1. \A i \in 1..L : c[i] \in Wide
      <3>1. \A x \in [node : Timer, delta : Nat] : x \in Wide OBVIOUS
      <3> QED BY <3>1, SeqElements, Zenon
    <2> HIDE DEF Wide
    <2> QED BY <2>1, SeqElements, Zenon
  <1>7. [node |-> n, delta |-> rest] \in Wide BY <1>2, <1>4
  <1>8. k < L => [node |-> c[k + 1].node, delta |-> c[k + 1].delta - rest] \in Wide
    BY SMTT(60), <1>1, <1>2, <1>4
  <1> HIDE DEF Wide, rest
  <1>9. SubSeq(c, 1, k) \in Seq(Wide) /\ Len(SubSeq(c, 1, k)) = k
        /\ \A i \in 1..k : SubSeq(c, 1, k)[i] = c[i]
    BY <1>1, <1>4, <1>6
  <1>10. head \in Seq(Wide) /\ Len(head) = k + 1 /\ (\A i \in 1..k : head[i] = c[i])
         /\ head[k + 1] = [node |-> n, delta |-> rest]
    BY <1>1, <1>4, <1>7, <1>9
  <1>11. tail \in Seq(Wide) /\ Len(tail) = L - k
    <2>1. L - k \in Nat /\ tail \in [1..(L - k) -> Wide] BY <1>1, <1>4, <1>6, <1>8
    <2> HIDE DEF tail
    <2> QED BY <2>1, IsSeq, Zenon
  <1> HIDE DEF head, tail
  <1> DEFINE s == head \o tail
  <1>12. Len(head) + Len(tail) = L + 1 /\ Len(head) = k + 1 BY <1>1, <1>4, <1>10, <1>11
  <1>13. /\ s \in Seq(Wide) /\ Len(s) = L + 1
         /\ \A i \in 1..(L + 1) : s[i] = IF i <= k + 1 THEN head[i] ELSE tail[i - (k + 1)]
    <2>1. head \in Seq(Wide) /\ tail \in Seq(Wide) BY <1>10, <1>11, Zenon
    <2>2. /\ s \in Seq(Wide) /\ Len(s) = Len(head) + Len(tail)
          /\ \A i \in 1..(Len(head) + Len(tail)) :
               s[i] = IF i <= Len(head) THEN head[i] ELSE tail[i - Len(head)]
      BY <2>1, SeqConcat, Zenon
    <2> HIDE DEF s
    <2> QED BY <1>12, <2>2, Zenon
  <1> HIDE DEF s
  <1>14. k < L => tail[1] = [node |-> c[k + 1].node, delta |-> c[k + 1].delta - rest]
    BY <1>1, <1>4 DEF tail
  <1>15. \A i \in 2..(L - k) : tail[i] = c[k + i] BY <1>1, <1>4 DEF tail
  <1>16. \A i \in 1..k : s[i] = c[i]
    <2> SUFFICES ASSUME NEW i \in 1..k PROVE s[i] = c[i] BY Zenon
    <2>1. i \in 1..(L + 1) /\ i <= k + 1 BY <1>1, <1>4
    <2> QED BY <1>10, <1>13, <2>1, Zenon
  <1>17. s[k + 1] = [node |-> n, delta |-> rest]
    <2>1. k + 1 \in 1..(L + 1) /\ k + 1 <= k + 1 BY <1>1, <1>4
    <2> QED BY <1>10, <1>13, <2>1, Zenon
  <1>18. k < L => s[k + 2] = [node |-> c[k + 1].node, delta |-> c[k + 1].delta - rest]
    <2> SUFFICES ASSUME k < L PROVE s[k + 2] = tail[1] BY <1>14, Zenon
    <2> DEFINE j == k + 2
    <2>1. j \in 1..(L + 1) /\ ~(j <= k + 1) /\ j - (k + 1) = 1 BY <1>1, <1>4
    <2> HIDE DEF j
    <2>2. s[j] = tail[j - (k + 1)] BY <1>13, <2>1, Zenon
    <2> QED BY <2>1, <2>2, Zenon DEF j
  <1>19. ASSUME NEW i \in (k + 3)..(L + 1) PROVE s[i] = c[i - 1]
    <2>1. i \in 1..(L + 1) /\ ~(i <= k + 1) /\ i - (k + 1) \in 2..(L - k) BY SMTT(60), <1>1, <1>4
    <2>2. s[i] = tail[i - (k + 1)] BY <1>13, <2>1, Zenon
    <2>3. k + (i - (k + 1)) = i - 1 BY <1>1, <1>4
    <2> QED BY <1>15, <2>1, <2>2, <2>3, Zenon
  <1>20. s \in Seq([node : Timer, delta : Int]) /\ Len(s) = L + 1 BY <1>13, Zenon DEF Wide
  <1>21. Timers!Insert(c, n, t) = s BY <1>5, Zenon DEF s
  <1> QED BY <1>2, <1>4, <1>16, <1>17, <1>18, <1>19, <1>20, <1>21, Zenon DEF rest, e

\* A chain whose nodes are due one after the other: v ticks for the front and a
\* delta more for each node behind it.
InOrder(c, v, d) ==
    /\ \A i, j \in 1..Len(c) : c[i].node = c[j].node => i = j
    /\ Len(c) > 0 => d[c[1].node] = v
    /\ \A i \in 2..Len(c) : d[c[i].node] = d[c[i - 1].node] + c[i].delta
    /\ \A i, j \in 1..Len(c) : i <= j => d[c[i].node] <= d[c[j].node]

Items == [node : Timer, delta : 0..MaxTicks]

\* The elements of a chain.
LEMMA ChainElements ==
    ASSUME MaxTicks \in Nat, NEW c \in Seq(Items)
    PROVE  /\ Len(c) \in Nat /\ DOMAIN c = 1..Len(c)
           /\ (c = <<>>) <=> (Len(c) = 0)
           /\ \A i \in 1..Len(c) : c[i].node \in Timer /\ c[i].delta \in 0..MaxTicks
           /\ \A i \in 1..Len(c) : c[i].delta \in Nat
           /\ c \in Seq([node : Timer, delta : Nat])
  <1>1. \A x \in Items : /\ x.node \in Timer /\ x.delta \in 0..MaxTicks /\ x.delta \in Nat
                         /\ x \in [node : Timer, delta : Nat]
    BY DEF Items
  <1> QED BY <1>1, SeqElements, Zenon

\* In a chain whose front is up to date the sums are the ticks that are left.
LEMMA ExpiryIsDue ==
    ASSUME MaxTicks \in Nat, NEW c \in Seq(Items), NEW v \in Nat,
           NEW d \in [Timer -> 0..MaxTicks], InOrder(c, v, d),
           Len(c) > 0 => c[1].delta = v
    PROVE  \A i \in 1..Len(c) : Timers!Expiry(c)[i] = d[c[i].node]
  <1> DEFINE e == Timers!Expiry(c)
             L == Len(c)
             Same == {i \in 0..L : i > 0 => e[i] = d[c[i].node]}
  <1>1. L \in Nat /\ \A i \in 1..L : c[i].node \in Timer /\ c[i].delta \in Nat
    BY ChainElements, Zenon
  <1>2. e[0] = 0 /\ \A i \in 1..L : e[i] = e[i - 1] + c[i].delta
    <2>1. \A i \in 1..L : c[i].delta \in Int BY <1>1
    <2> QED BY <1>1, <2>1, ExpirySteps, Zenon
  <1>3. /\ L > 0 => d[c[1].node] = v
        /\ \A i \in 2..L : d[c[i].node] = d[c[i - 1].node] + c[i].delta
    BY Zenon DEF InOrder
  <1> HIDE DEF e, L
  <1>4. ASSUME NEW m \in 0..L, \A j \in 0..L : j < m => j \in Same PROVE m \in Same
    <2>1. CASE m = 0 BY <2>1
    <2>2. CASE m = 1
      <3>1. L > 0 /\ 1 \in 1..L BY <1>1, <2>2
      <3>2. c[1].delta = v BY <3>1, Zenon DEF L
      <3>3. e[1] = e[0] + c[1].delta BY <1>2, <3>1
      <3> QED BY <1>1, <1>2, <1>3, <2>2, <3>1, <3>2, <3>3
    <2>3. CASE m > 1
      <3>1. m \in 2..L /\ m \in 1..L /\ m - 1 \in 0..L /\ m - 1 > 0 /\ m - 1 < m BY <1>1, <2>3
      <3>2. e[m - 1] = d[c[m - 1].node] BY <1>4, <3>1, Zenon
      <3> QED BY <1>2, <1>3, <3>1, <3>2, Zenon
    <2> QED BY <1>1, <2>1, <2>2, <2>3
  <1>5. \A i \in 0..L : i \in Same
    <2> HIDE DEF Same
    <2> QED BY <1>1, <1>4, UpTo, Zenon
  <1> QED BY <1>1, <1>5 DEF e, L

\* A node more, in order: s is c with n, which is due in t ticks.
Inserted(s, c, v, d, n, t) ==
    LET w == IF Len(c) = 0 \/ t < v THEN t ELSE v IN
    /\ s \in Seq(Items) /\ Len(s) = Len(c) + 1
    /\ InOrder(s, w, [d EXCEPT ![n] = t])
    /\ s[1].delta = w
    /\ \A i \in 1..Len(s) : s[i].node = n \/ \E j \in 1..Len(c) : s[i].node = c[j].node
    /\ \E i \in 1..Len(s) : s[i].node = n
    /\ \A j \in 1..Len(c) : \E i \in 1..Len(s) : s[i].node = c[j].node

\* delta_chain_insert keeps a chain in order.
LEMMA InsertInOrder ==
    ASSUME MaxTicks \in Nat, NEW c \in Seq(Items), NEW v \in Nat,
           NEW d \in [Timer -> 0..MaxTicks], InOrder(c, v, d),
           Len(c) > 0 => c[1].delta = v,
           NEW n \in Timer, \A i \in 1..Len(c) : c[i].node # n, NEW t \in 0..MaxTicks
    PROVE  Inserted(Timers!Insert(c, n, t), c, v, d, n, t)
  <1> DEFINE e == Timers!Expiry(c)
             L == Len(c)
             s == Timers!Insert(c, n, t)
             dd == [d EXCEPT ![n] = t]
             w == IF L = 0 \/ t < v THEN t ELSE v
  <1>1. /\ L \in Nat /\ c \in Seq([node : Timer, delta : Nat])
        /\ \A i \in 1..L : c[i].node \in Timer /\ c[i].delta \in 0..MaxTicks
    BY ChainElements, Zenon
  <1>2. e[0] = 0 /\ \A i \in 1..L : e[i] = e[i - 1] + c[i].delta
    <2>1. \A i \in 1..L : c[i].delta \in Int BY <1>1
    <2> QED BY <1>1, <2>1, ExpirySteps, Zenon
  <1>3. \A i \in 1..L : e[i] = d[c[i].node] BY ExpiryIsDue, Zenon
  <1>4. PICK k \in 0..L :
          /\ e[k] \in Int /\ e[k] <= t
          /\ k < L => t < e[k + 1]
          /\ s \in Seq([node : Timer, delta : Int]) /\ Len(s) = L + 1
          /\ \A i \in 1..k : s[i] = c[i]
          /\ s[k + 1] = [node |-> n, delta |-> t - e[k]]
          /\ k < L => s[k + 2] = [node |-> c[k + 1].node,
                                  delta |-> c[k + 1].delta - (t - e[k])]
          /\ \A i \in (k + 3)..(L + 1) : s[i] = c[i - 1]
    <2>1. t \in Nat OBVIOUS
    <2> QED BY <1>1, <2>1, InsertPlace, Zenon
  <1>a. e[k] \in Int /\ e[k] <= t /\ (k < L => t < e[k + 1]) BY <1>4, Zenon
  <1>5. /\ \A i, j \in 1..L : c[i].node = c[j].node => i = j
        /\ \A i, j \in 1..L : i <= j => e[i] <= e[j]
        /\ L > 0 => e[1] = v
    <2>1. L > 0 => 1 \in 1..L BY <1>1
    <2> QED BY <1>3, <2>1, Zenon DEF InOrder
  <1>6. \A i \in 1..L : c[i].node # n /\ e[i] \in 0..MaxTicks BY <1>1, <1>3, Zenon
  <1>7. \A i \in 1..L : dd[c[i].node] = e[i] BY <1>1, <1>3, <1>6, Zenon
  <1>8. dd[n] = t BY Zenon
  <1> HIDE DEF e, L, s, dd
  \* the nodes, the ticks left and the deltas, by position
  <1>9. /\ \A i \in 1..k : s[i].node = c[i].node /\ s[i].delta = c[i].delta
        /\ s[k + 1].node = n /\ s[k + 1].delta = t - e[k]
        /\ k < L => s[k + 2].node = c[k + 1].node /\ s[k + 2].delta = e[k + 1] - t
        /\ \A i \in (k + 3)..(L + 1) : s[i].node = c[i - 1].node /\ s[i].delta = c[i - 1].delta
    <2>1. ASSUME k < L PROVE c[k + 1].delta - (t - e[k]) = e[k + 1] - t
      <3>1. k + 1 \in 1..L /\ (k + 1) - 1 = k BY <1>1, <2>1
      <3>2. e[k + 1] = e[k] + c[k + 1].delta BY <1>2, <3>1, Zenon
      <3>3. c[k + 1].delta \in Int BY <1>1, <3>1
      <3> QED BY <1>a, <3>2, <3>3
    <2>2. s[k + 1].node = n /\ s[k + 1].delta = t - e[k]
      <3>1. s[k + 1] = [node |-> n, delta |-> t - e[k]] BY <1>4, Zenon
      <3> QED BY <3>1
    <2>3. ASSUME k < L PROVE s[k + 2].node = c[k + 1].node /\ s[k + 2].delta = e[k + 1] - t
      <3>1. s[k + 2] = [node |-> c[k + 1].node, delta |-> c[k + 1].delta - (t - e[k])]
        BY <1>4, <2>3, Zenon
      <3> QED BY <2>1, <2>3, <3>1
    <2>4. \A i \in 1..k : s[i] = c[i] BY <1>4, Zenon
    <2>5. \A i \in (k + 3)..(L + 1) : s[i] = c[i - 1] BY <1>4, Zenon
    <2> QED BY <2>2, <2>3, <2>4, <2>5, Zenon
  <1>10. ASSUME NEW i \in (k + 2)..(L + 1) PROVE s[i].node = c[i - 1].node /\ i - 1 \in 1..L
    <2>1. i - 1 \in 1..L BY <1>1
    <2>2. CASE i = k + 2
      <3>1. k < L /\ i - 1 = k + 1 BY <1>1, <2>2
      <3> QED BY <1>9, <2>1, <2>2, <3>1, Zenon
    <2>3. CASE i # k + 2
      <3>1. i \in (k + 3)..(L + 1) BY <1>1, <2>3
      <3> QED BY <1>9, <2>1, <3>1, Zenon
    <2> QED BY <2>2, <2>3, Zenon
  <1> DEFINE q(i) == IF i <= k THEN e[i] ELSE IF i = k + 1 THEN t ELSE e[i - 1]
  <1>11. ASSUME NEW i \in 1..(L + 1) PROVE dd[s[i].node] = q(i)
    <2>1. CASE i <= k
      <3>1. i \in 1..k /\ i \in 1..L BY <1>1, <2>1
      <3>2. dd[s[i].node] = e[i] BY <1>7, <1>9, <3>1, Zenon
      <3> QED BY <2>1, <3>2, Zenon
    <2>2. CASE i = k + 1 BY <1>8, <1>9, <2>2
    <2>3. CASE ~(i <= k) /\ i # k + 1
      <3>1. i \in (k + 2)..(L + 1) BY <1>1, <2>3
      <3>2. dd[s[i].node] = e[i - 1] BY <1>7, <1>10, <3>1, Zenon
      <3> QED BY <2>3, <3>2, Zenon
    <2> QED BY <2>1, <2>2, <2>3, Zenon
  <1> HIDE DEF w
  <1>12. (k = 0 => w = t) /\ (k > 0 => w = v /\ e[1] = v /\ 1 \in 1..k /\ 1 \in 1..L)
    <2>1. CASE k = 0
      <3>1. L > 0 => t < v BY <1>1, <1>a, <1>5, <2>1
      <3> QED BY <1>1, <2>1, <3>1 DEF w
    <2>2. CASE k > 0
      <3>1. L > 0 /\ 1 \in 1..L /\ k \in 1..L /\ 1 <= k BY <1>1, <2>2
      <3>2. e[1] <= e[k] /\ e[1] = v BY <1>5, <3>1, Zenon
      <3>3. ~(t < v) BY <1>a, <3>2
      <3> QED BY <2>2, <3>1, <3>2, <3>3 DEF w
    <2> QED BY <2>1, <2>2, Zenon
  <1>13. s[1].delta = w
    <2>1. CASE k = 0
      <3>1. s[1].delta = t - e[0] BY <1>9, <2>1
      <3> QED BY <1>2, <1>12, <2>1, <3>1
    <2>2. CASE k > 0
      <3>1. s[1].delta = c[1].delta /\ L > 0 BY <1>1, <1>9, <1>12, <2>2
      <3> QED BY <1>12, <2>2, <3>1, Zenon DEF L
    <2> QED BY <2>1, <2>2
  <1>14. \A i \in 1..L : e[i] \in Int BY <1>6
  <1>15. ASSUME NEW i \in 2..(L + 1) PROVE q(i) = q(i - 1) + s[i].delta
    <2>1. CASE i <= k
      <3>1. i \in 1..k /\ i \in 1..L BY <1>1, <2>1
      <3>2. e[i] = e[i - 1] + s[i].delta BY <1>2, <1>9, <3>1, Zenon
      <3> QED BY <2>1, <3>2
    <2>2. CASE i = k + 1
      <3>1. s[i].delta = t - e[k] BY <1>9, <2>2, Zenon
      <3> QED BY <1>a, <2>2, <3>1
    <2>3. CASE i = k + 2
      <3>1. k < L /\ k + 1 \in 1..L BY <1>1, <2>3
      <3>2. s[i].delta = e[k + 1] - t /\ e[k + 1] \in Int BY <1>9, <1>14, <2>3, <3>1, Zenon
      <3> QED BY <1>a, <2>3, <3>2
    <2>4. CASE i > k + 2
      <3>1. i \in (k + 3)..(L + 1) /\ i - 1 \in 1..L BY <1>1, <2>4
      <3>2. s[i].delta = c[i - 1].delta BY <1>9, <3>1, Zenon
      <3>3. e[i - 1] = e[i - 1 - 1] + c[i - 1].delta BY <1>2, <3>1, Zenon
      <3> QED BY <2>4, <3>2, <3>3
    <2> QED BY <1>1, <2>1, <2>2, <2>3, <2>4
  <1>16. ASSUME NEW i \in 1..(L + 1), NEW j \in 1..(L + 1), i <= j PROVE q(i) <= q(j)
    <2>1. i <= k => i \in 1..L /\ k \in 1..L /\ e[i] <= e[k] BY <1>1, <1>5
    <2>2. i > k + 1 => i - 1 \in 1..L BY <1>1
    <2>3. j <= k => j \in 1..L BY <1>1
    <2>4. j > k + 1 => j - 1 \in 1..L /\ k < L /\ k + 1 \in 1..L /\ e[k + 1] <= e[j - 1] BY <1>1, <1>5
    <2>5. e[k] <= t /\ (k < L => t < e[k + 1]) BY <1>a, Zenon
    <2>6. CASE j <= k BY <1>5, <1>16, <2>1, <2>3, <2>6
    <2>7. CASE j = k + 1 BY <1>a, <1>14, <1>16, <2>1, <2>7
    <2>8. CASE j > k + 1
      <3>1. CASE i <= k
        <4>1. e[i] \in Int /\ e[k + 1] \in Int /\ e[j - 1] \in Int BY <1>14, <2>1, <2>4, <2>8, <3>1, Zenon
        <4>2. e[i] <= e[k] /\ k < L /\ e[k + 1] <= e[j - 1] BY <2>1, <2>4, <2>8, <3>1, Zenon
        <4>a. e[k] \in Int /\ e[k] <= t /\ t < e[k + 1] /\ t \in Int BY <1>a, <4>2
        <4>3. e[i] <= e[j - 1]
          <5> HIDE DEF e
          <5>1. PICK x, y, z, last : x = e[i] /\ y = e[k] /\ z = e[k + 1] /\ last = e[j - 1]
            BY Zenon
          <5>2. x \in Int /\ y \in Int /\ z \in Int /\ last \in Int /\ t \in Int
            BY <4>1, <4>a, <5>1, Zenon
          <5>3. x <= y /\ y <= t /\ t < z /\ z <= last BY <4>2, <4>a, <5>1, Zenon
          <5>4. x <= last BY <5>2, <5>3
          <5> QED BY <5>1, <5>4, Zenon
        <4> QED BY <2>8, <3>1, <4>3
      <3>2. CASE i = k + 1 BY <1>a, <1>14, <2>4, <2>8, <3>2
      <3>3. CASE i > k + 1
        <4>1. e[i - 1] <= e[j - 1] BY <1>5, <1>16, <2>2, <2>4, <2>8, <3>3
        <4> QED BY <2>8, <3>3, <4>1
      <3> QED BY <3>1, <3>2, <3>3
    <2> QED BY <2>6, <2>7, <2>8
  <1>17. ASSUME NEW i \in 1..(L + 1)
         PROVE  \/ i <= k /\ i \in 1..L /\ s[i].node = c[i].node
                \/ i = k + 1 /\ s[i].node = n
                \/ i > k + 1 /\ i - 1 \in 1..L /\ s[i].node = c[i - 1].node
    <2>1. CASE i <= k
      <3>1. i \in 1..k /\ i \in 1..L BY <1>1, <2>1
      <3> QED BY <1>9, <2>1, <3>1, Zenon
    <2>2. CASE i = k + 1 BY <1>9, <2>2, Zenon
    <2>3. CASE i > k + 1
      <3>1. i \in (k + 2)..(L + 1) BY <1>1, <2>3
      <3> QED BY <1>10, <2>3, <3>1, Zenon
    <2> QED BY <2>1, <2>2, <2>3
  <1>18. ASSUME NEW i \in 1..(L + 1), NEW j \in 1..(L + 1), s[i].node = s[j].node PROVE i = j
    <2>1. \A x \in 1..L : c[x].node # n BY <1>6, Zenon
    <2>2. \A x, y \in 1..L : c[x].node = c[y].node => x = y BY <1>5, Zenon
    <2> DEFINE Low(x) == x <= k /\ x \in 1..L /\ s[x].node = c[x].node
               New(x) == x = k + 1 /\ s[x].node = n
               High(x) == x > k + 1 /\ x - 1 \in 1..L /\ s[x].node = c[x - 1].node
    <2>3. (Low(i) \/ New(i) \/ High(i)) /\ (Low(j) \/ New(j) \/ High(j)) BY <1>17, Zenon
    <2>4. ~(Low(i) /\ New(j)) /\ ~(New(i) /\ Low(j)) BY <1>18, <2>1, Zenon
    <2>5. ~(High(i) /\ New(j)) /\ ~(New(i) /\ High(j)) BY <1>18, <2>1, Zenon
    <2>6. Low(i) /\ Low(j) => i = j BY <1>18, <2>2, Zenon
    <2>7. Low(i) /\ High(j) => i = j - 1 BY <1>18, <2>2, Zenon
    <2>8. High(i) /\ Low(j) => i - 1 = j BY <1>18, <2>2, Zenon
    <2>9. High(i) /\ High(j) => i - 1 = j - 1 BY <1>18, <2>2, Zenon
    <2> QED BY <2>3, <2>4, <2>5, <2>6, <2>7, <2>8, <2>9
  <1>19. InOrder(s, w, dd)
    <2>1. Len(s) = L + 1 BY <1>4, Zenon
    <2>2. dd[s[1].node] = w
      <3>1. 1 \in 1..(L + 1) BY <1>1
      <3>2. q(1) = w BY <1>12
      <3> QED BY <1>11, <3>1, <3>2, Zenon
    <2>3. ASSUME NEW i \in 2..(L + 1) PROVE dd[s[i].node] = dd[s[i - 1].node] + s[i].delta
      <3>1. i \in 1..(L + 1) /\ i - 1 \in 1..(L + 1) BY <1>1
      <3> HIDE DEF q
      <3> QED BY <1>11, <1>15, <3>1, Zenon
    <2>4. ASSUME NEW i \in 1..(L + 1), NEW j \in 1..(L + 1), i <= j
          PROVE  dd[s[i].node] <= dd[s[j].node]
      <3> HIDE DEF q
      <3> QED BY <1>11, <1>16, <2>4, Zenon
    <2> QED BY <1>18, <2>1, <2>2, <2>3, <2>4, Zenon DEF InOrder
  <1>20. s \in Seq(Items)
    <2>1. \A i \in 1..(L + 1) : s[i] \in [node : Timer, delta : Int]
      <3>1. s \in Seq([node : Timer, delta : Int]) /\ Len(s) = L + 1 BY <1>4, Zenon
      <3> QED BY <3>1, SeqElements, Zenon
    <2>2. ASSUME NEW i \in 1..(L + 1) PROVE s[i].delta \in 0..MaxTicks
      <3>1. CASE i <= k
        <4>1. i \in 1..k /\ i \in 1..L BY <1>1, <3>1
        <4> QED BY <1>1, <1>9, <4>1, Zenon
      <3>2. CASE i = k + 1
        <4>1. s[i].delta = t - e[k] BY <1>9, <3>2, Zenon
        <4>2. e[k] >= 0
          <5>1. k > 0 => k \in 1..L BY <1>1
          <5> QED BY <1>2, <1>6, <5>1
        <4> QED BY <1>a, <4>1, <4>2
      <3>3. CASE i = k + 2
        <4>1. k < L /\ k + 1 \in 1..L BY <1>1, <3>3
        <4>2. s[i].delta = e[k + 1] - t /\ e[k + 1] \in 0..MaxTicks BY <1>6, <1>9, <3>3, <4>1, Zenon
        <4> QED BY <1>a, <4>1, <4>2
      <3>4. CASE i > k + 2
        <4>1. i \in (k + 3)..(L + 1) /\ i - 1 \in 1..L BY <1>1, <3>4
        <4> QED BY <1>1, <1>9, <4>1, Zenon
      <3> QED BY <1>1, <3>1, <3>2, <3>3, <3>4
    <2>3. \A x \in [node : Timer, delta : Int] : x.delta \in 0..MaxTicks => x \in Items BY Zenon DEF Items
    <2>4. \A i \in 1..(L + 1) : s[i] \in Items BY <2>1, <2>2, <2>3, Zenon
    <2>5. s \in Seq([node : Timer, delta : Int]) /\ Len(s) = L + 1 BY <1>4, Zenon
    <2> QED BY <2>4, <2>5, SeqElements, Zenon
  <1>21. \A i \in 1..(L + 1) : s[i].node = n \/ \E j \in 1..L : s[i].node = c[j].node
    BY <1>17, Zenon
  <1>22. \E i \in 1..(L + 1) : s[i].node = n
    <2>1. k + 1 \in 1..(L + 1) BY <1>1
    <2> QED BY <1>9, <2>1, Zenon
  <1>23. ASSUME NEW j \in 1..L PROVE \E i \in 1..(L + 1) : s[i].node = c[j].node
    <2>1. CASE j <= k
      <3>1. j \in 1..k /\ j \in 1..(L + 1) BY <1>1, <2>1
      <3> QED BY <1>9, <3>1, Zenon
    <2>2. CASE j > k
      <3> DEFINE i == j + 1
      <3>1. i \in (k + 2)..(L + 1) /\ i \in 1..(L + 1) /\ i - 1 = j BY <1>1, <2>2
      <3> HIDE DEF i
      <3> QED BY <1>10, <3>1, Zenon
    <2> QED BY <1>1, <2>1, <2>2
  <1>24. Len(s) = L + 1 BY <1>4, Zenon
  <1> QED BY <1>13, <1>19, <1>20, <1>21, <1>22, <1>23, <1>24, Zenon DEF L, s, w, dd, Inserted

\* What delta_chain_dequeue_no_callback leaves.
LEMMA DequeuePlace ==
    ASSUME MaxTicks \in Nat, NEW c \in Seq(Items), NEW p \in 1..Len(c),
           \A i, j \in 1..Len(c) : c[i].node = c[j].node => i = j
    PROVE  LET s == Timers!DequeueNoCallback(c, c[p].node) IN
           /\ s \in Seq([node : Timer, delta : Int]) /\ Len(s) = Len(c) - 1
           /\ \A i \in 1..(Len(c) - 1) :
                /\ i < p => s[i] = c[i]
                /\ i = p => /\ s[i].node = c[i + 1].node
                            /\ s[i].delta = c[i + 1].delta + c[i].delta
                /\ i > p => s[i] = c[i + 1]
  <1> DEFINE L == Len(c)
             Wide == [node : Timer, delta : Int]
             grown == IF p < L THEN [c EXCEPT ![p + 1].delta = @ + c[p].delta] ELSE c
             a == SubSeq(grown, 1, p - 1)
             b == SubSeq(grown, p + 1, L)
             s == a \o b
  <1>1. /\ L \in Nat /\ DOMAIN c = 1..L
        /\ \A i \in 1..L : c[i].node \in Timer /\ c[i].delta \in 0..MaxTicks
    BY ChainElements, Zenon
  <1>2. Timers!PosOf(c, c[p].node) = p BY <1>1, Zenon DEF Timers!PosOf
  <1>3. c \in Seq(Wide) /\ \A i \in 1..L : c[i] \in Wide
    <2>1. \A x \in Items : x \in Wide BY DEF Items
    <2>2. \A i \in 1..L : c[i] \in Wide BY <2>1, SeqElements, Zenon
    <2> HIDE DEF Wide
    <2> QED BY <2>2, SeqElements, Zenon
  <1>4. /\ grown \in Seq(Wide) /\ Len(grown) = L
        /\ \A i \in 1..L : i # p + 1 => grown[i] = c[i]
        /\ p < L => /\ grown[p + 1].node = c[p + 1].node
                    /\ grown[p + 1].delta = c[p + 1].delta + c[p].delta
    <2>1. CASE p < L
      <3> DEFINE x == [c[p + 1] EXCEPT !.delta = @ + c[p].delta]
                 g == [c EXCEPT ![p + 1] = x]
      <3>1. grown = g BY <2>1, Zenon
      <3>2. p \in 1..L /\ p + 1 \in 1..L BY <1>1, <2>1
      <3>3. c[p + 1] \in Wide /\ c[p].delta \in Int BY <1>1, <1>3, <3>2, Zenon
      <3>4. x \in Wide /\ x.node = c[p + 1].node /\ x.delta = c[p + 1].delta + c[p].delta
        <4>1. \A y \in Wide, k \in Int : LET z == [y EXCEPT !.delta = @ + k] IN
                z \in Wide /\ z.node = y.node /\ z.delta = y.delta + k
          OBVIOUS
        <4> QED BY <3>3, <4>1, Zenon
      <3> HIDE DEF x, Wide
      <3>a. c \in Seq(Wide) /\ x \in Wide /\ p + 1 \in 1..Len(c) BY <1>3, <3>2, <3>4, Zenon
      <3>5. /\ g \in Seq(Wide) /\ Len(g) = L /\ g[p + 1] = x
            /\ \A i \in 1..L : i # p + 1 => g[i] = c[i]
        BY <3>a, SeqExcept
      <3> QED BY <3>1, <3>4, <3>5, Zenon
    <2>2. CASE ~(p < L) BY <1>1, <1>3, <2>2, Zenon
    <2> QED BY <2>1, <2>2, Zenon
  <1> HIDE DEF grown, Wide
  <1>5. /\ a \in Seq(Wide) /\ Len(a) = p - 1 /\ \A i \in 1..(p - 1) : a[i] = grown[i]
    <2> DEFINE M == Len(grown)
    <2>0. grown \in Seq(Wide) /\ M = L BY <1>4, Zenon
    <2>1. 1 \in 1..(M + 1) /\ p - 1 \in (1 - 1)..M /\ (p - 1) - 1 + 1 = p - 1 BY <1>1, <2>0
    <2>2. /\ a \in Seq(Wide) /\ Len(a) = (p - 1) - 1 + 1
          /\ \A i \in 1..((p - 1) - 1 + 1) : a[i] = grown[1 + i - 1]
      BY <2>0, <2>1, SeqPart
    <2>3. \A i \in 1..(p - 1) : 1 + i - 1 = i OBVIOUS
    <2> QED BY <2>1, <2>2, <2>3, Zenon
  <1>6. /\ b \in Seq(Wide) /\ Len(b) = L - p /\ \A i \in 1..(L - p) : b[i] = grown[p + i]
    <2> DEFINE M == Len(grown)
    <2>0. grown \in Seq(Wide) /\ M = L BY <1>4, Zenon
    <2>1. p + 1 \in 1..(M + 1) /\ L \in ((p + 1) - 1)..M /\ L - (p + 1) + 1 = L - p BY <1>1, <2>0
    <2>2. /\ b \in Seq(Wide) /\ Len(b) = L - (p + 1) + 1
          /\ \A i \in 1..(L - (p + 1) + 1) : b[i] = grown[(p + 1) + i - 1]
      BY <2>0, <2>1, SeqPart
    <2>3. \A i \in 1..(L - p) : (p + 1) + i - 1 = p + i BY <1>1
    <2> QED BY <2>1, <2>2, <2>3, Zenon
  <1>7. Timers!DequeueNoCallback(c, c[p].node) = s
    BY <1>2, <1>4, Zenon DEF Timers!DequeueNoCallback, grown
  <1> HIDE DEF a, b
  <1>8. /\ s \in Seq(Wide) /\ Len(s) = L - 1
        /\ \A i \in 1..(L - 1) : s[i] = IF i <= p - 1 THEN a[i] ELSE b[i - (p - 1)]
    <2>1. Len(a) + Len(b) = L - 1 /\ Len(a) = p - 1 BY <1>1, <1>5, <1>6
    <2>a. a \in Seq(Wide) /\ b \in Seq(Wide) BY <1>5, <1>6, Zenon
    <2>2. /\ s \in Seq(Wide) /\ Len(s) = Len(a) + Len(b)
          /\ \A i \in 1..(Len(a) + Len(b)) : s[i] = IF i <= Len(a) THEN a[i] ELSE b[i - Len(a)]
      BY <2>a, SeqConcat, ZenonT(60)
    <2> HIDE DEF s
    <2> QED BY <2>1, <2>2, Zenon
  <1> HIDE DEF s
  <1>9. ASSUME NEW i \in 1..(L - 1) PROVE s[i] = IF i < p THEN c[i] ELSE grown[i + 1]
    <2>1. CASE i < p
      <3>1. i <= p - 1 /\ i \in 1..(p - 1) /\ i \in 1..L /\ i # p + 1 BY <1>1, <2>1
      <3> QED BY <1>4, <1>5, <1>8, <2>1, <3>1, Zenon
    <2>2. CASE ~(i < p)
      <3>1. ~(i <= p - 1) /\ i - (p - 1) \in 1..(L - p) /\ p + (i - (p - 1)) = i + 1 BY <1>1, <2>2
      <3> QED BY <1>6, <1>8, <2>2, <3>1, Zenon
    <2> QED BY <2>1, <2>2, Zenon
  <1>10. ASSUME NEW i \in 1..(L - 1)
         PROVE  /\ i < p => s[i] = c[i]
                /\ i = p => /\ s[i].node = c[i + 1].node
                            /\ s[i].delta = c[i + 1].delta + c[i].delta
                /\ i > p => s[i] = c[i + 1]
    <2>1. i = p => p < L /\ ~(i < p) BY <1>1
    <2>2. i > p => i + 1 \in 1..L /\ i + 1 # p + 1 /\ ~(i < p) BY <1>1
    <2> QED BY <1>4, <1>9, <2>1, <2>2, Zenon
  <1> QED BY <1>7, <1>8, <1>10, Zenon DEF Wide

\* A node less, in order: s is c without the node at p.
Dequeued(s, c, v, d, p) ==
    LET n == c[p].node
        w == IF p = 1 /\ Len(c) > 1 THEN v + c[2].delta ELSE v
    IN
    /\ s \in Seq(Items) /\ Len(s) = Len(c) - 1
    /\ InOrder(s, w, [d EXCEPT ![n] = 0])
    /\ w \in 0..MaxTicks \/ w = v
    /\ \A i \in 1..Len(s) : s[i].node # n /\ \E j \in 1..Len(c) : s[i].node = c[j].node
    /\ \A j \in 1..Len(c) : c[j].node # n => \E i \in 1..Len(s) : s[i].node = c[j].node

\* delta_chain_dequeue_no_callback keeps a chain in order.
LEMMA DequeueInOrder ==
    ASSUME MaxTicks \in Nat, NEW c \in Seq(Items), NEW v \in Nat,
           NEW d \in [Timer -> 0..MaxTicks], InOrder(c, v, d), NEW p \in 1..Len(c),
           p = 1 /\ Len(c) > 1 => c[1].delta = v
    PROVE  Dequeued(Timers!DequeueNoCallback(c, c[p].node), c, v, d, p)
  <1> DEFINE L == Len(c)
             n == c[p].node
             s == Timers!DequeueNoCallback(c, n)
             w == IF p = 1 /\ L > 1 THEN v + c[2].delta ELSE v
             dd == [d EXCEPT ![n] = 0]
             D(i) == d[c[i].node]
             r(i) == IF i < p THEN i ELSE i + 1
  <1>0. p \in 1..L BY Zenon
  <1>1. L \in Nat /\ \A i \in 1..L : c[i].node \in Timer /\ c[i].delta \in 0..MaxTicks
    BY ChainElements, Zenon
  <1>2. /\ \A i, j \in 1..L : c[i].node = c[j].node => i = j
        /\ L > 0 => D(1) = v
        /\ \A i \in 2..L : D(i) = D(i - 1) + c[i].delta
        /\ \A i, j \in 1..L : i <= j => D(i) <= D(j)
    BY Zenon DEF InOrder
  <1>3. /\ s \in Seq([node : Timer, delta : Int]) /\ Len(s) = L - 1
        /\ \A i \in 1..(L - 1) :
             /\ i < p => s[i] = c[i]
             /\ i = p => s[i].node = c[i + 1].node /\ s[i].delta = c[i + 1].delta + c[i].delta
             /\ i > p => s[i] = c[i + 1]
    BY <1>2, DequeuePlace, Zenon
  <1>4. \A i \in 1..L : D(i) \in 0..MaxTicks BY <1>1, Zenon
  <1>5. \A i \in 1..L : i # p => c[i].node # n /\ dd[c[i].node] = D(i) BY <1>1, <1>2, Zenon
  <1> HIDE DEF L, n, s, dd, D
  <1>6. ASSUME NEW i \in 1..(L - 1)
        PROVE  /\ r(i) \in 1..L /\ r(i) # p /\ s[i].node = c[r(i)].node
               /\ i # p => s[i].delta = c[r(i)].delta
               /\ i = p => s[i].delta = c[p + 1].delta + c[p].delta
    <2>1. r(i) \in 1..L /\ r(i) # p BY <1>1
    <2>2. CASE i < p BY <1>3, <2>1, <2>2, Zenon
    <2>3. CASE i = p
      <3>1. s[i].node = c[i + 1].node /\ s[i].delta = c[i + 1].delta + c[i].delta
        BY <1>3, <2>3, Zenon
      <3> QED BY <2>1, <2>3, <3>1, Zenon
    <2>4. CASE i > p
      <3>1. s[i] = c[i + 1] BY <1>3, <2>4, Zenon
      <3> QED BY <2>1, <2>4, <3>1
    <2> QED BY <2>2, <2>3, <2>4
  <1>7. \A i \in 1..(L - 1) : dd[s[i].node] = D(r(i)) /\ s[i].node # n
    <2> HIDE DEF r
    <2> QED BY <1>5, <1>6, Zenon
  <1>8. ASSUME L > 1 PROVE D(r(1)) = w /\ w \in 0..MaxTicks
    <2>1. 1 \in 1..L /\ 2 \in 1..L /\ 2 \in 2..L /\ L > 0 BY <1>1, <1>8
    <2>2. D(1) = v /\ D(2) = D(2 - 1) + c[2].delta BY <1>2, <2>1, Zenon
    <2>3. D(2) = v + c[2].delta BY <2>2
    <2>4. CASE p = 1 BY <1>4, <1>8, <2>1, <2>3, <2>4
    <2>5. CASE p # 1 BY <1>4, <2>1, <2>2, <2>5
    <2> QED BY <2>4, <2>5, Zenon
  <1> HIDE DEF w
  <1>9. ASSUME NEW i \in 2..(L - 1) PROVE D(r(i)) = D(r(i - 1)) + s[i].delta
    <2>1. i \in 1..(L - 1) /\ i \in 2..L /\ i + 1 \in 2..L /\ i \in 1..L /\ i - 1 \in 1..L /\ i + 1 \in 1..L
      BY <1>1
    <2>2. CASE i < p
      <3>1. s[i].delta = c[i].delta BY <1>6, <2>1, <2>2, Zenon
      <3>2. D(i) = D(i - 1) + c[i].delta BY <1>2, <2>1, Zenon
      <3> QED BY <2>2, <3>1, <3>2
    <2>3. CASE i = p
      <3>1. s[i].delta = c[i + 1].delta + c[i].delta BY <1>6, <2>1, <2>3, Zenon
      <3>2. D(i) = D(i - 1) + c[i].delta BY <1>2, <2>1, Zenon
      <3>3. D(i + 1) = D((i + 1) - 1) + c[i + 1].delta BY <1>2, <2>1, Zenon
      <3>4. (i + 1) - 1 = i BY <2>1
      <3>5. D(i - 1) \in Int /\ c[i].delta \in Int /\ c[i + 1].delta \in Int
        <4>1. D(i - 1) \in 0..MaxTicks /\ c[i].delta \in 0..MaxTicks /\ c[i + 1].delta \in 0..MaxTicks
          BY <1>1, <1>4, <2>1, Zenon
        <4> QED BY <4>1
      <3> QED BY <2>3, <3>1, <3>2, <3>3, <3>4, <3>5
    <2>4. CASE i > p
      <3>1. s[i].delta = c[i + 1].delta BY <1>6, <2>1, <2>4
      <3>2. D(i + 1) = D((i + 1) - 1) + c[i + 1].delta BY <1>2, <2>1
      <3>3. (i + 1) - 1 = i BY <2>1
      <3> QED BY <2>4, <3>1, <3>2, <3>3
    <2> QED BY <2>2, <2>3, <2>4
  <1>10. ASSUME NEW i \in 1..(L - 1), NEW j \in 1..(L - 1), i <= j PROVE D(r(i)) <= D(r(j))
    <2>1. r(i) \in 1..L /\ r(j) \in 1..L BY <1>6, Zenon
    <2>2. r(i) <= r(j) BY <1>0, <1>1, <1>10
    <2> HIDE DEF r
    <2> QED BY <1>2, <2>1, <2>2, Zenon
  <1>11. ASSUME NEW i \in 1..(L - 1), NEW j \in 1..(L - 1), s[i].node = s[j].node PROVE i = j
    <2>1. r(i) = r(j)
      <3> HIDE DEF r
      <3>1. r(i) \in 1..L /\ s[i].node = c[r(i)].node BY <1>6, Zenon
      <3>2. r(j) \in 1..L /\ s[j].node = c[r(j)].node BY <1>6, Zenon
      <3> QED BY <1>2, <1>11, <3>1, <3>2, Zenon
    <2> QED BY <1>1, <2>1
  <1>12. InOrder(s, w, dd)
    <2>1. Len(s) = L - 1 BY <1>3, Zenon
    <2>2. L - 1 > 0 => dd[s[1].node] = w
      <3> SUFFICES ASSUME L - 1 > 0 PROVE dd[s[1].node] = w BY Zenon
      <3>1. L > 1 /\ 1 \in 1..(L - 1) BY <1>1
      <3> HIDE DEF r
      <3> QED BY <1>7, <1>8, <3>1, Zenon
    <2>3. ASSUME NEW i \in 2..(L - 1) PROVE dd[s[i].node] = dd[s[i - 1].node] + s[i].delta
      <3>1. i \in 1..(L - 1) /\ i - 1 \in 1..(L - 1) BY <1>1
      <3> HIDE DEF r
      <3> QED BY <1>7, <1>9, <3>1, Zenon
    <2>4. ASSUME NEW i \in 1..(L - 1), NEW j \in 1..(L - 1), i <= j
          PROVE  dd[s[i].node] <= dd[s[j].node]
      <3> HIDE DEF r
      <3> QED BY <1>7, <1>10, <2>4, Zenon
    <2> QED BY <1>11, <2>1, <2>2, <2>3, <2>4, Zenon DEF InOrder
  <1>13. s \in Seq(Items)
    <2>1. \A i \in 1..(L - 1) : s[i] \in [node : Timer, delta : Int]
      BY <1>3, SeqElements, Zenon
    <2>2. ASSUME NEW i \in 1..(L - 1) PROVE s[i].delta \in 0..MaxTicks
      <3>1. CASE i # p BY <1>1, <1>6, <3>1, Zenon
      <3>2. CASE i = p /\ p > 1
        <4>1. /\ p \in 2..L /\ p + 1 \in 2..L /\ p - 1 \in 1..L /\ p \in 1..L /\ p + 1 \in 1..L
              /\ (p + 1) - 1 = p
          BY <1>1, <3>2
        <4>2. D(p) = D(p - 1) + c[p].delta BY <1>2, <4>1, Zenon
        <4>3. D(p + 1) = D((p + 1) - 1) + c[p + 1].delta BY <1>2, <4>1, Zenon
        <4>4. s[i].delta = c[p + 1].delta + c[p].delta BY <1>6, <3>2, Zenon
        <4>5. D(p - 1) \in 0..MaxTicks /\ D(p + 1) \in 0..MaxTicks BY <1>4, <4>1, Zenon
        <4>6. c[p].delta \in Nat /\ c[p + 1].delta \in Nat BY <1>1, <4>1
        <4>a. D(p + 1) = D(p) + c[p + 1].delta BY <4>1, <4>3, Zenon
        <4>b. D(p - 1) \in Int /\ D(p + 1) \in Int BY <4>5
        <4>c. c[p].delta \in Int /\ c[p + 1].delta \in Int BY <4>6
        <4>7. s[i].delta = D(p + 1) - D(p - 1)
          <5> HIDE DEF D
          <5>1. PICK x, y, z, a, b :
                    x = D(p - 1) /\ y = D(p) /\ z = D(p + 1) /\ a = c[p].delta /\ b = c[p + 1].delta
            BY Zenon
          <5>2. x \in Int /\ a \in Int /\ b \in Int BY <4>b, <4>c, <5>1, Zenon
          <5>3. y = x + a /\ z = y + b BY <4>2, <4>a, <5>1, Zenon
          <5>4. b + a = z - x BY <5>2, <5>3
          <5> QED BY <4>4, <5>1, <5>4, Zenon
        <4>8. s[i].delta \in Nat BY SMTT(60), <4>4, <4>6
        <4> QED BY <4>5, <4>7, <4>8
      <3>3. CASE i = p /\ ~(p > 1)
        <4>1. p = 1 /\ L > 1 /\ L > 0 /\ 2 \in 2..L /\ 1 \in 1..L /\ 2 \in 1..L BY <1>1, <3>3
        <4>2. D(2) = D(2 - 1) + c[2].delta /\ D(1) = v BY <1>2, <4>1, Zenon
        <4>3. c[1].delta = v BY <4>1, Zenon DEF L
        <4>4. s[i].delta = c[1 + 1].delta + c[1].delta BY <1>6, <3>3, <4>1, Zenon
        <4>5. D(2) \in 0..MaxTicks /\ c[2].delta \in Nat BY <1>1, <1>4, <4>1
        <4> QED BY <4>2, <4>3, <4>4, <4>5
      <3> QED BY <3>1, <3>2, <3>3, Zenon
    <2>3. \A x \in [node : Timer, delta : Int] : x.delta \in 0..MaxTicks => x \in Items BY Zenon DEF Items
    <2>4. \A i \in 1..(L - 1) : s[i] \in Items BY <2>1, <2>2, <2>3, Zenon
    <2> QED BY <1>3, <2>4, SeqElements, Zenon
  <1>14. w \in 0..MaxTicks \/ w = v
    BY <1>8, Zenon DEF w
  <1>15. \A i \in 1..(L - 1) : s[i].node # n /\ \E j \in 1..L : s[i].node = c[j].node
    <2> HIDE DEF r
    <2> QED BY <1>6, <1>7, Zenon
  <1>16. ASSUME NEW j \in 1..L, c[j].node # n PROVE \E i \in 1..(L - 1) : s[i].node = c[j].node
    <2>1. j # p BY <1>16, Zenon DEF n
    <2>2. CASE j < p
      <3>1. j \in 1..(L - 1) /\ r(j) = j BY <1>1, <2>2 DEF L
      <3> HIDE DEF r
      <3> QED BY <1>6, <3>1, Zenon
    <2>3. CASE j > p
      <3> DEFINE i == j - 1
      <3>1. i \in 1..(L - 1) /\ r(i) = j BY <1>1, <2>3
      <3> HIDE DEF i, r
      <3> QED BY <1>6, <3>1, Zenon
    <2> QED BY <2>1, <2>2, <2>3
  <1>17. Len(s) = L - 1 BY <1>3, Zenon
  <1> QED BY <1>12, <1>13, <1>14, <1>15, <1>16, <1>17, Zenon DEF L, n, s, w, dd, Dequeued

-----------------------------------------------------------------------------
(* The virtual timers.                                                        *)

\* TimersOnTime, place by place.
TimersInv ==
    /\ Timers!TypeOK
    /\ InOrder(chain, value, due)
    /\ \A i \in 1..Len(chain) : chain[i].node \in armed
    /\ \A t \in armed : \E i \in 1..Len(chain) : chain[i].node = t
    /\ active <=> Len(chain) > 0

TimersTypes ==
    /\ armed \subseteq Timer /\ periodic \subseteq Timer
    /\ ticks \in [Timer -> 0..MaxTicks] /\ due \in [Timer -> 0..MaxTicks]
    /\ chain \in Seq(Items)
    /\ value \in 0..MaxTicks /\ value \in Nat /\ active \in BOOLEAN

\* The types, with the chain's items named.
LEMMA TimersTyped ==
    ASSUME MaxTicks \in Nat
    PROVE  /\ Timers!TypeOK => TimersTypes
           /\ TimersTypes => Timers!TypeOK
           /\ Timers!TypeOK' => TimersTypes'
           /\ TimersTypes' => Timers!TypeOK'
  <1>1. \A x \in 0..MaxTicks : x \in Nat OBVIOUS
  <1> QED BY <1>1, Zenon DEF Timers!TypeOK, TimersTypes, Items

\* Bringing the front's delta up to date changes nothing else.
LEMMA SyncedInOrder ==
    ASSUME MaxTicks \in Nat, TimersInv, Len(chain) > 0
    PROVE  LET c == Timers!Synced(chain) IN
           /\ c \in Seq(Items) /\ Len(c) = Len(chain)
           /\ InOrder(c, value, due) /\ c[1].delta = value
           /\ \A i \in 1..Len(chain) : c[i].node = chain[i].node
           /\ \A i \in 2..Len(chain) : c[i].delta = chain[i].delta
  <1> DEFINE x == [chain[1] EXCEPT !.delta = value]
             c == [chain EXCEPT ![1] = x]
             L == Len(chain)
  <1>1. chain \in Seq(Items) /\ value \in 0..MaxTicks BY TimersTyped, Zenon DEF TimersInv, TimersTypes
  <1>2. L \in Nat /\ \A i \in 1..L : chain[i] \in Items BY <1>1, SeqElements, Zenon
  <1>3. 1 \in 1..L BY <1>2
  <1>4. x \in Items /\ x.node = chain[1].node /\ x.delta = value
    <2>1. \A y \in Items : LET z == [y EXCEPT !.delta = value] IN
            z \in Items /\ z.node = y.node /\ z.delta = value
      BY <1>1, Zenon DEF Items
    <2> QED BY <1>2, <1>3, <2>1, Zenon
  <1> HIDE DEF x
  <1>5. /\ c \in Seq(Items) /\ Len(c) = L /\ c[1] = x
        /\ \A i \in 1..L : i # 1 => c[i] = chain[i]
    BY <1>1, <1>3, <1>4, SeqExcept
  <1>6. Timers!Synced(chain) = c BY Zenon DEF Timers!Synced, x
  <1> HIDE DEF c
  <1>7. \A i \in 1..L : c[i].node = chain[i].node BY <1>4, <1>5, Zenon
  <1>8. \A i \in 2..L : c[i].delta = chain[i].delta
    <2>1. \A i \in 2..L : i \in 1..L /\ i # 1 BY <1>2
    <2> QED BY <1>5, <2>1, Zenon
  <1>9. InOrder(c, value, due)
    <2>1. InOrder(chain, value, due) BY Zenon DEF TimersInv
    <2>2. \A i \in 2..L : i \in 1..L /\ i - 1 \in 1..L BY <1>2
    <2>3. /\ \A i, j \in 1..L : c[i].node = c[j].node => i = j
          /\ L > 0 => due[c[1].node] = value
      BY <1>3, <1>7, <2>1, Zenon DEF InOrder
    <2>4. \A i \in 2..L : due[c[i].node] = due[c[i - 1].node] + c[i].delta
      BY <1>7, <1>8, <2>1, <2>2, Zenon DEF InOrder
    <2>5. \A i, j \in 1..L : i <= j => due[c[i].node] <= due[c[j].node]
      BY <1>7, <2>1, Zenon DEF InOrder
    <2> QED BY <1>5, <2>3, <2>4, <2>5, Zenon DEF InOrder
  <1> QED BY <1>4, <1>5, <1>6, <1>7, <1>8, <1>9, Zenon

\* No timer is armed at first.
LEMMA TimersInitInv ==
    ASSUME MaxTicks \in Nat, Timers!Init
    PROVE  TimersInv
  <1>1. /\ armed = {} /\ periodic = {} /\ chain = <<>> /\ active = FALSE /\ value = 0
        /\ ticks = [t \in Timer |-> 0] /\ due = [t \in Timer |-> 0]
    BY Zenon DEF Timers!Init
  <1>2. Len(chain) = 0 /\ chain \in Seq(Items) BY <1>1
  <1>3. value \in 0..MaxTicks /\ value \in Nat /\ 0 \in 0..MaxTicks BY <1>1
  <1>4. TimersTypes BY <1>1, <1>2, <1>3, Zenon DEF TimersTypes
  <1>5. \A i : i \notin 1..0 /\ i \notin 2..0 OBVIOUS
  <1>6. ~(0 > 0) OBVIOUS
  <1>7. InOrder(chain, value, due) BY <1>2, <1>5, <1>6, Zenon DEF InOrder
  <1> QED BY <1>1, <1>2, <1>4, <1>5, <1>6, <1>7, TimersTyped, Zenon DEF TimersInv

\* The guest's ticks count for every armed timer.
LEMMA GuestTickStep ==
    ASSUME MaxTicks \in Nat, TimersInv, Timers!GuestTick
    PROVE  TimersInv'
  <1> DEFINE L == Len(chain)
  <1>1. TimersTypes /\ InOrder(chain, value, due) BY TimersTyped, Zenon DEF TimersInv
  <1>2. /\ value' = value - 1 /\ value > 0 /\ active
        /\ due' = [t \in Timer |-> IF t \in armed THEN due[t] - 1 ELSE due[t]]
        /\ armed' = armed /\ periodic' = periodic /\ ticks' = ticks /\ chain' = chain
        /\ active' = active
    BY Zenon DEF Timers!GuestTick
  <1>3. /\ L \in Nat /\ \A i \in 1..L : chain[i].node \in Timer
        /\ L > 0
    BY <1>1, <1>2, ChainElements, Zenon DEF TimersTypes, TimersInv
  <1>4. \A i \in 1..L : chain[i].node \in armed /\ due[chain[i].node] >= value
                        /\ due[chain[i].node] \in 0..MaxTicks
    <2>1. 1 \in 1..L /\ \A i \in 1..L : 1 <= i BY <1>3
    <2>2. \A i \in 1..L : value <= due[chain[i].node] BY <1>1, <1>3, <2>1, ZenonT(60) DEF InOrder
    <2>3. \A i \in 1..L : due[chain[i].node] \in 0..MaxTicks BY <1>1, <1>3, Zenon DEF TimersTypes
    <2>4. value \in Nat BY <1>1, Zenon DEF TimersTypes
    <2>5. \A i \in 1..L : due[chain[i].node] >= value BY <2>2, <2>3, <2>4, Zenon
    <2> QED BY <2>3, <2>5, Zenon DEF TimersInv
  <1>5. \A i \in 1..L : due'[chain[i].node] = due[chain[i].node] - 1
    BY <1>2, <1>3, <1>4, Zenon
  <1>6. value' \in 0..MaxTicks /\ value' \in Nat BY <1>1, <1>2 DEF TimersTypes
  <1>7. due' \in [Timer -> 0..MaxTicks]
    <2>1. ASSUME NEW t \in armed PROVE due[t] - 1 \in 0..MaxTicks
      <3>1. PICK i \in 1..L : chain[i].node = t BY Zenon DEF TimersInv
      <3>2. due[t] >= value /\ due[t] \in 0..MaxTicks BY <1>4, <3>1, Zenon
      <3>3. value \in Nat BY <1>1, Zenon DEF TimersTypes
      <3> QED BY <1>2, <3>2, <3>3
    <2>2. due \in [Timer -> 0..MaxTicks] BY <1>1, Zenon DEF TimersTypes
    <2> QED BY <1>2, <2>1, <2>2, Zenon
  <1>8. InOrder(chain, value', due')
    <2>1. \A i \in 2..L : i \in 1..L /\ i - 1 \in 1..L BY <1>3
    <2>2. value \in Int BY <1>1 DEF TimersTypes
    <2>3. \A i, j \in 1..L : chain[i].node = chain[j].node => i = j BY <1>1, Zenon DEF InOrder
    <2>4. L > 0 => due'[chain[1].node] = value'
      <3>1. 1 \in 1..L /\ due[chain[1].node] = value BY <1>1, <1>3 DEF InOrder
      <3> QED BY <1>2, <1>5, <3>1, Zenon
    <2>5. ASSUME NEW i \in 2..L PROVE due'[chain[i].node] = due'[chain[i - 1].node] + chain[i].delta
      <3>1. due[chain[i].node] = due[chain[i - 1].node] + chain[i].delta
        BY <1>1, Zenon DEF InOrder
      <3>2. due'[chain[i].node] = due[chain[i].node] - 1 BY <1>5, <2>1, Zenon
      <3>3. due'[chain[i - 1].node] = due[chain[i - 1].node] - 1 BY <1>5, <2>1, Zenon
      <3>4. due[chain[i].node] \in 0..MaxTicks /\ due[chain[i - 1].node] \in 0..MaxTicks
        BY <1>4, <2>1, Zenon
      <3>5. chain[i].delta \in Nat BY <1>1, <2>1, ChainElements, Zenon DEF TimersTypes
      <3> QED BY SMTT(60), <3>1, <3>2, <3>3, <3>4, <3>5
    <2>6. ASSUME NEW i \in 1..L, NEW j \in 1..L, i <= j
          PROVE  due'[chain[i].node] <= due'[chain[j].node]
      <3>1. due[chain[i].node] <= due[chain[j].node] BY <1>1, <2>6, Zenon DEF InOrder
      <3>2. due[chain[i].node] \in 0..MaxTicks /\ due[chain[j].node] \in 0..MaxTicks
        BY <1>4, Zenon
      <3>3. due'[chain[i].node] = due[chain[i].node] - 1 /\ due'[chain[j].node] = due[chain[j].node] - 1
        BY <1>5, Zenon
      <3> QED BY <3>1, <3>2, <3>3
    <2> QED BY <2>3, <2>4, <2>5, <2>6, Zenon DEF InOrder
  <1>9. TimersTypes' BY <1>1, <1>2, <1>6, <1>7, Zenon DEF TimersTypes
  <1> QED BY <1>2, <1>8, <1>9, TimersTyped, Zenon DEF TimersInv

\* varm_timern puts the timer in its place.
LEMMA ArmStep ==
    ASSUME MaxTicks \in Nat, TimersInv, NEW t \in Timer, NEW n \in 0..MaxTicks,
           NEW p \in BOOLEAN, Timers!Arm(t, n, p)
    PROVE  TimersInv'
  <1> DEFINE now == IF chain = <<>> THEN chain ELSE Timers!Synced(chain)
             L == Len(chain)
  <1>1. /\ t \notin armed
        /\ value' = (IF chain = <<>> \/ n < value THEN n ELSE value)
        /\ chain' = Timers!Insert(now, t, n) /\ active' = TRUE
        /\ armed' = armed \cup {t}
        /\ periodic' = (IF p THEN periodic \cup {t} ELSE periodic \ {t})
        /\ ticks' = [ticks EXCEPT ![t] = n] /\ due' = [due EXCEPT ![t] = n]
    BY Zenon DEF Timers!Arm
  <1>2. TimersTypes /\ InOrder(chain, value, due) BY TimersTyped, Zenon DEF TimersInv
  <1>3. chain \in Seq(Items) /\ value \in Nat /\ due \in [Timer -> 0..MaxTicks]
    BY <1>2, Zenon DEF TimersTypes
  <1>4. L \in Nat /\ (chain = <<>> <=> L = 0) BY <1>3, ChainElements, Zenon
  <1>5. /\ now \in Seq(Items) /\ Len(now) = L /\ InOrder(now, value, due)
        /\ L > 0 => now[1].delta = value
        /\ \A i \in 1..L : now[i].node = chain[i].node
    <2>1. CASE chain = <<>>
      <3>1. ~(L > 0) BY <1>4, <2>1
      <3> QED BY <1>2, <1>3, <2>1, <3>1, Zenon
    <2>2. CASE chain # <<>>
      <3>1. L > 0 BY <1>4, <2>2
      <3> QED BY <2>2, <3>1, SyncedInOrder, Zenon
    <2> QED BY <2>1, <2>2, Zenon
  <1> HIDE DEF now
  <1>6. \A i \in 1..Len(now) : now[i].node # t BY <1>1, <1>5, Zenon DEF TimersInv
  <1>7. /\ chain' \in Seq(Items) /\ Len(chain') = L + 1
        /\ InOrder(chain', IF L = 0 \/ n < value THEN n ELSE value, due')
        /\ \A i \in 1..Len(chain') : chain'[i].node = t \/ \E j \in 1..L : chain'[i].node = now[j].node
        /\ \E i \in 1..Len(chain') : chain'[i].node = t
        /\ \A j \in 1..L : \E i \in 1..Len(chain') : chain'[i].node = now[j].node
    <2> DEFINE M == Len(now)
               s == Timers!Insert(now, t, n)
               w == IF M = 0 \/ n < value THEN n ELSE value
    <2>1. now \in Seq(Items) /\ InOrder(now, value, due) /\ M = L BY <1>5, Zenon
    <2>2. M > 0 => now[1].delta = value BY <1>5, Zenon
    <2>3. /\ s \in Seq(Items) /\ Len(s) = M + 1 /\ InOrder(s, w, [due EXCEPT ![t] = n])
          /\ \A i \in 1..Len(s) : s[i].node = t \/ \E j \in 1..M : s[i].node = now[j].node
          /\ \E i \in 1..Len(s) : s[i].node = t
          /\ \A j \in 1..M : \E i \in 1..Len(s) : s[i].node = now[j].node
      <3>1. Inserted(s, now, value, due, t, n) BY <1>3, <1>6, <2>1, <2>2, InsertInOrder, Zenon
      <3> HIDE DEF s
      <3> QED BY <3>1, Zenon DEF Inserted
    <2>4. chain' = s /\ due' = [due EXCEPT ![t] = n] BY <1>1, Zenon
    <2> HIDE DEF s, M
    <2> QED BY <2>1, <2>3, <2>4, Zenon
  <1>8. InOrder(chain', value', due') BY <1>1, <1>4, <1>7, Zenon
  <1>9. value' \in 0..MaxTicks /\ value' \in Nat
    <2>1. value \in 0..MaxTicks BY <1>2, Zenon DEF TimersTypes
    <2> QED BY <1>1, <2>1
  <1>10. /\ ticks' \in [Timer -> 0..MaxTicks] /\ due' \in [Timer -> 0..MaxTicks]
         /\ armed' \subseteq Timer /\ periodic' \subseteq Timer
    BY <1>1, <1>2, Zenon DEF TimersTypes
  <1>11. TimersTypes' BY <1>1, <1>7, <1>9, <1>10, Zenon DEF TimersTypes
  <1>12. \A i \in 1..Len(chain') : chain'[i].node \in armed'
    <2>1. \A j \in 1..L : now[j].node \in armed BY <1>5, Zenon DEF TimersInv
    <2> SUFFICES ASSUME NEW i \in 1..Len(chain') PROVE chain'[i].node \in armed' BY Zenon
    <2>2. chain'[i].node = t \/ \E j \in 1..L : chain'[i].node = now[j].node BY <1>7, Zenon
    <2> QED BY <1>1, <2>1, <2>2, Zenon
  <1>13. ASSUME NEW u \in armed' PROVE \E i \in 1..Len(chain') : chain'[i].node = u
    <2>1. CASE u = t BY <1>7, <2>1, Zenon
    <2>2. CASE u # t
      <3>1. u \in armed BY <1>1, <2>2, Zenon
      <3>2. PICK j \in 1..L : chain[j].node = u BY <3>1, Zenon DEF TimersInv
      <3>3. now[j].node = u BY <1>5, <3>2, Zenon
      <3>4. \E i \in 1..Len(chain') : chain'[i].node = now[j].node BY <1>7, Zenon
      <3> QED BY <3>3, <3>4, Zenon
    <2> QED BY <2>1, <2>2, Zenon
  <1>14. active' <=> Len(chain') > 0 BY <1>1, <1>4, <1>7
  <1> QED BY <1>8, <1>11, <1>12, <1>13, <1>14, TimersTyped, Zenon DEF TimersInv

\* vdisarm_timern takes the timer out and keeps the others' times.
LEMMA DisarmStep ==
    ASSUME MaxTicks \in Nat, TimersInv, NEW t \in Timer, Timers!Disarm(t)
    PROVE  TimersInv'
  <1> DEFINE L == Len(chain)
             front == chain[1].node = t
             alone == L = 1
             now == IF front /\ ~alone THEN Timers!Synced(chain) ELSE chain
  <1>1. /\ t \in armed
        /\ value' = (IF front /\ ~alone THEN value + chain[2].delta ELSE value)
        /\ active' = ~(front /\ alone)
        /\ chain' = Timers!DequeueNoCallback(now, t)
        /\ armed' = armed \ {t} /\ due' = [due EXCEPT ![t] = 0]
        /\ periodic' = periodic /\ ticks' = ticks
    BY Zenon DEF Timers!Disarm
  <1>2. TimersTypes /\ InOrder(chain, value, due) BY TimersTyped, Zenon DEF TimersInv
  <1>3. chain \in Seq(Items) /\ value \in Nat /\ due \in [Timer -> 0..MaxTicks]
    BY <1>2, Zenon DEF TimersTypes
  <1>4. PICK p \in 1..L : chain[p].node = t BY <1>1, Zenon DEF TimersInv
  <1>5. L \in Nat /\ L > 0 /\ 1 \in 1..L
    <2>1. L \in Nat BY <1>3, ChainElements, Zenon
    <2> QED BY <2>1
  <1>6. (front <=> p = 1) /\ (~alone <=> L > 1)
    <2>1. front <=> p = 1 BY <1>2, <1>4, <1>5, Zenon DEF InOrder
    <2>2. L # 1 <=> L > 1
      <3> HIDE DEF L
      <3> QED BY <1>5
    <2> QED BY <2>1, <2>2, Zenon
  <1> HIDE DEF front, alone
  <1>7. /\ now \in Seq(Items) /\ Len(now) = L /\ InOrder(now, value, due)
        /\ p = 1 /\ L > 1 => now[1].delta = value
        /\ \A i \in 1..L : now[i].node = chain[i].node
        /\ L > 1 => now[2].delta = chain[2].delta
    <2>1. CASE front /\ ~alone
      <3>1. L > 1 => 2 \in 2..L BY <1>5
      <3> QED BY <1>5, <2>1, <3>1, SyncedInOrder, Zenon
    <2>2. CASE ~(front /\ ~alone) BY <1>2, <1>3, <1>6, <2>2, Zenon
    <2> QED BY <2>1, <2>2, Zenon
  <1> HIDE DEF now
  <1> DEFINE w == IF p = 1 /\ L > 1 THEN value + now[2].delta ELSE value
  <1>8. /\ chain' \in Seq(Items) /\ Len(chain') = L - 1
        /\ InOrder(chain', w, due')
        /\ w \in 0..MaxTicks \/ w = value
        /\ \A i \in 1..Len(chain') : chain'[i].node # t /\ \E j \in 1..L : chain'[i].node = now[j].node
        /\ \A j \in 1..L : now[j].node # t => \E i \in 1..Len(chain') : chain'[i].node = now[j].node
    <2> DEFINE M == Len(now)
               u == now[p].node
               s == Timers!DequeueNoCallback(now, u)
               x == IF p = 1 /\ M > 1 THEN value + now[2].delta ELSE value
    <2>1. u = t /\ p \in 1..M /\ M = L BY <1>4, <1>7, Zenon
    <2>2. p = 1 /\ M > 1 => now[1].delta = value BY <1>7, Zenon
    <2>3. now \in Seq(Items) /\ InOrder(now, value, due) BY <1>7, Zenon
    <2>4. /\ s \in Seq(Items) /\ Len(s) = M - 1 /\ InOrder(s, x, [due EXCEPT ![u] = 0])
          /\ x \in 0..MaxTicks \/ x = value
          /\ \A i \in 1..Len(s) : s[i].node # u /\ \E j \in 1..M : s[i].node = now[j].node
          /\ \A j \in 1..M : now[j].node # u => \E i \in 1..Len(s) : s[i].node = now[j].node
      <3>1. Dequeued(s, now, value, due, p) BY <1>3, <2>1, <2>2, <2>3, DequeueInOrder, Zenon
      <3> HIDE DEF s
      <3> QED BY <3>1, Zenon DEF Dequeued
    <2>5. chain' = s /\ due' = [due EXCEPT ![u] = 0] BY <1>1, <2>1, Zenon
    <2> HIDE DEF s, M, u
    <2> QED BY <2>1, <2>4, <2>5, Zenon
  <1>9. value' = w BY <1>1, <1>6, <1>7, Zenon
  <1> HIDE DEF w
  <1>10. value' \in 0..MaxTicks /\ value' \in Nat
    <2>1. value \in 0..MaxTicks BY <1>2, Zenon DEF TimersTypes
    <2> QED BY <1>8, <1>9, <2>1
  <1>11. due' \in [Timer -> 0..MaxTicks] /\ armed' \subseteq Timer
    <2>1. 0 \in 0..MaxTicks OBVIOUS
    <2> QED BY <1>1, <1>2, <2>1, Zenon DEF TimersTypes
  <1>12. TimersTypes' BY <1>1, <1>2, <1>8, <1>10, <1>11, Zenon DEF TimersTypes
  <1>13. \A i \in 1..Len(chain') : chain'[i].node \in armed'
    <2>1. \A j \in 1..L : now[j].node \in armed BY <1>7, Zenon DEF TimersInv
    <2> SUFFICES ASSUME NEW i \in 1..Len(chain') PROVE chain'[i].node \in armed' BY Zenon
    <2>2. chain'[i].node # t /\ \E j \in 1..L : chain'[i].node = now[j].node BY <1>8, Zenon
    <2> QED BY <1>1, <2>1, <2>2, Zenon
  <1>14. ASSUME NEW u \in armed' PROVE \E i \in 1..Len(chain') : chain'[i].node = u
    <2>1. u \in armed /\ u # t BY <1>1, Zenon
    <2>2. PICK j \in 1..L : chain[j].node = u BY <2>1, Zenon DEF TimersInv
    <2>3. now[j].node = u BY <1>7, <2>2, Zenon
    <2>4. \E i \in 1..Len(chain') : chain'[i].node = now[j].node BY <1>8, <2>1, <2>3, Zenon
    <2> QED BY <2>3, <2>4, Zenon
  <1>15. active' <=> Len(chain') > 0
    <2> HIDE DEF L
    <2>1. (L = 1 => p = 1) /\ (L - 1 > 0 <=> L > 1) BY <1>5
    <2>2. active' <=> L > 1 BY <1>1, <1>6, <2>1, Zenon DEF alone
    <2> QED BY <1>8, <2>1, <2>2, Zenon
  <1> QED BY <1>8, <1>9, <1>12, <1>13, <1>14, <1>15, TimersTyped, Zenon DEF TimersInv

\* vexit_vmx_preempt takes the front off, and puts it back in its place when it
\* is periodic.
LEMMA FireStep ==
    ASSUME MaxTicks \in Nat, TimersInv, Timers!Fire
    PROVE  TimersInv'
  <1> DEFINE L == Len(chain)
             t == Head(chain).node
             again == t \in periodic
             tail == Tail(chain)
             rest == IF again THEN Timers!Insert(tail, t, ticks[t]) ELSE tail
             base == [due EXCEPT ![t] = 0]
  <1>1. /\ active /\ value = 0 /\ chain' = rest
        /\ armed' = (IF again THEN armed ELSE armed \ {t})
        /\ value' = (IF rest = <<>> THEN value ELSE rest[1].delta)
        /\ active' = (rest # <<>>)
        /\ due' = [due EXCEPT ![t] = IF again THEN ticks[t] ELSE 0]
        /\ periodic' = periodic /\ ticks' = ticks
    BY Zenon DEF Timers!Fire
  <1>2. TimersTypes /\ InOrder(chain, value, due) BY TimersTyped, Zenon DEF TimersInv
  <1>3. chain \in Seq(Items) /\ due \in [Timer -> 0..MaxTicks] /\ ticks \in [Timer -> 0..MaxTicks]
    BY <1>2, Zenon DEF TimersTypes
  <1>4. L \in Nat /\ L > 0 /\ chain # <<>>
    <2>1. L \in Nat /\ L > 0 /\ (chain = <<>> <=> L = 0)
      BY <1>1, <1>3, ChainElements, Zenon DEF TimersInv
    <2>2. ~(0 > 0) OBVIOUS
    <2> QED BY <2>1, <2>2, Zenon
  <1>5. /\ tail \in Seq(Items) /\ Len(tail) = L - 1 /\ Head(chain) = chain[1]
        /\ \A i \in 1..(L - 1) : tail[i] = chain[i + 1]
    BY <1>3, <1>4
  <1>6. \A i \in 1..L : chain[i].node \in Timer /\ chain[i].delta \in 0..MaxTicks
    BY <1>3, ChainElements, Zenon
  <1>7. 1 \in 1..L /\ t = chain[1].node /\ t \in Timer /\ t \in armed /\ due[t] = 0
    <2>1. 1 \in 1..L BY <1>4
    <2>2. t = chain[1].node BY <1>5, Zenon
    <2> QED BY <1>1, <1>2, <1>4, <1>6, <2>1, <2>2, Zenon DEF TimersInv, InOrder
  <1>8. base = due BY <1>3, <1>7, Zenon
  <1> HIDE DEF t, tail, L
  <1>9. \A i \in 1..(L - 1) : /\ i + 1 \in 1..L /\ tail[i].node = chain[i + 1].node
                              /\ tail[i].delta = chain[i + 1].delta /\ tail[i].node # t
    <2>1. \A i \in 1..(L - 1) : i + 1 \in 1..L /\ i + 1 # 1 BY <1>4
    <2>2. \A i \in 1..L : chain[i].node = t => i = 1 BY <1>2, <1>7, Zenon DEF InOrder, L
    <2> QED BY <1>5, <2>1, <2>2, Zenon
  <1> DEFINE v == IF L > 1 THEN chain[2].delta ELSE 0
  <1>10. v \in Nat /\ v \in 0..MaxTicks
    <2>1. L > 1 => 2 \in 1..L BY <1>4
    <2> QED BY <1>6, <2>1 DEF L
  <1>11. InOrder(tail, v, due) /\ (Len(tail) > 0 => tail[1].delta = v)
    <2> DEFINE D(i) == due[chain[i].node]
    <2>1. /\ \A i, j \in 1..L : chain[i].node = chain[j].node => i = j
          /\ \A i \in 2..L : D(i) = D(i - 1) + chain[i].delta
          /\ \A i, j \in 1..L : i <= j => D(i) <= D(j)
      BY <1>2, Zenon DEF InOrder, L
    <2>2. \A i, j \in 1..(L - 1) : tail[i].node = tail[j].node => i = j
      <3> SUFFICES ASSUME NEW i \in 1..(L - 1), NEW j \in 1..(L - 1), tail[i].node = tail[j].node
                   PROVE  i = j
        BY Zenon
      <3> DEFINE x == i + 1
                 y == j + 1
      <3>1. x \in 1..L /\ y \in 1..L /\ chain[x].node = chain[y].node BY <1>9, Zenon
      <3> HIDE DEF x, y
      <3>2. x = y BY <2>1, <3>1, Zenon
      <3> QED BY <3>2 DEF x, y
    <2>3. L - 1 > 0 => due[tail[1].node] = v /\ tail[1].delta = v
      <3> SUFFICES ASSUME L - 1 > 0 PROVE due[tail[1].node] = v /\ tail[1].delta = v BY Zenon
      <3>1. L > 1 /\ 1 \in 1..(L - 1) /\ 2 \in 2..L /\ 2 - 1 = 1 /\ 1 + 1 = 2 /\ 2 \in 1..L BY <1>4
      <3>2. tail[1].node = chain[2].node /\ tail[1].delta = chain[2].delta BY <1>9, <3>1, Zenon
      <3>3. D(2) = D(2 - 1) + chain[2].delta BY <2>1, <3>1, Zenon
      <3>4. D(1) = 0 BY <1>7, Zenon
      <3>5. chain[2].delta \in 0..MaxTicks BY <1>6, <3>1, Zenon DEF L
      <3>6. D(2) = chain[2].delta BY <3>3, <3>4, <3>5
      <3> QED BY <3>1, <3>2, <3>6, Zenon
    <2>4. ASSUME NEW i \in 2..(L - 1) PROVE due[tail[i].node] = due[tail[i - 1].node] + tail[i].delta
      <3>1. i \in 1..(L - 1) /\ i - 1 \in 1..(L - 1) /\ i + 1 \in 2..L /\ (i + 1) - 1 = (i - 1) + 1
        BY <1>4
      <3>2. D(i + 1) = D((i + 1) - 1) + chain[i + 1].delta BY <2>1, <3>1, Zenon
      <3>3. tail[i].node = chain[i + 1].node /\ tail[i].delta = chain[i + 1].delta BY <1>9, <3>1, Zenon
      <3>4. tail[i - 1].node = chain[(i - 1) + 1].node BY <1>9, <3>1, Zenon
      <3> QED BY <3>1, <3>2, <3>3, <3>4, Zenon
    <2>5. ASSUME NEW i \in 1..(L - 1), NEW j \in 1..(L - 1), i <= j
          PROVE  due[tail[i].node] <= due[tail[j].node]
      <3>1. i + 1 <= j + 1 BY <2>5
      <3>2. D(i + 1) <= D(j + 1) BY <1>9, <2>1, <3>1, Zenon
      <3> QED BY <1>9, <3>2, Zenon
    <2> QED BY <1>5, <2>2, <2>3, <2>4, <2>5, Zenon DEF InOrder
  <1> HIDE DEF v
  <1>12. \A i \in 1..(L - 1) : tail[i].node \in armed BY <1>9, Zenon DEF TimersInv, L
  <1>13. ASSUME NEW u \in armed, u # t PROVE \E i \in 1..(L - 1) : tail[i].node = u
    <2>1. PICK j \in 1..L : chain[j].node = u BY Zenon DEF TimersInv, L
    <2>2. j # 1 BY <1>7, <1>13, <2>1, Zenon
    <2> DEFINE i == j - 1
    <2>3. i \in 1..(L - 1) /\ i + 1 = j BY <1>4, <2>2
    <2> HIDE DEF i
    <2>4. tail[i].node = chain[i + 1].node BY <1>9, <2>3, Zenon
    <2> QED BY <2>1, <2>3, <2>4, Zenon
  <1>14. CASE again
    <2> DEFINE n == ticks[t]
               w == IF Len(tail) = 0 \/ n < v THEN n ELSE v
    <2>1. n \in 0..MaxTicks BY <1>3, <1>7, Zenon
    <2>2. chain' = Timers!Insert(tail, t, n) /\ due' = [due EXCEPT ![t] = n] /\ armed' = armed
      BY <1>1, <1>14, Zenon
    <2>3. Inserted(chain', tail, v, due, t, n)
      <3>1. \A i \in 1..Len(tail) : tail[i].node # t BY <1>5, <1>9, Zenon
      <3> QED BY <1>3, <1>5, <1>7, <1>10, <1>11, <2>1, <2>2, <3>1, InsertInOrder, Zenon
    <2> HIDE DEF n
    <2>4. /\ chain' \in Seq(Items) /\ Len(chain') = Len(tail) + 1 /\ InOrder(chain', w, due')
          /\ chain'[1].delta = w
          /\ \A i \in 1..Len(chain') : chain'[i].node = t \/ \E j \in 1..Len(tail) : chain'[i].node = tail[j].node
          /\ \E i \in 1..Len(chain') : chain'[i].node = t
          /\ \A j \in 1..Len(tail) : \E i \in 1..Len(chain') : chain'[i].node = tail[j].node
      BY <2>2, <2>3, Zenon DEF Inserted
    <2>5. Len(chain') = L /\ chain' # <<>>
      <3>1. Len(chain') = L BY <1>4, <1>5, <2>4
      <3>2. L # 0 BY <1>4
      <3>3. (chain' = <<>>) <=> (Len(chain') = 0) BY <2>4, SeqElements, Zenon
      <3> QED BY <3>1, <3>2, <3>3, Zenon
    <2>6. value' = w /\ active' BY <1>1, <2>4, <2>5, Zenon
    <2>7. w \in 0..MaxTicks /\ w \in Nat BY <1>10, <2>1
    <2>8. due' \in [Timer -> 0..MaxTicks] BY <1>3, <2>1, <2>2, Zenon
    <2> HIDE DEF w
    <2>9. TimersTypes' BY <1>1, <1>2, <2>2, <2>4, <2>6, <2>7, <2>8, Zenon DEF TimersTypes
    <2>10. ASSUME NEW i \in 1..Len(chain') PROVE chain'[i].node \in armed'
      <3>1. chain'[i].node = t \/ \E j \in 1..(L - 1) : chain'[i].node = tail[j].node
        BY <1>5, <2>4, Zenon
      <3> QED BY <1>7, <1>12, <2>2, <3>1, Zenon
    <2>11. ASSUME NEW u \in armed' PROVE \E i \in 1..Len(chain') : chain'[i].node = u
      <3>1. CASE u = t BY <2>4, <3>1, Zenon
      <3>2. CASE u # t
        <4>1. PICK j \in 1..(L - 1) : tail[j].node = u BY <1>13, <2>2, <3>2, Zenon
        <4>2. \E i \in 1..Len(chain') : chain'[i].node = tail[j].node BY <1>5, <2>4, Zenon
        <4> QED BY <4>1, <4>2, Zenon
      <3> QED BY <3>1, <3>2, Zenon
    <2>12. active' <=> Len(chain') > 0 BY <1>4, <2>5, <2>6, Zenon
    <2> QED BY <2>4, <2>6, <2>9, <2>10, <2>11, <2>12, TimersTyped, Zenon DEF TimersInv
  <1>15. CASE ~again
    <2>1. chain' = tail /\ due' = base /\ armed' = armed \ {t} BY <1>1, <1>15, Zenon
    <2>2. due' = due BY <1>8, <2>1, Zenon
    <2>3. (tail = <<>>) <=> (Len(tail) = 0) BY <1>5, ChainElements, Zenon
    <2>4. Len(tail) = 0 \/ Len(tail) > 0 BY <1>4, <1>5
    <2>5. value' \in 0..MaxTicks /\ value' \in Nat /\ InOrder(tail, value', due)
      <3>1. CASE Len(tail) = 0
        <4>1. value' = 0 /\ 0 \in 0..MaxTicks BY <1>1, <1>15, <2>3, <3>1
        <4>2. InOrder(tail, 0, due)
          <5>1. ~(Len(tail) > 0) /\ \A i : i \notin 1..Len(tail) /\ i \notin 2..Len(tail) BY <3>1
          <5> QED BY <5>1, Zenon DEF InOrder
        <4> QED BY <4>1, <4>2, Zenon
      <3>2. CASE Len(tail) > 0
        <4>1. Len(tail) # 0 BY <3>2
        <4>2. value' = tail[1].delta BY <1>1, <1>15, <2>3, <4>1, Zenon
        <4> QED BY <1>10, <1>11, <3>2, <4>2, Zenon
      <3> QED BY <2>4, <3>1, <3>2, Zenon
    <2>6. TimersTypes'
      <3>1. armed' \subseteq Timer BY <1>2, <2>1, Zenon DEF TimersTypes
      <3>2. active' \in BOOLEAN BY <1>1, Zenon
      <3> QED BY <1>1, <1>2, <1>5, <2>1, <2>2, <2>5, <3>1, <3>2, Zenon DEF TimersTypes
    <2>7. \A i \in 1..Len(chain') : chain'[i].node \in armed' BY <1>5, <1>9, <1>12, <2>1, Zenon
    <2>8. \A u \in armed' : \E i \in 1..Len(chain') : chain'[i].node = u BY <1>5, <1>13, <2>1, Zenon
    <2>9. active' <=> Len(chain') > 0
      <3>1. ~(0 > 0) OBVIOUS
      <3> QED BY <1>1, <1>15, <2>1, <2>3, <2>4, <3>1, Zenon
    <2> QED BY <2>1, <2>2, <2>5, <2>6, <2>7, <2>8, <2>9, TimersTyped, Zenon DEF TimersInv
  <1> QED BY <1>14, <1>15, Zenon

\* No step of the timers leaves the invariant.
LEMMA TimersNextInv ==
    ASSUME MaxTicks \in Nat, TimersInv, [Timers!Next]_(Timers!vars)
    PROVE  TimersInv'
  <1>1. CASE Timers!GuestTick BY <1>1, GuestTickStep, Zenon
  <1>2. CASE Timers!Fire BY <1>2, FireStep, Zenon
  <1>3. CASE \E t \in Timer : Timers!Disarm(t) BY <1>3, DisarmStep, Zenon
  <1>4. CASE \E t \in Timer, n \in 0..MaxTicks, p \in BOOLEAN : Timers!Arm(t, n, p)
    BY <1>4, ArmStep, Zenon
  <1>5. CASE UNCHANGED Timers!vars
    BY <1>5, Zenon DEF TimersInv, Timers!vars, Timers!TypeOK, InOrder
  <1> QED BY <1>1, <1>2, <1>3, <1>4, <1>5, Zenon DEF Timers!Next

\* The places add up to TimersOnTime.
LEMMA TimersInvIsOnTime ==
    ASSUME MaxTicks \in Nat, TimersInv
    PROVE  Timers!TypeOK /\ Timers!TimersOnTime
  <1> DEFINE L == Len(chain)
             e == Timers!Expiry(chain)
             D(i) == due[chain[i].node]
             Right == {i \in 0..L : i > 0 => D(i) = value + e[i] - chain[1].delta}
  <1>1. TimersTypes /\ InOrder(chain, value, due) BY TimersTyped, Zenon DEF TimersInv
  <1>2. chain \in Seq(Items) /\ value \in Nat BY <1>1, Zenon DEF TimersTypes
  <1>3. /\ L \in Nat /\ DOMAIN chain = 1..L
        /\ \A i \in 1..L : chain[i].delta \in Nat
    BY <1>2, ChainElements, Zenon
  <1>4. e[0] = 0 /\ (\A i \in 0..L : e[i] \in Int) /\ \A i \in 1..L : e[i] = e[i - 1] + chain[i].delta
    <2>1. \A i \in 1..L : chain[i].delta \in Int BY <1>3
    <2> QED BY <1>3, <2>1, ExpirySteps, Zenon
  <1>5. (L > 0 => D(1) = value) /\ \A i \in 2..L : D(i) = D(i - 1) + chain[i].delta
    BY <1>1, Zenon DEF InOrder
  <1> HIDE DEF L, e, D
  <1>6. ASSUME NEW m \in 0..L, \A j \in 0..L : j < m => j \in Right PROVE m \in Right
    <2>1. CASE m = 0 BY <2>1
    <2>2. CASE m = 1
      <3>1. L > 0 /\ 1 \in 1..L BY <1>3, <2>2
      <3>2. e[1] = e[1 - 1] + chain[1].delta /\ chain[1].delta \in Nat BY <1>3, <1>4, <3>1, Zenon
      <3>3. D(1) = value BY <1>5, <3>1, Zenon
      <3> QED BY <1>2, <1>4, <2>2, <3>1, <3>2, <3>3
    <2>3. CASE m > 1
      <3>1. /\ m \in 2..L /\ m \in 1..L /\ m - 1 \in 0..L /\ m - 1 > 0 /\ m - 1 < m /\ 1 \in 1..L
        BY <1>3, <2>3
      <3>2. D(m - 1) = value + e[m - 1] - chain[1].delta BY <1>6, <3>1, Zenon
      <3>3. e[m] = e[m - 1] + chain[m].delta /\ D(m) = D(m - 1) + chain[m].delta
        BY <1>4, <1>5, <3>1, Zenon
      <3>4. e[m - 1] \in Int /\ chain[m].delta \in Nat /\ chain[1].delta \in Nat
        BY <1>3, <1>4, <3>1, Zenon
      <3>5. D(m) = value + e[m] - chain[1].delta BY <1>2, <3>2, <3>3, <3>4
      <3> QED BY <3>5, Zenon
    <2> QED BY <1>3, <2>1, <2>2, <2>3
  <1>7. \A i \in 0..L : i \in Right
    <2> HIDE DEF Right
    <2> QED BY <1>3, <1>6, UpTo, Zenon
  <1>8. \A i \in 1..L : D(i) = value + e[i] - chain[1].delta BY <1>3, <1>7
  <1>9. Timers!Nodes(chain) = armed
    <2>1. \A i \in 1..L : chain[i].node \in armed BY Zenon DEF TimersInv, L
    <2>2. \A t \in armed : \E i \in 1..L : chain[i].node = t BY Zenon DEF TimersInv, L
    <2> QED BY <1>3, <2>1, <2>2, Zenon DEF Timers!Nodes
  <1>10. active <=> armed # {}
    <2>1. armed # {} <=> L > 0
      <3>1. armed # {} => L > 0
        <4> SUFFICES ASSUME NEW t \in armed PROVE L > 0 BY Zenon
        <4>1. PICK i \in 1..L : TRUE BY Zenon DEF TimersInv, L
        <4> QED BY <1>3, <4>1
      <3>2. ASSUME L > 0 PROVE armed # {}
        <4>1. 1 \in 1..L BY <1>3, <3>2
        <4> QED BY <4>1, Zenon DEF TimersInv, L
      <3> QED BY <3>1, <3>2, Zenon
    <2> QED BY <2>1, Zenon DEF TimersInv, L
  <1>11. \A i, j \in DOMAIN chain : chain[i].node = chain[j].node => i = j
    BY <1>1, <1>3, Zenon DEF InOrder, L
  <1>12. \A i \in DOMAIN chain : due[chain[i].node] = value + Timers!Expiry(chain)[i] - chain[1].delta
    BY <1>3, <1>8, Zenon DEF D, e
  <1> QED BY <1>9, <1>10, <1>11, <1>12, Zenon DEF TimersInv, Timers!TimersOnTime

\* Whatever the guest arms and disarms, every virtual timer expires after exactly
\* the ticks it was armed for.
THEOREM TimersCorrect ==
    ASSUME MaxTicks \in Nat
    PROVE  Timers!Spec => [](Timers!TypeOK /\ Timers!TimersOnTime)
  <1>1. Timers!Init => TimersInv BY TimersInitInv, Zenon
  <1>2. TimersInv /\ [Timers!Next]_(Timers!vars) => TimersInv' BY TimersNextInv, Zenon
  <1>3. TimersInv => Timers!TypeOK /\ Timers!TimersOnTime BY TimersInvIsOnTime, Zenon
  <1> QED BY <1>1, <1>2, <1>3, PTL DEF Timers!Spec

-----------------------------------------------------------------------------
(* Calls and criticality levels.                                              *)

CONSTANTS CallVcpu, Vid, RootVid, VidOf, Cpu, MaxLevel, Perms, Strict, NULL
VARIABLES count, callState, call, ret, alive, lock, perm, vlevel
Calls == INSTANCE VCalls WITH Vcpu <- CallVcpu, state <- callState, level <- vlevel

\* A vcpu is none of its own absence, and it belongs to a partition.
CallsAssumption == NULL \notin CallVcpu /\ VidOf \in [CallVcpu -> Vid]

\* From the moment a call has its partition to the moment it puts it back, the
\* partition is in the table and its entry is locked by the caller; a permission
\* looked up under the lock is still there when the level is written.
Holder(v) ==
    /\ call[v].id \in Calls!Criticality
    /\ Calls!Target(v) \in alive /\ lock[Calls!Target(v)] = v
Permitted(v) ==
    /\ call[v].id = "vwrite_criticality_level"
    /\ Calls!Allows(perm[VidOf[v]][call[v].cpu], call[v].arg)
\* The functions have their domains, and every call is a record.
CallsShape ==
    /\ count \in [CallVcpu -> Int] /\ alive \subseteq Vid
    /\ call = [v \in CallVcpu |-> call[v]]
    /\ lock = [p \in Vid |-> lock[p]]
    /\ perm = [p \in Vid |-> [c \in Cpu |-> perm[p][c]]]
    /\ vlevel = [c \in Cpu |-> vlevel[c]]
    /\ \A v \in CallVcpu : call[v] = [pc |-> call[v].pc, id |-> call[v].id, vid |-> call[v].vid,
                                  cpu |-> call[v].cpu, arg |-> call[v].arg]
InCall(v) ==
    /\ call[v].pc \in {"guest", "return", "body", "locked", "write"} => count[v] = 0
    /\ call[v].pc \in {"dispatch", "handler", "away"} => count[v] = 1
    /\ call[v].pc \in {"locked", "write"} => Holder(v)
    /\ call[v].pc = "write" => Permitted(v)
CallsInv == CallsShape /\ \A v \in CallVcpu : InCall(v)

\* What a call that moves on leaves of its other fields.
LEMMA CallMoves ==
    ASSUME CallsInv, NEW v \in CallVcpu, NEW pc, Calls!To(v, pc)
    PROVE  /\ call'[v] = [pc |-> pc, id |-> call[v].id, vid |-> call[v].vid,
                          cpu |-> call[v].cpu, arg |-> call[v].arg]
           /\ \A w \in CallVcpu \ {v} : call'[w] = call[w]
           /\ call' = [w \in CallVcpu |-> call'[w]]
           /\ \A w \in CallVcpu :
                call'[w] = [pc |-> call'[w].pc, id |-> call'[w].id, vid |-> call'[w].vid,
                            cpu |-> call'[w].cpu, arg |-> call'[w].arg]
  <1> DEFINE r == [pc |-> pc, id |-> call[v].id, vid |-> call[v].vid,
                   cpu |-> call[v].cpu, arg |-> call[v].arg]
  <1>1. /\ call = [w \in CallVcpu |-> call[w]]
        /\ \A w \in CallVcpu : call[w] = [pc |-> call[w].pc, id |-> call[w].id, vid |-> call[w].vid,
                                  cpu |-> call[w].cpu, arg |-> call[w].arg]
    BY Zenon DEF CallsInv, CallsShape
  <1>2. [call[v] EXCEPT !.pc = pc] = r BY <1>1
  <1>3. call' = [call EXCEPT ![v] = [call[v] EXCEPT !.pc = pc]] BY Zenon DEF Calls!To
  <1>4. call' = [call EXCEPT ![v] = r] BY <1>2, <1>3, Zenon
  <1>5. /\ r.pc = pc /\ r.id = call[v].id /\ r.vid = call[v].vid /\ r.cpu = call[v].cpu
        /\ r.arg = call[v].arg
    BY Zenon
  <1>6. r = [pc |-> r.pc, id |-> r.id, vid |-> r.vid, cpu |-> r.cpu, arg |-> r.arg] BY <1>5, Zenon
  <1>7. call'[v] = r BY <1>1, <1>4, <1>5, Zenon
  <1> HIDE DEF r
  <1>8. \A w \in CallVcpu \ {v} : call'[w] = call[w] BY <1>1, <1>4, Zenon
  <1>9. call' = [w \in CallVcpu |-> call'[w]] BY <1>1, <1>4, Zenon
  <1>10. ASSUME NEW w \in CallVcpu
         PROVE  call'[w] = [pc |-> call'[w].pc, id |-> call'[w].id, vid |-> call'[w].vid,
                            cpu |-> call'[w].cpu, arg |-> call'[w].arg]
    <2>1. CASE w = v BY <1>6, <1>7, <2>1, Zenon
    <2>2. CASE w # v BY <1>1, <1>8, <2>2, Zenon
    <2> QED BY <2>1, <2>2, Zenon
  <1> QED BY <1>7, <1>8, <1>9, <1>10, Zenon DEF r

\* A step of one caller leaves the others what they hold.
LEMMA OthersKeep ==
    ASSUME CallsInv, CallsShape', NEW v \in CallVcpu, InCall(v)',
           \A w \in CallVcpu \ {v} : call'[w] = call[w] /\ count'[w] = count[w],
           \A w \in CallVcpu \ {v} : Holder(w) =>
              /\ Calls!Target(w) \in alive' /\ lock'[Calls!Target(w)] = w
              /\ perm'[Calls!Target(w)] = perm[Calls!Target(w)]
    PROVE  CallsInv'
  <1> SUFFICES ASSUME NEW w \in CallVcpu PROVE InCall(w)' BY Zenon DEF CallsInv
  <1> SUFFICES ASSUME w # v PROVE InCall(w)' BY Zenon
  <1>1. call'[w] = call[w] /\ count'[w] = count[w] BY Zenon
  <1>2. InCall(w) BY Zenon DEF CallsInv
  <1>3. Calls!Target(w)' = Calls!Target(w) BY <1>1, Zenon DEF Calls!Target
  <1>4. /\ call'[w].pc \in {"guest", "return", "body", "locked", "write"} => count'[w] = 0
        /\ call'[w].pc \in {"dispatch", "handler", "away"} => count'[w] = 1
    BY <1>1, <1>2, Zenon DEF InCall
  <1>5. ASSUME call'[w].pc \in {"locked", "write"} PROVE Holder(w)'
    <2>1. Holder(w) BY <1>1, <1>2, <1>5, Zenon DEF InCall
    <2>2. Calls!Target(w) \in alive' /\ lock'[Calls!Target(w)] = w BY <2>1, Zenon
    <2> QED BY <1>1, <1>3, <2>1, <2>2, Zenon DEF Holder
  <1>6. ASSUME call'[w].pc = "write" PROVE Permitted(w)'
    <2>1. Holder(w) /\ Permitted(w) BY <1>1, <1>2, <1>6, Zenon DEF InCall
    <2>2. Calls!Target(w) = VidOf[w] BY <2>1, Zenon DEF Permitted, Calls!Target
    <2>3. perm'[Calls!Target(w)] = perm[Calls!Target(w)] BY <2>1, Zenon
    <2>4. perm'[VidOf[w]] = perm[VidOf[w]] BY <2>2, <2>3, Zenon
    <2> QED BY <1>1, <2>1, <2>4, Zenon DEF Permitted, Calls!Allows
  <1> QED BY <1>4, <1>5, <1>6, Zenon DEF InCall

\* What holds of the other callers when the tables stay as they are.
LEMMA TablesKept ==
    ASSUME CallsInv, NEW v \in CallVcpu, alive' = alive, lock' = lock, perm' = perm
    PROVE  \A w \in CallVcpu \ {v} : Holder(w) =>
              /\ Calls!Target(w) \in alive' /\ lock'[Calls!Target(w)] = w
              /\ perm'[Calls!Target(w)] = perm[Calls!Target(w)]
  BY Zenon DEF Holder

\* ... and when the caller puts back the partition that it holds.
LEMMA OwnPutBack ==
    ASSUME CallsInv, NEW v \in CallVcpu, Holder(v), Calls!Put(v), alive' = alive,
           \A p \in Vid \ {Calls!Target(v)} : perm'[p] = perm[p]
    PROVE  \A w \in CallVcpu \ {v} : Holder(w) =>
              /\ Calls!Target(w) \in alive' /\ lock'[Calls!Target(w)] = w
              /\ perm'[Calls!Target(w)] = perm[Calls!Target(w)]
  <1> SUFFICES ASSUME NEW w \in CallVcpu, w # v, Holder(w)
               PROVE  /\ Calls!Target(w) \in alive' /\ lock'[Calls!Target(w)] = w
                      /\ perm'[Calls!Target(w)] = perm[Calls!Target(w)]
    BY Zenon
  <1>1. Calls!Target(w) \in alive /\ Calls!Target(w) \in Vid /\ lock[Calls!Target(w)] = w
    BY Zenon DEF Holder, CallsInv, CallsShape
  <1>2. Calls!Target(w) # Calls!Target(v) BY <1>1, Zenon DEF Holder
  <1>3. lock'[Calls!Target(w)] = w
    BY <1>1, <1>2, Zenon DEF Calls!Put, CallsInv, CallsShape
  <1> QED BY <1>1, <1>2, <1>3, Zenon

\* The shape after a step.
LEMMA PutBackShape ==
    ASSUME CallsInv, NEW v \in CallVcpu, Calls!Put(v)
    PROVE  lock' = [p \in Vid |-> lock'[p]]
  <1>1. lock = [p \in Vid |-> lock[p]] BY Zenon DEF CallsInv, CallsShape
  <1> QED BY <1>1, Zenon DEF Calls!Put
LEMMA EnableCounts ==
    ASSUME CallsInv, NEW v \in CallVcpu, Calls!Enable(v), count[v] = 1
    PROVE  /\ count' \in [CallVcpu -> Int] /\ count'[v] = 0
           /\ \A w \in CallVcpu \ {v} : count'[w] = count[w]
  <1>1. count \in [CallVcpu -> Int] BY Zenon DEF CallsInv, CallsShape
  <1>2. count' = [count EXCEPT ![v] = 0] BY SMT DEF Calls!Enable
  <1> QED BY <1>1, <1>2
LEMMA MovedShape ==
    ASSUME CallsInv, NEW v \in CallVcpu, NEW pc, Calls!To(v, pc), count' \in [CallVcpu -> Int],
           alive' = alive, lock' = [p \in Vid |-> lock'[p]], perm' = perm, vlevel' = vlevel
    PROVE  CallsShape'
  <1>1. /\ call' = [w \in CallVcpu |-> call'[w]]
        /\ \A w \in CallVcpu :
                call'[w] = [pc |-> call'[w].pc, id |-> call'[w].id, vid |-> call'[w].vid,
                            cpu |-> call'[w].cpu, arg |-> call'[w].arg]
    BY CallMoves, Zenon
  <1> QED BY <1>1, Zenon DEF CallsInv, CallsShape

\* The calls at first: nobody is in one.
LEMMA CallsInitInv ==
    ASSUME CallsAssumption, Calls!Init
    PROVE  CallsInv
  <1>1. /\ count = [v \in CallVcpu |-> 0] /\ alive = Vid
        /\ call = [v \in CallVcpu |-> Calls!Guest] /\ lock = [p \in Vid |-> NULL]
        /\ vlevel = [c \in Cpu |-> 0]
        /\ perm = [p \in Vid |-> [c \in Cpu |-> IF p = RootVid THEN Calls!Full ELSE Calls!None]]
    BY Zenon DEF Calls!Init
  <1>2. /\ Calls!Guest.pc = "guest"
        /\ Calls!Guest = [pc |-> Calls!Guest.pc, id |-> Calls!Guest.id, vid |-> Calls!Guest.vid,
                          cpu |-> Calls!Guest.cpu, arg |-> Calls!Guest.arg]
    BY Zenon DEF Calls!Guest
  <1>3. \A v \in CallVcpu : call[v] = Calls!Guest /\ count[v] = 0 BY <1>1, Zenon
  <1>4. count \in [CallVcpu -> Int] BY <1>1
  <1>5. /\ call = [v \in CallVcpu |-> call[v]] /\ lock = [p \in Vid |-> lock[p]]
        /\ vlevel = [c \in Cpu |-> vlevel[c]]
    BY <1>1, Zenon
  <1>6. perm = [p \in Vid |-> [c \in Cpu |-> perm[p][c]]] BY <1>1, Zenon
  <1>7. CallsShape BY <1>1, <1>2, <1>3, <1>4, <1>5, <1>6, Zenon DEF CallsShape
  <1>8. \A v \in CallVcpu : InCall(v) BY <1>2, <1>3, Zenon DEF InCall
  <1> QED BY <1>7, <1>8, Zenon DEF CallsInv

\* vexit_vmcall: the guest's call, whatever it asks for.
LEMMA CallExitStep ==
    ASSUME CallsInv, NEW v \in CallVcpu, NEW id, NEW to, NEW cpu, NEW arg,
           Calls!Exit(v, id, to, cpu, arg)
    PROVE  CallsInv' /\ vlevel' = vlevel
  <1> DEFINE r == [pc |-> "dispatch", id |-> id, vid |-> to, cpu |-> cpu, arg |-> arg]
  <1>1. /\ call[v].pc = "guest" /\ count' = [count EXCEPT ![v] = count[v] + 1]
        /\ call' = [call EXCEPT ![v] = r]
        /\ alive' = alive /\ lock' = lock /\ perm' = perm /\ vlevel' = vlevel
    BY Zenon DEF Calls!Exit, Calls!At
  <1>2. /\ r.pc = "dispatch"
        /\ r = [pc |-> r.pc, id |-> r.id, vid |-> r.vid, cpu |-> r.cpu, arg |-> r.arg]
    BY Zenon
  <1> HIDE DEF r
  <1>3. /\ call = [w \in CallVcpu |-> call[w]] /\ count \in [CallVcpu -> Int]
        /\ \A w \in CallVcpu : call[w] = [pc |-> call[w].pc, id |-> call[w].id, vid |-> call[w].vid,
                                  cpu |-> call[w].cpu, arg |-> call[w].arg]
    BY Zenon DEF CallsInv, CallsShape
  <1>4. call'[v] = r /\ \A w \in CallVcpu \ {v} : call'[w] = call[w] BY <1>1, <1>3, Zenon
  <1>5. call' = [w \in CallVcpu |-> call'[w]] BY <1>1, <1>3, Zenon
  <1>6. \A w \in CallVcpu :
          call'[w] = [pc |-> call'[w].pc, id |-> call'[w].id, vid |-> call'[w].vid,
                      cpu |-> call'[w].cpu, arg |-> call'[w].arg]
    BY <1>2, <1>3, <1>4, Zenon
  <1>7. count[v] = 0 BY <1>1, Zenon DEF CallsInv, InCall
  <1>8. /\ count' \in [CallVcpu -> Int] /\ count'[v] = 1
        /\ \A w \in CallVcpu \ {v} : count'[w] = count[w]
    BY <1>1, <1>3, <1>7
  <1>t. /\ lock = [p \in Vid |-> lock[p]] /\ perm = [p \in Vid |-> [c \in Cpu |-> perm[p][c]]]
        /\ vlevel = [c \in Cpu |-> vlevel[c]] /\ alive \subseteq Vid
    BY Zenon DEF CallsInv, CallsShape
  <1>s. /\ lock' = [p \in Vid |-> lock'[p]] /\ perm' = [p \in Vid |-> [c \in Cpu |-> perm'[p][c]]]
        /\ vlevel' = [c \in Cpu |-> vlevel'[c]] /\ alive' \subseteq Vid
    BY <1>1, <1>t, Zenon
  <1>9. CallsShape' BY <1>5, <1>6, <1>8, <1>s, Zenon DEF CallsShape
  <1>10. InCall(v)' BY <1>2, <1>4, <1>8, Zenon DEF InCall
  <1>11. CallsInv'
    BY <1>1, <1>4, <1>8, <1>9, <1>10, TablesKept, OthersKeep, Zenon
  <1> QED BY <1>1, <1>11, Zenon

\* A call that ends or moves on, tables untouched, with its preemption count.
LEMMA MoveStep ==
    ASSUME CallsInv, NEW v \in CallVcpu, NEW pc, Calls!To(v, pc), alive' = alive, lock' = lock,
           perm' = perm, vlevel' = vlevel,
           \/ /\ pc \in {"return", "body"}
              /\ \/ Calls!Enable(v) /\ count[v] = 1
                 \/ count' = count /\ count[v] = 0
           \/ pc \in {"handler", "away"} /\ count' = count /\ count[v] = 1
    PROVE  CallsInv'
  <1>1. call'[v].pc = pc /\ \A w \in CallVcpu \ {v} : call'[w] = call[w]
    <2>1. /\ call'[v] = [pc |-> pc, id |-> call[v].id, vid |-> call[v].vid,
                          cpu |-> call[v].cpu, arg |-> call[v].arg]
          /\ \A w \in CallVcpu \ {v} : call'[w] = call[w]
      BY CallMoves, Zenon
    <2> QED BY <2>1
  <1>2. count \in [CallVcpu -> Int] /\ lock' = [p \in Vid |-> lock'[p]] BY Zenon DEF CallsInv, CallsShape
  <1>3. /\ count' \in [CallVcpu -> Int] /\ \A w \in CallVcpu \ {v} : count'[w] = count[w]
        /\ pc \in {"return", "body"} => count'[v] = 0
        /\ pc \in {"handler", "away"} => count'[v] = 1
    <2>1. CASE Calls!Enable(v) /\ count[v] = 1 /\ pc \in {"return", "body"}
      <3>1. /\ count' \in [CallVcpu -> Int] /\ count'[v] = 0
            /\ \A w \in CallVcpu \ {v} : count'[w] = count[w]
        BY <2>1, EnableCounts, Zenon
      <3> QED BY <2>1, <3>1, Zenon
    <2>2. CASE count' = count /\ count[v] = 0 /\ pc \in {"return", "body"} BY <1>2, <2>2, Zenon
    <2>3. CASE pc \in {"handler", "away"} /\ count' = count /\ count[v] = 1 BY <1>2, <2>3, Zenon
    <2> QED BY <2>1, <2>2, <2>3, Zenon
  <1>4. CallsShape' BY <1>2, <1>3, MovedShape, Zenon
  <1>5. pc \in {"return", "body", "handler", "away"} BY Zenon
  <1>6. InCall(v)' BY <1>1, <1>3, <1>5, Zenon DEF InCall
  <1> QED BY <1>1, <1>3, <1>4, <1>6, TablesKept, OthersKeep, Zenon

\* The dispatcher and the handlers that touch no table.
LEMMA HandlerStep ==
    ASSUME CallsInv, NEW v \in CallVcpu,
           \/ Calls!VcallDispatcher(v) \/ Calls!LeaveCpu(v) \/ Calls!ComeBack(v)
           \/ Calls!Enter(v) \/ Calls!Emulate(v)
    PROVE  CallsInv' /\ vlevel' = vlevel
  <1>0. InCall(v) BY Zenon DEF CallsInv
  <1>1. CASE Calls!VcallDispatcher(v)
    <2>1. count[v] = 1 BY <1>0, <1>1, Zenon DEF Calls!VcallDispatcher, Calls!At, InCall
    <2>2. alive' = alive /\ lock' = lock /\ perm' = perm /\ vlevel' = vlevel
      BY <1>1, Zenon DEF Calls!VcallDispatcher
    <2>3. \/ Calls!Enable(v) /\ Calls!To(v, "return")
          \/ Calls!To(v, "handler") /\ count' = count
      BY <1>1, Zenon DEF Calls!VcallDispatcher, Calls!Return
    <2>4. CASE Calls!Enable(v) /\ Calls!To(v, "return")
      <3>1. "return" \in {"return", "body"} BY Zenon
      <3> QED BY <2>1, <2>2, <2>4, <3>1, MoveStep, Zenon
    <2>5. CASE Calls!To(v, "handler") /\ count' = count
      <3>1. "handler" \in {"handler", "away"} BY Zenon
      <3> QED BY <2>1, <2>2, <2>5, <3>1, MoveStep, Zenon
    <2> QED BY <2>3, <2>4, <2>5, Zenon
  <1>2. CASE Calls!LeaveCpu(v)
    <2>1. count[v] = 1 BY <1>0, <1>2, Zenon DEF Calls!LeaveCpu, Calls!At, InCall
    <2>2. alive' = alive /\ lock' = lock /\ perm' = perm /\ vlevel' = vlevel
      BY <1>2, Zenon DEF Calls!LeaveCpu
    <2>3. \/ Calls!Enable(v) /\ Calls!To(v, "return")
          \/ Calls!To(v, "away") /\ count' = count
      BY <1>2, Zenon DEF Calls!LeaveCpu, Calls!Return
    <2>4. CASE Calls!Enable(v) /\ Calls!To(v, "return")
      <3>1. "return" \in {"return", "body"} OBVIOUS
      <3> QED BY <2>1, <2>2, <2>4, <3>1, MoveStep, Zenon
    <2>5. CASE Calls!To(v, "away") /\ count' = count
      <3>1. "away" \in {"handler", "away"} BY Zenon
      <3> QED BY <2>1, <2>2, <2>5, <3>1, MoveStep, Zenon
    <2> QED BY <2>3, <2>4, <2>5, Zenon
  <1>3. CASE Calls!ComeBack(v)
    <2>1. count[v] = 1 BY <1>0, <1>3, Zenon DEF Calls!ComeBack, Calls!At, InCall
    <2>2. /\ alive' = alive /\ lock' = lock /\ perm' = perm /\ vlevel' = vlevel
          /\ Calls!Enable(v) /\ Calls!To(v, "return")
      BY <1>3, Zenon DEF Calls!ComeBack, Calls!Return
    <2>3. "return" \in {"return", "body"} OBVIOUS
    <2> QED BY <2>1, <2>2, <2>3, MoveStep, Zenon
  <1>4. CASE Calls!Enter(v)
    <2>1. count[v] = 1 BY <1>0, <1>4, Zenon DEF Calls!Enter, Calls!At, InCall
    <2>2. /\ alive' = alive /\ lock' = lock /\ perm' = perm /\ vlevel' = vlevel
          /\ Calls!Enable(v) /\ (Calls!To(v, "return") \/ Calls!To(v, "body"))
      BY <1>4, Zenon DEF Calls!Enter, Calls!Return
    <2>3. "return" \in {"return", "body"} /\ "body" \in {"return", "body"} BY Zenon
    <2>4. CASE Calls!To(v, "return") BY <2>1, <2>2, <2>3, <2>4, MoveStep, Zenon
    <2>5. CASE Calls!To(v, "body") BY <2>1, <2>2, <2>3, <2>5, MoveStep, Zenon
    <2> QED BY <2>2, <2>4, <2>5, Zenon
  <1>5. CASE Calls!Emulate(v)
    <2>1. count[v] = 0 BY <1>0, <1>5, Zenon DEF Calls!Emulate, Calls!At, InCall
    <2>2. /\ alive' = alive /\ lock' = lock /\ perm' = perm /\ vlevel' = vlevel
          /\ count' = count /\ Calls!To(v, "return")
      BY <1>5, Zenon DEF Calls!Emulate, Calls!Return
    <2>3. "return" \in {"return", "body"} OBVIOUS
    <2> QED BY <2>1, <2>2, <2>3, MoveStep, Zenon
  <1> QED BY <1>1, <1>2, <1>3, <1>4, <1>5, Zenon

\* Back to the guest.
LEMMA ResumeStep ==
    ASSUME CallsInv, NEW v \in CallVcpu, Calls!Resume(v)
    PROVE  CallsInv' /\ vlevel' = vlevel
  <1>1. /\ call[v].pc = "return" /\ call' = [call EXCEPT ![v] = Calls!Guest] /\ count' = count
        /\ alive' = alive /\ lock' = lock /\ perm' = perm /\ vlevel' = vlevel
    BY Zenon DEF Calls!Resume, Calls!At
  <1>2. /\ Calls!Guest.pc = "guest"
        /\ Calls!Guest = [pc |-> Calls!Guest.pc, id |-> Calls!Guest.id, vid |-> Calls!Guest.vid,
                          cpu |-> Calls!Guest.cpu, arg |-> Calls!Guest.arg]
    BY Zenon DEF Calls!Guest
  <1>3. /\ call = [w \in CallVcpu |-> call[w]] /\ count \in [CallVcpu -> Int]
        /\ \A w \in CallVcpu : call[w] = [pc |-> call[w].pc, id |-> call[w].id, vid |-> call[w].vid,
                                  cpu |-> call[w].cpu, arg |-> call[w].arg]
    BY Zenon DEF CallsInv, CallsShape
  <1>4. call'[v] = Calls!Guest /\ \A w \in CallVcpu \ {v} : call'[w] = call[w] BY <1>1, <1>3, Zenon
  <1>5. call' = [w \in CallVcpu |-> call'[w]] BY <1>1, <1>3, Zenon
  <1>6. \A w \in CallVcpu :
          call'[w] = [pc |-> call'[w].pc, id |-> call'[w].id, vid |-> call'[w].vid,
                      cpu |-> call'[w].cpu, arg |-> call'[w].arg]
    BY <1>2, <1>3, <1>4, Zenon
  <1>7. count'[v] = 0 BY <1>1, Zenon DEF CallsInv, InCall
  <1>8. CallsShape' BY <1>1, <1>5, <1>6, Zenon DEF CallsInv, CallsShape
  <1>9. InCall(v)' BY <1>2, <1>4, <1>7, Zenon DEF InCall
  <1>10. CallsInv' BY <1>1, <1>4, <1>8, <1>9, TablesKept, OthersKeep, Zenon
  <1> QED BY <1>1, <1>10, Zenon

\* vpartition_get: the lock is free, so that nobody else holds this partition.
LEMMA VpartitionGetStep ==
    ASSUME CallsAssumption, CallsInv, NEW v \in CallVcpu, Calls!VpartitionGet(v)
    PROVE  CallsInv' /\ vlevel' = vlevel
  <1> DEFINE p == Calls!Target(v)
  <1>1. /\ call[v].pc = "body" /\ call[v].id \in Calls!Criticality
        /\ count' = count /\ alive' = alive /\ perm' = perm /\ vlevel' = vlevel
        /\ \/ Calls!To(v, "return") /\ lock' = lock
           \/ /\ lock[p] = NULL /\ p \in alive /\ lock' = [lock EXCEPT ![p] = v]
              /\ Calls!To(v, "locked")
    BY Zenon DEF Calls!VpartitionGet, Calls!At, Calls!Return
  <1>2. count[v] = 0 BY <1>1, Zenon DEF CallsInv, InCall
  <1>3. CASE Calls!To(v, "return") /\ lock' = lock
    <2>1. "return" \in {"return", "body"} BY Zenon
    <2> QED BY <1>1, <1>2, <1>3, <2>1, MoveStep, Zenon
  <1>4. CASE /\ lock[p] = NULL /\ p \in alive /\ lock' = [lock EXCEPT ![p] = v]
             /\ Calls!To(v, "locked")
    <2>1. /\ call'[v] = [pc |-> "locked", id |-> call[v].id, vid |-> call[v].vid,
                          cpu |-> call[v].cpu, arg |-> call[v].arg]
          /\ \A w \in CallVcpu \ {v} : call'[w] = call[w]
      BY <1>4, CallMoves, Zenon
    <2>2. call'[v].pc = "locked" /\ call'[v].id = call[v].id /\ call'[v].vid = call[v].vid BY <2>1
    <2>3. Calls!Target(v)' = p BY <2>2, Zenon DEF Calls!Target
    <2> HIDE DEF p
    <2>4. /\ p \in Vid /\ lock = [q \in Vid |-> lock[q]] /\ count \in [CallVcpu -> Int]
      BY <1>4, Zenon DEF CallsInv, CallsShape
    <2>5. /\ lock'[p] = v /\ \A q \in Vid \ {p} : lock'[q] = lock[q]
          /\ lock' = [q \in Vid |-> lock'[q]]
      BY <1>4, <2>4, Zenon
    <2>6. CallsShape' BY <1>1, <1>4, <2>4, <2>5, MovedShape, Zenon
    <2>7. Holder(v)' BY <1>1, <1>4, <2>2, <2>3, <2>5, Zenon DEF Holder
    <2>8. InCall(v)' BY <1>1, <1>2, <2>2, <2>7, Zenon DEF InCall
    <2>9. ASSUME NEW w \in CallVcpu \ {v}, Holder(w)
          PROVE  /\ Calls!Target(w) \in alive' /\ lock'[Calls!Target(w)] = w
                 /\ perm'[Calls!Target(w)] = perm[Calls!Target(w)]
      <3>1. /\ Calls!Target(w) \in alive /\ Calls!Target(w) \in Vid
            /\ lock[Calls!Target(w)] = w /\ w # NULL
        BY <2>9, Zenon DEF Holder, CallsInv, CallsShape, CallsAssumption
      <3>2. Calls!Target(w) # p BY <1>4, <3>1, Zenon
      <3> QED BY <1>1, <2>5, <3>1, <3>2, Zenon
    <2>10. \A w \in CallVcpu \ {v} : call'[w] = call[w] /\ count'[w] = count[w] BY <1>1, <2>1, Zenon
    <2>11. CallsInv' BY <2>6, <2>8, <2>9, <2>10, OthersKeep, Zenon
    <2> QED BY <1>1, <2>11, Zenon
  <1> QED BY <1>1, <1>3, <1>4, Zenon

\* The end of a call that holds a partition.
LEMMA PutStep ==
    ASSUME CallsInv, NEW v \in CallVcpu, call[v].pc \in {"locked", "write"}, Calls!Put(v),
           Calls!To(v, "return"), count' = count, alive' = alive,
           perm' = [p \in Vid |-> [c \in Cpu |-> perm'[p][c]]],
           \A p \in Vid \ {Calls!Target(v)} : perm'[p] = perm[p],
           vlevel' = [c \in Cpu |-> vlevel'[c]]
    PROVE  CallsInv'
  <1>1. InCall(v) /\ Holder(v) BY Zenon DEF CallsInv, InCall
  <1>2. /\ call'[v] = [pc |-> "return", id |-> call[v].id, vid |-> call[v].vid,
                          cpu |-> call[v].cpu, arg |-> call[v].arg]
        /\ \A w \in CallVcpu \ {v} : call'[w] = call[w]
        /\ call' = [w \in CallVcpu |-> call'[w]]
        /\ \A w \in CallVcpu :
                call'[w] = [pc |-> call'[w].pc, id |-> call'[w].id, vid |-> call'[w].vid,
                            cpu |-> call'[w].cpu, arg |-> call'[w].arg]
    BY CallMoves, Zenon
  <1>3. call'[v].pc = "return" BY <1>2
  <1>4. count[v] = 0 BY <1>1, Zenon DEF InCall
  <1>5. lock' = [p \in Vid |-> lock'[p]] BY PutBackShape, Zenon
  <1>6. CallsShape' BY <1>2, <1>5, Zenon DEF CallsInv, CallsShape
  <1>7. InCall(v)' BY <1>3, <1>4, Zenon DEF InCall
  <1>8. \A w \in CallVcpu \ {v} : Holder(w) =>
              /\ Calls!Target(w) \in alive' /\ lock'[Calls!Target(w)] = w
              /\ perm'[Calls!Target(w)] = perm[Calls!Target(w)]
    BY <1>1, OwnPutBack, Zenon
  <1>9. \A w \in CallVcpu \ {v} : call'[w] = call[w] /\ count'[w] = count[w] BY <1>2, Zenon
  <1> QED BY <1>6, <1>7, <1>8, <1>9, OthersKeep, Zenon

\* The handlers of the criticality levels, once they hold the partition.
LEMMA CriticalityStep ==
    ASSUME CallsInv, NEW v \in CallVcpu,
           \/ Calls!SetCriticalityPerm(v) \/ Calls!ReadCriticalityLevel(v) \/ Calls!LookUpPerm(v)
    PROVE  CallsInv' /\ vlevel' = vlevel
  <1>0. /\ perm = [p \in Vid |-> [c \in Cpu |-> perm[p][c]]] /\ vlevel = [c \in Cpu |-> vlevel[c]]
        /\ lock = [p \in Vid |-> lock[p]]
    BY Zenon DEF CallsInv, CallsShape
  <1>1. CASE Calls!SetCriticalityPerm(v)
    <2> DEFINE p == Calls!Target(v)
    <2>1. /\ call[v].pc \in {"locked", "write"} /\ Calls!Put(v) /\ Calls!To(v, "return")
          /\ count' = count /\ alive' = alive /\ vlevel' = vlevel
          /\ perm' = [perm EXCEPT ![p] = [perm[p] EXCEPT ![call[v].cpu] = call[v].arg]]
      BY <1>1, Zenon DEF Calls!SetCriticalityPerm, Calls!At, Calls!Return
    <2> HIDE DEF p
    <2>2. perm' = [q \in Vid |-> [c \in Cpu |-> perm'[q][c]]]
      <3>1. \A q \in Vid : perm[q] = [c \in Cpu |-> perm[q][c]] BY <1>0, Zenon
      <3>2. perm' = [q \in Vid |-> perm'[q]] BY <1>0, <2>1, Zenon
      <3>3. ASSUME NEW q \in Vid PROVE perm'[q] = [c \in Cpu |-> perm'[q][c]]
        <4>1. CASE q = p
          <5>1. perm'[q] = [perm[q] EXCEPT ![call[v].cpu] = call[v].arg] BY <1>0, <2>1, <4>1, Zenon
          <5> QED BY <3>1, <5>1, Zenon
        <4>2. CASE q # p
          <5>1. perm'[q] = perm[q] BY <1>0, <2>1, <4>2, Zenon
          <5> QED BY <3>1, <5>1, Zenon
        <4> QED BY <4>1, <4>2, Zenon
      <3> QED BY <3>2, <3>3, Zenon
    <2>3. \A q \in Vid \ {p} : perm'[q] = perm[q] BY <1>0, <2>1, Zenon
    <2>4. vlevel' = [c \in Cpu |-> vlevel'[c]] BY <1>0, <2>1, Zenon
    <2>5. CallsInv' BY <2>1, <2>2, <2>3, <2>4, PutStep, Zenon DEF p
    <2> QED BY <2>1, <2>5, Zenon
  <1>2. CASE Calls!ReadCriticalityLevel(v)
    <2>1. /\ call[v].pc \in {"locked", "write"} /\ Calls!Put(v) /\ Calls!To(v, "return")
          /\ count' = count /\ alive' = alive /\ vlevel' = vlevel /\ perm' = perm
      BY <1>2, Zenon DEF Calls!ReadCriticalityLevel, Calls!At, Calls!Return
    <2>2. /\ perm' = [q \in Vid |-> [c \in Cpu |-> perm'[q][c]]]
          /\ vlevel' = [c \in Cpu |-> vlevel'[c]]
          /\ \A q \in Vid \ {Calls!Target(v)} : perm'[q] = perm[q]
      BY <1>0, <2>1, Zenon
    <2>3. CallsInv' BY <2>1, <2>2, PutStep, Zenon
    <2> QED BY <2>1, <2>3, Zenon
  <1>3. CASE Calls!LookUpPerm(v)
    <2>1. /\ call[v].pc = "locked" /\ call[v].id = "vwrite_criticality_level"
          /\ count' = count /\ alive' = alive /\ vlevel' = vlevel /\ perm' = perm
          /\ \/ /\ Calls!Allows(perm[Calls!Target(v)][call[v].cpu], call[v].arg)
                /\ Calls!To(v, "write") /\ lock' = lock
             \/ Calls!Put(v) /\ Calls!To(v, "return")
      BY <1>3, Zenon DEF Calls!LookUpPerm, Calls!At, Calls!Return
    <2>2. CASE Calls!Put(v) /\ Calls!To(v, "return")
      <3>1. /\ perm' = [q \in Vid |-> [c \in Cpu |-> perm'[q][c]]]
            /\ vlevel' = [c \in Cpu |-> vlevel'[c]]
            /\ \A q \in Vid \ {Calls!Target(v)} : perm'[q] = perm[q]
        BY <1>0, <2>1, Zenon
      <3>2. call[v].pc \in {"locked", "write"} BY <2>1, Zenon
      <3>3. CallsInv' BY <2>1, <2>2, <3>1, <3>2, PutStep, Zenon
      <3> QED BY <2>1, <3>3, Zenon
    <2>3. CASE /\ Calls!Allows(perm[Calls!Target(v)][call[v].cpu], call[v].arg)
               /\ Calls!To(v, "write") /\ lock' = lock
      <3>1. /\ call'[v] = [pc |-> "write", id |-> call[v].id, vid |-> call[v].vid,
                            cpu |-> call[v].cpu, arg |-> call[v].arg]
            /\ \A w \in CallVcpu \ {v} : call'[w] = call[w]
        BY <2>3, CallMoves, Zenon
      <3>2. /\ call'[v].pc = "write" /\ call'[v].id = call[v].id /\ call'[v].vid = call[v].vid
            /\ call'[v].cpu = call[v].cpu /\ call'[v].arg = call[v].arg
        BY <3>1
      <3>3. Calls!Target(v)' = Calls!Target(v) /\ Calls!Target(v) = VidOf[v]
        BY <2>1, <3>2, Zenon DEF Calls!Target
      <3>4. InCall(v) /\ Holder(v) BY <2>1, Zenon DEF CallsInv, InCall
      <3>5. count'[v] = 0 BY <2>1, <3>4, Zenon DEF InCall
      <3>6. Holder(v)' BY <2>1, <2>3, <3>2, <3>3, <3>4, Zenon DEF Holder
      <3>7. Permitted(v)' BY <2>1, <2>3, <3>2, <3>3, Zenon DEF Permitted, Calls!Allows
      <3>8. InCall(v)' BY <3>2, <3>5, <3>6, <3>7, Zenon DEF InCall
      <3>9. count' \in [CallVcpu -> Int] /\ lock' = [q \in Vid |-> lock'[q]]
        BY <1>0, <2>1, <2>3, Zenon DEF CallsInv, CallsShape
      <3>10. CallsShape' BY <2>1, <2>3, <3>9, MovedShape, Zenon
      <3>11. \A w \in CallVcpu \ {v} : call'[w] = call[w] /\ count'[w] = count[w] BY <2>1, <3>1, Zenon
      <3>12. CallsInv' BY <2>1, <2>3, <3>8, <3>10, <3>11, TablesKept, OthersKeep, Zenon
      <3> QED BY <2>1, <3>12
    <2> QED BY <2>1, <2>2, <2>3, Zenon
  <1> QED BY <1>1, <1>2, <1>3, Zenon

\* The level is written by a call that may write it, now.
LEMMA WriteStep ==
    ASSUME CallsInv, NEW v \in CallVcpu, Calls!WriteCriticalityLevel(v)
    PROVE  CallsInv' /\ Calls!LevelStep
  <1>1. /\ call[v].pc = "write" /\ Calls!Put(v) /\ Calls!To(v, "return")
        /\ count' = count /\ alive' = alive /\ perm' = perm
        /\ vlevel' = [vlevel EXCEPT ![call[v].cpu] = call[v].arg]
    BY Zenon DEF Calls!WriteCriticalityLevel, Calls!At, Calls!Return
  <1>2. /\ perm = [p \in Vid |-> [c \in Cpu |-> perm[p][c]]] /\ vlevel = [c \in Cpu |-> vlevel[c]]
    BY Zenon DEF CallsInv, CallsShape
  <1>3. /\ perm' = [q \in Vid |-> [c \in Cpu |-> perm'[q][c]]]
        /\ vlevel' = [c \in Cpu |-> vlevel'[c]]
        /\ \A q \in Vid \ {Calls!Target(v)} : perm'[q] = perm[q]
    BY <1>1, <1>2, Zenon
  <1>4. call[v].pc \in {"locked", "write"} BY <1>1, Zenon
  <1>5. CallsInv' BY <1>1, <1>3, <1>4, PutStep, Zenon
  <1>6. Holder(v) /\ Permitted(v) BY <1>1, Zenon DEF CallsInv, InCall
  <1>7. VidOf[v] \in alive
    <2>1. Calls!Target(v) = VidOf[v] BY <1>6, Zenon DEF Permitted, Calls!Target
    <2> QED BY <1>6, <2>1, Zenon DEF Holder
  <1>8. ASSUME NEW c \in Cpu, vlevel'[c] # vlevel[c]
        PROVE  \E w \in CallVcpu : /\ Calls!At(w, "write") /\ call[w].cpu = c /\ VidOf[w] \in alive
                               /\ Calls!Allows(perm[VidOf[w]][c], vlevel'[c])
    <2>1. call[v].cpu = c /\ vlevel'[c] = call[v].arg BY <1>1, <1>2, <1>8, Zenon
    <2>2. Calls!Allows(perm[VidOf[v]][c], vlevel'[c]) BY <1>6, <2>1, Zenon DEF Permitted
    <2> QED BY <1>1, <1>7, <2>1, <2>2, Zenon DEF Calls!At
  <1>9. Calls!LevelStep BY <1>8, Zenon DEF Calls!LevelStep
  <1> QED BY <1>5, <1>9, Zenon

\* A partition is removed that no call holds.
LEMMA RemoveStep ==
    ASSUME CallsAssumption, CallsInv, NEW p \in Vid, Calls!Remove(p)
    PROVE  CallsInv' /\ vlevel' = vlevel
  <1>1. /\ lock[p] = NULL /\ alive' = alive \ {p}
        /\ count' = count /\ call' = call /\ lock' = lock /\ perm' = perm /\ vlevel' = vlevel
    BY Zenon DEF Calls!Remove
  <1>2. CallsShape' BY <1>1, Zenon DEF CallsInv, CallsShape
  <1>3. ASSUME NEW w \in CallVcpu PROVE InCall(w)'
    <2>1. InCall(w) BY Zenon DEF CallsInv
    <2>2. Calls!Target(w)' = Calls!Target(w) BY <1>1, Zenon DEF Calls!Target
    <2>3. Holder(w) => Holder(w)'
      <3>1. w # NULL BY Zenon DEF CallsAssumption
      <3> QED BY <1>1, <2>2, <3>1, Zenon DEF Holder
    <2>4. Permitted(w) => Permitted(w)' BY <1>1, Zenon DEF Permitted, Calls!Allows
    <2> QED BY <1>1, <2>1, <2>3, <2>4, Zenon DEF InCall
  <1> QED BY <1>1, <1>2, <1>3, Zenon DEF CallsInv

\* No step of a call leaves the invariant, or writes a level it may not write.
LEMMA CallsNextInv ==
    ASSUME CallsAssumption, CallsInv, [Calls!Next]_(Calls!vars)
    PROVE  CallsInv' /\ Calls!LevelStep
  <1>0. vlevel' = vlevel => Calls!LevelStep BY Zenon DEF Calls!LevelStep
  <1>1. CASE \E v \in CallVcpu, id \in (Calls!vcall_table \ Calls!Criticality) \cup {"none"}, p \in Vid :
               Calls!Exit(v, id, p, NULL, NULL)
    BY <1>0, <1>1, CallExitStep, Zenon
  <1>2. CASE \E v \in CallVcpu, p \in Vid, c \in Cpu, q \in Perms :
               Calls!Exit(v, "vset_criticality_perm", p, c, q)
    BY <1>0, <1>2, CallExitStep, Zenon
  <1>3. CASE \E v \in CallVcpu, c \in Cpu, l \in 0..(MaxLevel + 1) :
               \/ Calls!Exit(v, "vwrite_criticality_level", NULL, c, l)
               \/ Calls!Exit(v, "vread_criticality_level", NULL, c, NULL)
    BY <1>0, <1>3, CallExitStep, Zenon
  <1>4. CASE \E v \in CallVcpu : Calls!Resume(v) BY <1>0, <1>4, ResumeStep, Zenon
  <1>5. CASE \E v \in CallVcpu : \/ Calls!VcallDispatcher(v) \/ Calls!LeaveCpu(v) \/ Calls!ComeBack(v)
                             \/ Calls!Enter(v) \/ Calls!Emulate(v)
    BY <1>0, <1>5, HandlerStep, Zenon
  <1>6. CASE \E v \in CallVcpu : Calls!VpartitionGet(v) BY <1>0, <1>6, VpartitionGetStep, Zenon
  <1>7. CASE \E v \in CallVcpu : \/ Calls!SetCriticalityPerm(v) \/ Calls!ReadCriticalityLevel(v)
                             \/ Calls!LookUpPerm(v)
    BY <1>0, <1>7, CriticalityStep, Zenon
  <1>8. CASE \E v \in CallVcpu : Calls!WriteCriticalityLevel(v) BY <1>8, WriteStep, Zenon
  <1>9. CASE \E p \in Vid : Calls!Remove(p) BY <1>0, <1>9, RemoveStep, Zenon
  <1>10. CASE UNCHANGED Calls!vars
    <2>1. /\ count' = count /\ call' = call /\ alive' = alive /\ lock' = lock /\ perm' = perm
          /\ vlevel' = vlevel
      BY <1>10, Zenon DEF Calls!vars
    <2>2. CallsShape' BY <2>1, Zenon DEF CallsInv, CallsShape
    <2>3. ASSUME NEW w \in CallVcpu PROVE InCall(w)'
      <3>1. InCall(w) BY Zenon DEF CallsInv
      <3>2. Calls!Target(w)' = Calls!Target(w) BY <2>1, Zenon DEF Calls!Target
      <3>3. Holder(w) => Holder(w)' BY <2>1, <3>2, Zenon DEF Holder
      <3>4. Permitted(w) => Permitted(w)' BY <2>1, Zenon DEF Permitted, Calls!Allows
      <3> QED BY <2>1, <3>1, <3>3, <3>4, Zenon DEF InCall
    <2> QED BY <1>0, <2>1, <2>2, <2>3, Zenon DEF CallsInv
  <1> QED BY <1>1, <1>2, <1>3, <1>4, <1>5, <1>6, <1>7, <1>8, <1>9, <1>10, Zenon DEF Calls!Next

\* The invariant counts what disables preemption.
LEMMA CallsInvHolds ==
    ASSUME CallsInv
    PROVE  Calls!PreemptionBalanced
  BY Zenon DEF CallsInv, InCall, Calls!PreemptionBalanced

\* Every path of every call ends with preemption enabled again, and a level is
\* only written by a partition that may write it at that moment.
THEOREM CallsCorrect ==
    ASSUME CallsAssumption
    PROVE  Calls!Spec => []Calls!PreemptionBalanced /\ [][Calls!LevelStep]_(Calls!vars)
  <1>1. Calls!Init => CallsInv BY CallsInitInv, Zenon
  <1>2. CallsInv /\ [Calls!Next]_(Calls!vars) => CallsInv' /\ Calls!LevelStep BY CallsNextInv, Zenon
  <1>3. CallsInv => Calls!PreemptionBalanced BY CallsInvHolds, Zenon
  <1> QED BY <1>1, <1>2, <1>3, PTL DEF Calls!Spec

-----------------------------------------------------------------------------
(* Time slices.                                                               *)

CONSTANTS Vcpu, MaxCrit, Policy, Frames, Slices, MaxStrays, IDLE
VARIABLES state, crit, slice, left, rearm, term, yield, heap, frames, clock, level, kick,
          current, pc, sliceArmed, strays, missed, silent
Sched == INSTANCE VSched WITH armed <- sliceArmed

\* The idle vcpu is none of the others.
SchedAssumption == IDLE \notin Vcpu

\* A current vcpu is running or in an exit handler, so that a slice given to it
\* by another cpu is either rearmed at its entry or recorded as missed.
SliceShape ==
    /\ state = [v \in Vcpu |-> state[v]]
    /\ left = [v \in Vcpu |-> left[v]] /\ slice = [v \in Vcpu |-> slice[v]]
    /\ rearm = [v \in Vcpu |-> rearm[v]] /\ yield = [v \in Vcpu |-> yield[v]]
CurrentRuns == current \in Vcpu => state[current] \in {"RUNNING", "TRANSITIONING"}
SliceInv == SliceShape /\ CurrentRuns /\ Sched!SliceEnds

\* At first the idle vcpu runs.
LEMMA SliceInitInv ==
    ASSUME SchedAssumption, Sched!Init
    PROVE  SliceInv
  <1>1. /\ state = [v \in Vcpu |-> "INITIALIZING"] /\ left = [v \in Vcpu |-> 0]
        /\ rearm = [v \in Vcpu |-> FALSE] /\ yield = rearm /\ current = IDLE
    BY Zenon DEF Sched!Init
  <1>2. slice \in [Vcpu -> Slices] BY Zenon DEF Sched!Init
  <1>3. SliceShape BY <1>1, <1>2, Zenon DEF SliceShape
  <1>4. CurrentRuns /\ Sched!SliceEnds
    BY <1>1, Zenon DEF CurrentRuns, Sched!SliceEnds, SchedAssumption
  <1> QED BY <1>3, <1>4, Zenon DEF SliceInv

\* A switch gives the new vcpu its slice and arms the timer for it.
LEMMA SwitchSlices ==
    ASSUME SchedAssumption, SliceInv, NEW h, NEW st, NEW keep, Sched!Switch(h, st, keep),
           st = [v \in Vcpu |-> st[v]], slice' = slice,
           rearm' = [v \in Vcpu |-> rearm'[v]], yield' = [v \in Vcpu |-> yield'[v]]
    PROVE  SliceInv'
  <1> DEFINE p == Sched!Pop(h, st).vcpu
  <1>1. \/ current' = IDLE /\ state' = st /\ left' = left
        \/ /\ current' = p /\ state' = [st EXCEPT ![p] = "TRANSITIONING"]
           /\ left' = [left EXCEPT ![p] = slice[p]] /\ sliceArmed' = (slice[p] # 0)
    BY Zenon DEF Sched!Switch
  <1> HIDE DEF p
  <1>2. left = [v \in Vcpu |-> left[v]] /\ slice = [v \in Vcpu |-> slice[v]]
    BY Zenon DEF SliceInv, SliceShape
  <1>3. CASE current' = IDLE /\ state' = st /\ left' = left
    BY <1>2, <1>3, Zenon DEF SliceInv, SliceShape, CurrentRuns, Sched!SliceEnds, SchedAssumption
  <1>4. CASE /\ current' = p /\ state' = [st EXCEPT ![p] = "TRANSITIONING"]
             /\ left' = [left EXCEPT ![p] = slice[p]] /\ sliceArmed' = (slice[p] # 0)
    <2>1. SliceShape' BY <1>2, <1>4, Zenon DEF SliceShape
    <2>2. CurrentRuns' BY <1>4, Zenon DEF CurrentRuns
    <2>3. p \in Vcpu => left'[p] = slice[p] BY <1>2, <1>4, Zenon
    <2>4. Sched!SliceEnds' BY <1>4, <2>3, Zenon DEF Sched!SliceEnds
    <2> QED BY <2>1, <2>2, <2>4, Zenon DEF SliceInv
  <1> QED BY <1>1, <1>3, <1>4, Zenon

\* A vcpu that is told to go, or that is rescheduled.
LEMMA RecoverSlices ==
    ASSUME SchedAssumption, SliceInv, NEW v \in Vcpu, Sched!Recover(v)
    PROVE  SliceInv'
  <1> DEFINE st == [state EXCEPT ![v] = "TERMINATED"]
  <1>1. /\ Sched!Switch(heap, st, kick) /\ yield' = [yield EXCEPT ![v] = FALSE]
        /\ slice' = slice /\ rearm' = rearm
    BY Zenon DEF Sched!Recover, Sched!meta
  <1>2. /\ state = [w \in Vcpu |-> state[w]] /\ rearm = [w \in Vcpu |-> rearm[w]]
        /\ yield = [w \in Vcpu |-> yield[w]]
    BY Zenon DEF SliceInv, SliceShape
  <1>3. /\ st = [w \in Vcpu |-> st[w]] /\ rearm' = [w \in Vcpu |-> rearm'[w]]
        /\ yield' = [w \in Vcpu |-> yield'[w]]
    BY <1>1, <1>2, Zenon
  <1> QED BY <1>1, <1>3, SwitchSlices, Zenon
LEMMA RescheduleSlices ==
    ASSUME SchedAssumption, SliceInv, NEW v \in Vcpu, current = v, Sched!Reschedule(v)
    PROVE  SliceInv'
  <1>0. /\ state = [w \in Vcpu |-> state[w]] /\ rearm = [w \in Vcpu |-> rearm[w]]
        /\ yield = [w \in Vcpu |-> yield[w]] /\ left = [w \in Vcpu |-> left[w]]
        /\ slice = [w \in Vcpu |-> slice[w]]
    BY Zenon DEF SliceInv, SliceShape
  <1>1. CASE Sched!Recover(v) BY <1>1, RecoverSlices, Zenon
  <1> DEFINE st == [state EXCEPT ![v] = "READY"]
  <1>2. CASE /\ Sched!Switch(Sched!Pushed(v), st, kick \/ Policy = "MCQS")
             /\ rearm' = [rearm EXCEPT ![v] = FALSE] /\ yield' = [yield EXCEPT ![v] = FALSE]
             /\ slice' = slice
    <2>1. /\ st = [w \in Vcpu |-> st[w]] /\ rearm' = [w \in Vcpu |-> rearm'[w]]
          /\ yield' = [w \in Vcpu |-> yield'[w]]
      BY <1>0, <1>2, Zenon
    <2> QED BY <1>2, <2>1, SwitchSlices, Zenon
  <1>3. CASE /\ left' = [left EXCEPT ![v] = slice[v]] /\ sliceArmed' = (slice[v] # 0)
             /\ yield' = [yield EXCEPT ![v] = FALSE]
             /\ state' = state /\ current' = current /\ rearm' = rearm /\ slice' = slice
    <2>1. SliceShape' BY <1>0, <1>3, Zenon DEF SliceShape
    <2>2. CurrentRuns' BY <1>3, Zenon DEF SliceInv, CurrentRuns
    <2>3. left'[v] = slice[v] BY <1>0, <1>3, Zenon
    <2>4. Sched!SliceEnds' BY <1>3, <2>3, Zenon DEF Sched!SliceEnds
    <2> QED BY <2>1, <2>2, <2>4, Zenon DEF SliceInv
  <1> QED BY <1>1, <1>2, <1>3, Zenon DEF Sched!Reschedule, Sched!meta

\* The steps of the current vcpu.
LEMMA EnterSlices ==
    ASSUME SchedAssumption, SliceInv, NEW v \in Vcpu, Sched!Enter(v)
    PROVE  SliceInv'
  <1>0. /\ state = [w \in Vcpu |-> state[w]] /\ rearm = [w \in Vcpu |-> rearm[w]]
    BY Zenon DEF SliceInv, SliceShape
  <1>1. CASE Sched!Recover(v) BY <1>1, RecoverSlices, Zenon
  <1>2. CASE /\ current = v /\ state' = [state EXCEPT ![v] = "RUNNING"]
             /\ rearm' = [rearm EXCEPT ![v] = FALSE]
             /\ sliceArmed' = (IF rearm[v] THEN left[v] # 0 ELSE sliceArmed)
             /\ current' = current /\ slice' = slice /\ left' = left /\ yield' = yield
             /\ missed' = missed
    <2>1. SliceShape' BY <1>0, <1>2, Zenon DEF SliceInv, SliceShape
    <2>2. CurrentRuns' BY <1>0, <1>2, Zenon DEF CurrentRuns
    <2>3. Sched!SliceEnds' BY <1>2, Zenon DEF SliceInv, Sched!SliceEnds
    <2> QED BY <2>1, <2>2, <2>3, Zenon DEF SliceInv
  <1> QED BY <1>1, <1>2, Zenon DEF Sched!Enter, Sched!Running, Sched!Same, Sched!meta,
                                   Sched!ArmedAtEntry
LEMMA ExitSlices ==
    ASSUME SliceInv, NEW v \in Vcpu, NEW timer \in BOOLEAN, Sched!Exit(v, timer)
    PROVE  SliceInv'
  <1>0. /\ state = [w \in Vcpu |-> state[w]] /\ yield = [w \in Vcpu |-> yield[w]]
    BY Zenon DEF SliceInv, SliceShape
  <1>1. /\ current = v /\ sliceArmed' = (sliceArmed /\ ~timer)
        /\ yield' = [yield EXCEPT ![v] = yield[v] \/ timer]
        /\ state' = [state EXCEPT ![v] = "TRANSITIONING"]
        /\ current' = current /\ slice' = slice /\ left' = left /\ rearm' = rearm /\ missed' = missed
    BY Zenon DEF Sched!Exit, Sched!Running, Sched!Same, Sched!meta
  <1>2. SliceShape' BY <1>0, <1>1, Zenon DEF SliceInv, SliceShape
  <1>3. CurrentRuns' BY <1>0, <1>1, Zenon DEF CurrentRuns
  <1>4. yield'[v] = (yield[v] \/ timer) BY <1>0, <1>1, Zenon
  <1>5. Sched!SliceEnds' BY <1>1, <1>4, Zenon DEF SliceInv, Sched!SliceEnds
  <1> QED BY <1>2, <1>3, <1>5, Zenon DEF SliceInv

\* A step that leaves the slices and the timer alone.
LEMMA SlicesKept ==
    ASSUME SliceInv, state' = state, left' = left, slice' = slice, rearm' = rearm,
           yield' = yield, current' = current, sliceArmed' = sliceArmed, missed' = missed
    PROVE  SliceInv'
  <1>1. SliceShape' BY Zenon DEF SliceInv, SliceShape
  <1>2. CurrentRuns' BY Zenon DEF SliceInv, CurrentRuns
  <1>3. Sched!SliceEnds' BY Zenon DEF SliceInv, Sched!SliceEnds
  <1> QED BY <1>1, <1>2, <1>3, Zenon DEF SliceInv
LEMMA UnpinSlices ==
    ASSUME SchedAssumption, SliceInv, NEW v \in Vcpu,
           Sched!Unpin(v) \/ Sched!Pin(v) \/ Sched!Yield(v)
    PROVE  SliceInv'
  <1>0. current = v BY Zenon DEF Sched!Unpin, Sched!Pin, Sched!Yield, Sched!Running
  <1>1. CASE Sched!Recover(v) BY <1>1, RecoverSlices, Zenon
  <1>2. CASE Sched!Reschedule(v) BY <1>0, <1>2, RescheduleSlices, Zenon
  <1>3. CASE /\ state' = state /\ left' = left /\ slice' = slice /\ rearm' = rearm
             /\ yield' = yield /\ current' = current /\ sliceArmed' = sliceArmed /\ missed' = missed
    BY <1>3, SlicesKept, Zenon
  <1> QED BY <1>1, <1>2, <1>3, Zenon DEF Sched!Unpin, Sched!Pin, Sched!Yield, Sched!Same, Sched!meta
LEMMA TimerSlices ==
    ASSUME SchedAssumption, SliceInv, NEW v \in Vcpu, Sched!Timer(v)
    PROVE  SliceInv'
  <1>0. current = v BY Zenon DEF Sched!Timer, Sched!Running
  <1>1. CASE Sched!Reschedule(v) BY <1>0, <1>1, RescheduleSlices, Zenon
  <1>2. CASE /\ state' = state /\ left' = left /\ slice' = slice /\ rearm' = rearm
             /\ current' = current /\ missed' = missed
             /\ \/ yield' = [yield EXCEPT ![v] = TRUE]
                \/ sliceArmed' = (left[v] # 0) /\ yield' = yield
    <2>0. yield = [w \in Vcpu |-> yield[w]] BY Zenon DEF SliceInv, SliceShape
    <2>1. SliceShape' BY <1>2, <2>0, Zenon DEF SliceInv, SliceShape
    <2>2. CurrentRuns' BY <1>2, Zenon DEF SliceInv, CurrentRuns
    <2>3. yield'[v] \/ sliceArmed' = (left[v] # 0) BY <1>2, <2>0, Zenon
    <2>4. Sched!SliceEnds' BY <1>0, <1>2, <2>3, Zenon DEF Sched!SliceEnds
    <2> QED BY <2>1, <2>2, <2>4, Zenon DEF SliceInv
  <1> QED BY <1>1, <1>2, Zenon DEF Sched!Timer, Sched!Same, Sched!meta
LEMMA PauseSlices ==
    ASSUME SchedAssumption, SliceInv, NEW v \in Vcpu, Sched!Pause(v)
    PROVE  SliceInv'
  <1>0. /\ state = [w \in Vcpu |-> state[w]] /\ rearm = [w \in Vcpu |-> rearm[w]]
        /\ yield = [w \in Vcpu |-> yield[w]]
    BY Zenon DEF SliceInv, SliceShape
  <1>1. CASE Sched!Recover(v) BY <1>1, RecoverSlices, Zenon
  <1> DEFINE st == [state EXCEPT ![v] = "PAUSED"]
  <1>2. CASE /\ Sched!Switch(Sched!PushedPaused(v), st, kick)
             /\ rearm' = [rearm EXCEPT ![v] = FALSE] /\ yield' = [yield EXCEPT ![v] = FALSE]
             /\ slice' = slice
    <2>1. /\ st = [w \in Vcpu |-> st[w]] /\ rearm' = [w \in Vcpu |-> rearm'[w]]
          /\ yield' = [w \in Vcpu |-> yield'[w]]
      BY <1>0, <1>2, Zenon
    <2> QED BY <1>2, <2>1, SwitchSlices, Zenon
  <1> QED BY <1>1, <1>2, Zenon DEF Sched!Pause, Sched!meta
LEMMA IdleSlices ==
    ASSUME SchedAssumption, SliceInv, Sched!IdleLoop
    PROVE  SliceInv'
  <1>1. Sched!Switch(heap, state, kick) /\ slice' = slice /\ rearm' = rearm /\ yield' = yield
    BY Zenon DEF Sched!IdleLoop, Sched!meta
  <1>2. /\ state = [w \in Vcpu |-> state[w]] /\ rearm' = [w \in Vcpu |-> rearm'[w]]
        /\ yield' = [w \in Vcpu |-> yield'[w]]
    BY <1>1, Zenon DEF SliceInv, SliceShape
  <1> QED BY <1>1, <1>2, SwitchSlices, Zenon

\* A step of any cpu: what changes the state of a vcpu that is not current.
LEMMA NotCurrentSlices ==
    ASSUME SliceInv, NEW v \in Vcpu, NEW s, state[v] \notin {"RUNNING", "TRANSITIONING"},
           state' = [state EXCEPT ![v] = s], left' = left, slice' = slice, rearm' = rearm,
           yield' = yield, current' = current, sliceArmed' = sliceArmed, missed' = missed
    PROVE  SliceInv'
  <1>0. state = [w \in Vcpu |-> state[w]] BY Zenon DEF SliceInv, SliceShape
  <1>1. SliceShape' BY <1>0, Zenon DEF SliceInv, SliceShape
  <1>2. current # v BY Zenon DEF SliceInv, CurrentRuns
  <1>3. CurrentRuns' BY <1>0, <1>2, Zenon DEF SliceInv, CurrentRuns
  <1>4. Sched!SliceEnds' BY Zenon DEF SliceInv, Sched!SliceEnds
  <1> QED BY <1>1, <1>3, <1>4, Zenon DEF SliceInv
LEMMA RemoteSlices ==
    ASSUME SliceInv, NEW v \in Vcpu,
           \/ \E paused \in BOOLEAN : Sched!Create(v, paused)
           \/ Sched!Unpause(v) \/ Sched!Teardown(v)
           \/ \E k \in Sched!Crit : Sched!AlterCrit(v, k)
           \/ \E f \in Sched!Frame : Sched!FrameSet(v, f)
    PROVE  SliceInv'
  <1>1. CASE \E paused \in BOOLEAN : Sched!Create(v, paused)
    <2>1. PICK paused \in BOOLEAN : Sched!Create(v, paused) BY <1>1, Zenon
    <2>2. state[v] \notin {"RUNNING", "TRANSITIONING"} BY <2>1, Zenon DEF Sched!Create
    <2> QED BY <2>1, <2>2, NotCurrentSlices, Zenon DEF Sched!Create, Sched!Here
  <1>2. CASE Sched!Unpause(v)
    <2>1. state[v] \notin {"RUNNING", "TRANSITIONING"} BY <1>2, Zenon DEF Sched!Unpause
    <2> QED BY <1>2, <2>1, NotCurrentSlices, Zenon DEF Sched!Unpause, Sched!Here
  <1>3. CASE Sched!Teardown(v)
    <2>1. /\ left' = left /\ slice' = slice /\ rearm' = rearm /\ yield' = yield
          /\ current' = current /\ sliceArmed' = sliceArmed /\ missed' = missed
          /\ \/ state[v] \in {"READY", "PAUSED"} /\ state' = [state EXCEPT ![v] = "TERMINATED"]
             \/ state' = state
      BY <1>3, Zenon DEF Sched!Teardown, Sched!meta
    <2>2. CASE state[v] \in {"READY", "PAUSED"} /\ state' = [state EXCEPT ![v] = "TERMINATED"]
      <3>1. state[v] \notin {"RUNNING", "TRANSITIONING"} BY <2>2, Zenon
      <3> QED BY <2>1, <2>2, <3>1, NotCurrentSlices, Zenon
    <2>3. CASE state' = state BY <2>1, <2>3, SlicesKept, Zenon
    <2> QED BY <2>1, <2>2, <2>3
  <1>4. CASE \E k \in Sched!Crit : Sched!AlterCrit(v, k)
    BY <1>4, SlicesKept, Zenon DEF Sched!AlterCrit, Sched!Here
  <1>5. CASE \E f \in Sched!Frame : Sched!FrameSet(v, f)
    BY <1>5, SlicesKept, Zenon DEF Sched!FrameSet, Sched!Here
  <1> QED BY <1>1, <1>2, <1>3, <1>4, <1>5, Zenon

\* A slice is given: to a vcpu that runs, to itself, to one in an exit handler,
\* or to one that is not current.
LEMMA AlterSlices ==
    ASSUME SliceInv, NEW v \in Vcpu, NEW length, NEW self \in BOOLEAN,
           Sched!AlterSlice(v, length, self)
    PROVE  SliceInv'
  <1> DEFINE wake == left[v] = 0 /\ length # 0
  <1>1. /\ slice' = [slice EXCEPT ![v] = length]
        /\ left' = [left EXCEPT ![v] = IF wake THEN length ELSE left[v]]
        /\ rearm' = [rearm EXCEPT ![v] = rearm[v] \/ (wake /\ (state[v] = "RUNNING" \/ self))]
        /\ missed' = (IF wake /\ state[v] = "TRANSITIONING" /\ ~self
                      THEN missed \cup {v} ELSE missed)
        /\ state' = state /\ yield' = yield /\ current' = current /\ sliceArmed' = sliceArmed
    BY Zenon DEF Sched!AlterSlice
  <1>2. /\ left = [w \in Vcpu |-> left[w]] /\ slice = [w \in Vcpu |-> slice[w]]
        /\ rearm = [w \in Vcpu |-> rearm[w]]
    BY Zenon DEF SliceInv, SliceShape
  <1>3. SliceShape' BY <1>1, <1>2, Zenon DEF SliceInv, SliceShape
  <1>4. CurrentRuns' BY <1>1, Zenon DEF SliceInv, CurrentRuns
  <1>5. /\ left'[v] = (IF wake THEN length ELSE left[v])
        /\ rearm'[v] = (rearm[v] \/ (wake /\ (state[v] = "RUNNING" \/ self)))
        /\ \A w \in Vcpu \ {v} : left'[w] = left[w] /\ rearm'[w] = rearm[w]
    BY <1>1, <1>2, Zenon
  <1>6. ASSUME NEW w \in Vcpu, w \notin missed', current' = w, left'[w] # 0
        PROVE  sliceArmed' \/ yield'[w] \/ rearm'[w]
    <2>0. w \notin missed /\ current = w BY <1>1, <1>6, Zenon
    <2>1. CASE w # v BY <1>1, <1>5, <1>6, <2>0, <2>1, Zenon DEF SliceInv, Sched!SliceEnds
    <2>2. CASE w = v /\ ~wake
      <3>1. left[w] # 0 BY <1>5, <1>6, <2>2, Zenon
      <3>3. sliceArmed \/ yield[w] \/ rearm[w] BY <2>0, <3>1, Zenon DEF SliceInv, Sched!SliceEnds
      <3> QED BY <1>1, <1>5, <2>2, <3>3, Zenon
    <2>3. CASE w = v /\ wake
      <3>1. state[v] \in {"RUNNING", "TRANSITIONING"} BY <2>0, <2>3, Zenon DEF SliceInv, CurrentRuns
      <3>2. state[v] = "RUNNING" \/ self BY <1>1, <1>6, <2>3, <3>1, Zenon
      <3> QED BY <1>5, <2>3, <3>2, Zenon
    <2> QED BY <2>1, <2>2, <2>3
  <1>7. Sched!SliceEnds' BY <1>6, Zenon DEF Sched!SliceEnds
  <1> QED BY <1>3, <1>4, <1>7, Zenon DEF SliceInv

\* No step of the scheduler leaves the invariant.
LEMMA SliceNextInv ==
    ASSUME SchedAssumption, SliceInv, [Sched!Next]_(Sched!vars)
    PROVE  SliceInv'
  <1>1. CASE Sched!IdleLoop BY <1>1, IdleSlices, Zenon
  <1>2. CASE \E v \in Vcpu : Sched!Enter(v) BY <1>2, EnterSlices, Zenon
  <1>3. CASE \E v \in Vcpu : Sched!Unpin(v) \/ Sched!Pin(v) \/ Sched!Yield(v)
    BY <1>3, UnpinSlices, Zenon
  <1>4. CASE \E v \in Vcpu : Sched!Timer(v) BY <1>4, TimerSlices, Zenon
  <1>5. CASE \E v \in Vcpu : Sched!Pause(v) BY <1>5, PauseSlices, Zenon
  <1>6. CASE \E v \in Vcpu, x \in BOOLEAN : Sched!Exit(v, x) BY <1>6, ExitSlices, Zenon
  <1>7. CASE \E v \in Vcpu :
               \/ \E paused \in BOOLEAN : Sched!Create(v, paused)
               \/ Sched!Unpause(v) \/ Sched!Teardown(v)
               \/ \E k \in Sched!Crit : Sched!AlterCrit(v, k)
               \/ \E f \in Sched!Frame : Sched!FrameSet(v, f)
    BY <1>7, RemoteSlices, Zenon
  <1>8. CASE \E v \in Vcpu, length \in Slices, self \in BOOLEAN : Sched!AlterSlice(v, length, self)
    BY <1>8, AlterSlices, Zenon
  <1>9. CASE \E k \in Sched!Crit : Sched!SetLevel(k) BY <1>9, SlicesKept, Zenon DEF Sched!SetLevel
  <1>10. CASE \E f \in Sched!Frame : Sched!FrameUnset(f)
    BY <1>10, SlicesKept, Zenon DEF Sched!FrameUnset, Sched!Here
  <1>11. CASE UNCHANGED Sched!vars BY <1>11, SlicesKept, Zenon DEF Sched!vars
  <1> QED BY <1>1, <1>2, <1>3, <1>4, <1>5, <1>6, <1>7, <1>8, <1>9, <1>10, <1>11, ZenonT(60) DEF Sched!Next

\* The invariant sees the end of each slice.
LEMMA SliceInvHolds ==
    ASSUME SliceInv
    PROVE  Sched!SliceEnds
  BY Zenon DEF SliceInv

\* A current vcpu with a time slice has its end in sight, under both policies
\* and for any number of vcpus, criticalities and frames.
THEOREM SlicesCorrect ==
    ASSUME SchedAssumption
    PROVE  Sched!Spec => []Sched!SliceEnds
  <1>1. Sched!Init => SliceInv BY SliceInitInv
  <1>2. SliceInv /\ [Sched!Next]_(Sched!vars) => SliceInv' BY SliceNextInv, Zenon
  <1>3. SliceInv => Sched!SliceEnds BY SliceInvHolds
  <1> QED BY <1>1, <1>2, <1>3, PTL DEF Sched!Spec

=============================================================================
