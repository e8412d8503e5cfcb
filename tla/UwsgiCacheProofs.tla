-------------------------- MODULE UwsgiCacheProofs --------------------------
(****************************************************************************)
(* Theorems about the shared cache of core/cache.c, for any number of keys, *)
(* items, blocks and readers, and any options: the hash chains, the stack   *)
(* of unused items, the LRU list and the bitmap agree with the items, and   *)
(* the sweeper forgets no expiry.                                           *)
(****************************************************************************)
EXTENDS UwsgiCache, FiniteSetTheorems, SequenceTheorems, TLAPS

------------------------------------------------------------------------------
(* Numbers and recursion.                                                   *)

\* Every non-empty set of numbers has a least one.
LEMMA LeastNumber ==
    ASSUME NEW S \in SUBSET Nat, S # {}
    PROVE Least(S) \in S /\ \A y \in S : Least(S) =< y
<1>1. PICK x \in S : \A y \in S : ~(<<y, x>> \in OpToRel(<, Nat))
  BY NatLessThanWellFounded, WFMin
<1>2. ASSUME NEW y \in S PROVE x =< y
  <2>1. x \in Nat /\ y \in Nat
    OBVIOUS
  <2>2. ~(y < x)
    BY <1>1, <2>1 DEF OpToRel
  <2> QED BY <2>1, <2>2
<1> QED BY <1>2 DEF Least

\* A set that has 0 and every successor of a member has all numbers.
LEMMA AllNumbers ==
    ASSUME NEW T, 0 \in T, \A n \in Nat : n \in T => n + 1 \in T
    PROVE \A n \in Nat : n \in T
<1> SUFFICES ASSUME Nat \ T # {} PROVE FALSE
  OBVIOUS
<1>1. Nat \ T \in SUBSET Nat
  OBVIOUS
<1>2. PICK x \in Nat \ T : \A y \in Nat \ T : x =< y
  BY <1>1, LeastNumber
<1>3. x # 0
  BY <1>2
<1>4. x - 1 \in Nat /\ x - 1 \notin Nat \ T
  BY <1>2, <1>3
<1> QED BY <1>2, <1>4

\* f starts with x and goes on with the functions of g, for m steps.
Iterates(f, x, g, m) ==
    f = [i \in 0..m |-> IF i = 0 THEN x ELSE g[i][f[i - 1]]]

\* The functions for m steps in S.
Tables(S, m) == [1..m -> [S -> S]]

\* There is such an f, whose values are in S when those of g are.
Iterable(S, x, g, m) ==
    \E f \in [0..m -> S] : /\ Iterates(f, x, g, m)
                           /\ f[0] = x /\ \A i \in 1..m : f[i] = g[i][f[i - 1]]

\* A recursion over 0..m has a solution.
LEMMA IterationExists ==
    ASSUME NEW S, NEW x \in S, NEW m \in Nat, NEW g \in Tables(S, m)
    PROVE Iterable(S, x, g, m)
<1> USE DEF Tables
<1> DEFINE T == {n \in Nat : n =< m => \E f \in [0..n -> S] : Iterates(f, x, g, n)}
<1>1. 0 \in T
  <2>1. PICK f : f = [i \in {0} |-> x]
    OBVIOUS
  <2>2. f = [i \in {0} |-> IF i = 0 THEN x ELSE g[i][f[i - 1]]]
    BY <2>1
  <2>3. 0..0 = {0} /\ f \in [{0} -> S]
    BY <2>1
  <2> QED BY <2>2, <2>3 DEF Iterates
<1>2. ASSUME NEW n \in Nat, n \in T PROVE n + 1 \in T
  <2> SUFFICES ASSUME n + 1 =< m PROVE \E h \in [0..(n + 1) -> S] : Iterates(h, x, g, n + 1)
    OBVIOUS
  <2>1. PICK f \in [0..n -> S] : Iterates(f, x, g, n)
    BY <1>2
  <2> DEFINE h == [i \in 0..(n + 1) |-> IF i = 0 THEN x ELSE g[i][f[i - 1]]]
  <2>2. ASSUME NEW i \in 0..n PROVE h[i] = f[i]
    <3>1. f[i] = IF i = 0 THEN x ELSE g[i][f[i - 1]]
      BY <2>1, Zenon DEF Iterates
    <3>2. i \in 0..(n + 1)
      OBVIOUS
    <3> QED BY <3>1, <3>2, Zenon
  <2>3. \A i \in 0..(n + 1) : i # 0 => i - 1 \in 0..n
    OBVIOUS
  <2>4. Iterates(h, x, g, n + 1)
    BY <2>2, <2>3 DEF Iterates
  <2>5. ASSUME NEW i \in 0..(n + 1) PROVE h[i] \in S
    <3>1. i # 0 => i \in 1..m /\ f[i - 1] \in S
      BY <2>3
    <3> QED BY <3>1
  <2>6. h \in [0..(n + 1) -> S]
    BY <2>5
  <2> HIDE DEF h
  <2> QED BY <2>4, <2>6
<1>3. m \in T
  <2> HIDE DEF T
  <2> QED BY <1>1, <1>2, AllNumbers
<1>4. PICK f \in [0..m -> S] : Iterates(f, x, g, m)
  BY <1>3
<1>5. f[0] = x
  <2>1. 0 \in 0..m
    OBVIOUS
  <2> QED BY <1>4, <2>1, Zenon DEF Iterates
<1>6. ASSUME NEW i \in 1..m PROVE f[i] = g[i][f[i - 1]]
  <2>1. i \in 0..m /\ i # 0
    OBVIOUS
  <2> QED BY <1>4, <2>1, Zenon DEF Iterates
<1> QED BY <1>4, <1>5, <1>6 DEF Iterable

------------------------------------------------------------------------------
(* Doubly linked lists over the items.                                      *)

\* The items of S are linked, from head to tail, by nx and pv in the order s.
IsList(S, nx, pv, head, tail, n, s) ==
    /\ n \in Nat /\ s \in [0..(n + 1) -> Items0]
    /\ s[0] = 0 /\ s[n + 1] = 0 /\ s[1] = head /\ s[n] = tail
    /\ \A k \in 1..n : s[k] \in S /\ nx[s[k]] = s[k + 1] /\ pv[s[k]] = s[k - 1]
    /\ \A k, l \in 1..n : s[k] = s[l] => k = l
    /\ \A i \in S : \E k \in 1..n : s[k] = i

\* The items of S are linked in some order.
Linked(S, nx, pv, head, tail) == \E n, s : IsList(S, nx, pv, head, tail, n, s)

\* What the ends of a list and its links are.
Knotted(S, nx, pv, head, tail) ==
    /\ head \in S \cup {0} /\ tail \in S \cup {0}
    /\ head = 0 <=> S = {}
    /\ tail = 0 <=> S = {}
    /\ \A i \in S : /\ nx[i] \in S \cup {0} /\ pv[i] \in S \cup {0}
                    /\ pv[i] = 0 <=> i = head
                    /\ nx[i] = 0 <=> i = tail
                    /\ nx[i] # 0 => pv[nx[i]] = i
                    /\ pv[i] # 0 => nx[pv[i]] = i
                    /\ nx[i] # i /\ pv[i] # i

\* Only the ends have no neighbour, and neighbours point to each other.
LEMMA ListFacts ==
    ASSUME NEW S \in SUBSET Index, NEW nx, NEW pv, NEW head, NEW tail,
           Linked(S, nx, pv, head, tail)
    PROVE Knotted(S, nx, pv, head, tail)
<1>1. PICK n, s : IsList(S, nx, pv, head, tail, n, s)
  BY DEF Linked
<1>2. n \in Nat /\ \A k \in 1..n : s[k] \in S /\ s[k] # 0
  BY <1>1 DEF IsList, Index
<1>3. \A k \in 0..(n + 1) : s[k] \in S \cup {0} /\ (s[k] = 0 <=> k = 0 \/ k = n + 1)
  <2> SUFFICES ASSUME NEW k \in 0..(n + 1)
               PROVE s[k] \in S \cup {0} /\ (s[k] = 0 <=> k = 0 \/ k = n + 1)
    OBVIOUS
  <2>1. CASE k = 0
    BY <1>1, <2>1 DEF IsList
  <2>2. CASE k = n + 1
    BY <1>1, <2>2 DEF IsList
  <2>3. CASE k \in 1..n
    BY <1>2, <2>3
  <2> QED BY <1>2, <2>1, <2>2, <2>3
<1>4. head = s[1] /\ tail = s[n] /\ 1 \in 0..(n + 1) /\ n \in 0..(n + 1)
  BY <1>1, <1>2 DEF IsList
<1>5. S = {} <=> n = 0
  <2>1. n = 0 => S = {}
    BY <1>1 DEF IsList
  <2>2. n # 0 => s[1] \in S
    BY <1>2
  <2> QED BY <2>1, <2>2
<1>6. ASSUME NEW i \in S
      PROVE /\ nx[i] \in S \cup {0} /\ pv[i] \in S \cup {0}
            /\ pv[i] = 0 <=> i = head
            /\ nx[i] = 0 <=> i = tail
            /\ nx[i] # 0 => pv[nx[i]] = i
            /\ pv[i] # 0 => nx[pv[i]] = i
            /\ nx[i] # i /\ pv[i] # i
  <2>1. PICK k \in 1..n : s[k] = i
    BY <1>1 DEF IsList
  <2>2. k \in 0..(n + 1) /\ k + 1 \in 0..(n + 1) /\ k - 1 \in 0..(n + 1)
    BY <1>2
  <2>3. nx[i] = s[k + 1] /\ pv[i] = s[k - 1]
    BY <1>1, <2>1 DEF IsList
  <2>4. nx[i] \in S \cup {0} /\ pv[i] \in S \cup {0} /\ (pv[i] = 0 <=> k = 1) /\ (nx[i] = 0 <=> k = n)
    BY <1>2, <1>3, <2>2, <2>3
  <2>5. \A l \in 1..n : s[l] = i <=> l = k
    BY <1>1, <2>1 DEF IsList
  <2>6. (i = head <=> k = 1) /\ (i = tail <=> k = n)
    <3>1. 1 \in 1..n /\ n \in 1..n
      BY <1>2, <2>1
    <3> QED BY <1>4, <2>5, <3>1
  <2>7. k # n => pv[s[k + 1]] = s[k] /\ s[k + 1] # s[k]
    <3> SUFFICES ASSUME k # n PROVE pv[s[k + 1]] = s[k] /\ s[k + 1] # s[k]
      OBVIOUS
    <3>1. PICK l \in 1..n : l = k + 1 /\ k = l - 1
      BY <1>2
    <3>2. pv[s[l]] = s[l - 1]
      BY <1>1 DEF IsList
    <3>3. s[l] # i
      BY <2>5, <3>1
    <3> QED BY <2>1, <3>1, <3>2, <3>3
  <2>8. k # 1 => nx[s[k - 1]] = s[k] /\ s[k - 1] # s[k]
    <3> SUFFICES ASSUME k # 1 PROVE nx[s[k - 1]] = s[k] /\ s[k - 1] # s[k]
      OBVIOUS
    <3>1. PICK l \in 1..n : l = k - 1 /\ k = l + 1
      BY <1>2
    <3>2. nx[s[l]] = s[l + 1]
      BY <1>1 DEF IsList
    <3>3. s[l] # i
      BY <2>5, <3>1
    <3> QED BY <2>1, <3>1, <3>2, <3>3
  <2>9. i # 0
    BY DEF Index
  <2> QED BY <2>1, <2>3, <2>4, <2>6, <2>7, <2>8, <2>9
<1>7. (head = 0 <=> S = {}) /\ (tail = 0 <=> S = {}) /\ head \in S \cup {0} /\ tail \in S \cup {0}
  BY <1>2, <1>3, <1>4, <1>5
<1> QED BY <1>6, <1>7 DEF Knotted

\* A list stays one as long as its links do.
LEMMA ListFrame ==
    ASSUME NEW S, NEW nx, NEW pv, NEW head, NEW tail, Linked(S, nx, pv, head, tail),
           NEW nx2, NEW pv2, \A i \in S : nx2[i] = nx[i] /\ pv2[i] = pv[i]
    PROVE Linked(S, nx2, pv2, head, tail)
<1>1. PICK n, s : IsList(S, nx, pv, head, tail, n, s)
  BY DEF Linked
<1>2. IsList(S, nx2, pv2, head, tail, n, s)
  BY <1>1 DEF IsList
<1> QED BY <1>2 DEF Linked

\* The empty list.
LEMMA ListEmpty ==
    ASSUME NEW nx, NEW pv
    PROVE Linked({}, nx, pv, 0, 0)
<1>1. PICK s : s = [k \in 0..1 |-> 0]
  OBVIOUS
<1>2. s \in [0..(0 + 1) -> Items0] /\ s[0] = 0 /\ s[1] = 0 /\ s[0 + 1] = 0
  BY <1>1, CacheAssumption DEF Items0
<1>3. IsList({}, nx, pv, 0, 0, 0, s)
  BY <1>2 DEF IsList
<1> QED BY <1>3 DEF Linked

\* An item is taken out: its neighbours are linked with each other.
TakenOut(S, nx, pv, head, tail, i, nx2, pv2, head2, tail2) ==
    /\ \A j \in S \ {i} : nx2[j] = IF j = pv[i] THEN nx[i] ELSE nx[j]
    /\ \A j \in S \ {i} : pv2[j] = IF j = nx[i] THEN pv[i] ELSE pv[j]
    /\ head2 = IF pv[i] = 0 THEN nx[i] ELSE head
    /\ tail2 = IF nx[i] = 0 THEN pv[i] ELSE tail

\* The links that lru_remove_item and the unlinking of a chain write link the others.
LEMMA ListRemove ==
    ASSUME NEW S \in SUBSET Index, NEW nx, NEW pv, NEW head, NEW tail,
           Linked(S, nx, pv, head, tail), NEW i \in S, NEW nx2, NEW pv2, NEW head2, NEW tail2,
           TakenOut(S, nx, pv, head, tail, i, nx2, pv2, head2, tail2)
    PROVE Linked(S \ {i}, nx2, pv2, head2, tail2)
<1> USE DEF TakenOut
<1>1. PICK n, s : IsList(S, nx, pv, head, tail, n, s)
  BY DEF Linked
<1>2. n \in Nat /\ s \in [0..(n + 1) -> Items0] /\ \A k \in 1..n : s[k] \in S /\ s[k] # 0
  BY <1>1 DEF IsList, Index
<1>3. PICK k \in 1..n : s[k] = i
  BY <1>1 DEF IsList
<1>4. PICK m \in Nat : n = m + 1
  <2>1. n # 0 /\ n - 1 \in Nat /\ n = n - 1 + 1
    BY <1>2
  <2> QED BY <2>1
<1>5. nx[i] = s[k + 1] /\ pv[i] = s[k - 1]
  BY <1>1, <1>3 DEF IsList
<1>6. PICK t : t = [j \in 0..(m + 1) |-> IF j < k THEN s[j] ELSE s[j + 1]]
  OBVIOUS
<1>7. /\ \A j \in 0..(m + 1) : j < k => t[j] = s[j]
      /\ \A j \in 0..(m + 1) : ~(j < k) => t[j] = s[j + 1]
  BY <1>6
<1>8. t \in [0..(m + 1) -> Items0]
  BY <1>2, <1>4, <1>6
<1>9. s[0] = 0 /\ s[n + 1] = 0 /\ s[1] = head /\ s[n] = tail
  BY <1>1 DEF IsList
<1>10. t[0] = 0 /\ t[m + 1] = 0
  BY <1>2, <1>4, <1>7, <1>9
<1>11. (pv[i] = 0 <=> k = 1) /\ (nx[i] = 0 <=> k = n)
  <2>1. k # 1 => k - 1 \in 1..n
    BY <1>2
  <2>2. k # n => k + 1 \in 1..n
    BY <1>2
  <2> QED BY <1>2, <1>5, <1>9, <2>1, <2>2
<1>12. t[1] = IF pv[i] = 0 THEN nx[i] ELSE head
  <2>1. CASE k = 1
    BY <1>4, <1>5, <1>7, <1>11, <2>1
  <2>2. CASE k # 1
    <3>1. 1 < k /\ 1 \in 0..(m + 1)
      BY <1>4, <2>2
    <3> QED BY <1>7, <1>9, <1>11, <2>2, <3>1
  <2> QED BY <2>1, <2>2
<1>13. t[m] = IF nx[i] = 0 THEN pv[i] ELSE tail
  <2>1. CASE k = n
    <3>1. m < k /\ m \in 0..(m + 1) /\ m = k - 1
      BY <1>4, <2>1
    <3> QED BY <1>5, <1>7, <1>11, <2>1, <3>1
  <2>2. CASE k # n
    <3>1. ~(m < k) /\ m \in 0..(m + 1) /\ m + 1 = n
      BY <1>4, <2>2
    <3> QED BY <1>7, <1>9, <1>11, <2>2, <3>1
  <2> QED BY <2>1, <2>2
<1>14. ASSUME NEW j \in 1..m
       PROVE t[j] \in S \ {i} /\ nx2[t[j]] = t[j + 1] /\ pv2[t[j]] = t[j - 1]
  <2>1. PICK l \in 1..n : l # k /\ l = (IF j < k THEN j ELSE j + 1)
    BY <1>4
  <2>2. t[j] = s[l]
    BY <1>4, <1>7, <2>1
  <2>3. s[l] \in S \ {i}
    BY <1>1, <1>3, <2>1 DEF IsList
  <2>4. \A x \in 1..n : s[x] = s[l] <=> x = l
    BY <1>1 DEF IsList
  <2>5. nx[s[l]] = s[l + 1] /\ pv[s[l]] = s[l - 1]
    BY <1>1 DEF IsList
  <2>6. s[l] = pv[i] <=> l = k - 1
    <3>1. CASE k = 1
      BY <1>2, <1>11, <3>1
    <3>2. CASE k # 1
      <4>1. k - 1 \in 1..n
        BY <1>2, <3>2
      <4> QED BY <1>5, <2>4, <4>1
    <3> QED BY <3>1, <3>2
  <2>7. s[l] = nx[i] <=> l = k + 1
    <3>1. CASE k = n
      BY <1>2, <1>11, <3>1
    <3>2. CASE k # n
      <4>1. k + 1 \in 1..n
        BY <1>2, <3>2
      <4> QED BY <1>5, <2>4, <4>1
    <3> QED BY <3>1, <3>2
  <2>8. nx2[s[l]] = IF l = k - 1 THEN s[k + 1] ELSE s[l + 1]
    BY <1>5, <2>3, <2>5, <2>6
  <2>9. pv2[s[l]] = IF l = k + 1 THEN s[k - 1] ELSE s[l - 1]
    BY <1>5, <2>3, <2>5, <2>7
  <2>10. t[j + 1] = IF l = k - 1 THEN s[k + 1] ELSE s[l + 1]
    <3>1. CASE j < k
      BY <1>4, <1>7, <2>1, <3>1
    <3>2. CASE ~(j < k)
      <4>1. ~(j + 1 < k) /\ j + 1 \in 0..(m + 1) /\ l = j + 1 /\ l # k - 1
        BY <1>4, <2>1, <3>2
      <4> QED BY <1>7, <4>1
    <3> QED BY <3>1, <3>2
  <2>11. t[j - 1] = IF l = k + 1 THEN s[k - 1] ELSE s[l - 1]
    <3>1. CASE j < k
      <4>1. j - 1 < k /\ j - 1 \in 0..(m + 1) /\ l = j /\ l # k + 1
        BY <1>4, <2>1, <3>1
      <4> QED BY <1>7, <4>1
    <3>2. CASE ~(j < k)
      BY <1>4, <1>7, <2>1, <3>2
    <3> QED BY <3>1, <3>2
  <2> QED BY <2>2, <2>3, <2>8, <2>9, <2>10, <2>11
<1>15. ASSUME NEW j \in 1..m, NEW l \in 1..m, t[j] = t[l] PROVE j = l
  <2>1. PICK x \in 1..n : x = (IF j < k THEN j ELSE j + 1)
    BY <1>4
  <2>2. PICK y \in 1..n : y = (IF l < k THEN l ELSE l + 1)
    BY <1>4
  <2>3. t[j] = s[x] /\ t[l] = s[y]
    BY <1>4, <1>7, <2>1, <2>2
  <2>4. s[x] = s[y]
    BY <1>15, <2>3
  <2>5. x = y
    BY <1>1, <2>4 DEF IsList
  <2> QED BY <2>1, <2>2, <2>5
<1>16. ASSUME NEW x \in S \ {i} PROVE \E j \in 1..m : t[j] = x
  <2>1. PICK l \in 1..n : s[l] = x
    BY <1>1 DEF IsList
  <2>2. l # k
    BY <1>3, <2>1
  <2>3. PICK j \in 1..m : l = IF j < k THEN j ELSE j + 1
    <3>1. CASE l < k
      BY <1>4, <3>1
    <3>2. CASE ~(l < k)
      <4>1. l - 1 \in 1..m /\ ~(l - 1 < k) /\ l = l - 1 + 1
        BY <1>4, <2>2, <3>2
      <4> QED BY <4>1
    <3> QED BY <3>1, <3>2
  <2>4. t[j] = s[l]
    BY <1>4, <1>7, <2>3
  <2> QED BY <2>1, <2>4
<1>17. IsList(S \ {i}, nx2, pv2, head2, tail2, m, t)
  BY <1>8, <1>10, <1>12, <1>13, <1>14, <1>15, <1>16 DEF IsList
<1> QED BY <1>17 DEF Linked

\* An item is put at the end.
PutLast(S, nx, pv, head, tail, i, nx2, pv2, head2) ==
    /\ \A j \in S : nx2[j] = IF j = tail THEN i ELSE nx[j]
    /\ \A j \in S : pv2[j] = pv[j]
    /\ nx2[i] = 0 /\ pv2[i] = tail
    /\ head2 = IF tail = 0 THEN i ELSE head

\* The links that an insertion at the tail writes link the new item too.
LEMMA ListAppend ==
    ASSUME NEW S \in SUBSET Index, NEW nx, NEW pv, NEW head, NEW tail,
           Linked(S, nx, pv, head, tail), NEW i \in Index \ S, NEW nx2, NEW pv2, NEW head2,
           PutLast(S, nx, pv, head, tail, i, nx2, pv2, head2)
    PROVE Linked(S \cup {i}, nx2, pv2, head2, i)
<1> USE DEF PutLast
<1>1. PICK n, s : IsList(S, nx, pv, head, tail, n, s)
  BY DEF Linked
<1>2. n \in Nat /\ s \in [0..(n + 1) -> Items0] /\ \A k \in 1..n : s[k] \in S /\ s[k] # 0
  BY <1>1 DEF IsList, Index
<1>3. s[0] = 0 /\ s[n + 1] = 0 /\ s[1] = head /\ s[n] = tail
  BY <1>1 DEF IsList
<1>4. PICK m \in Nat : m = n + 1
  BY <1>2
<1>5. PICK t : t = [j \in 0..(m + 1) |-> IF j < m THEN s[j] ELSE IF j = m THEN i ELSE 0]
  OBVIOUS
<1>6. /\ \A j \in 0..n : t[j] = s[j]
      /\ t[m] = i /\ t[m + 1] = 0
  BY <1>2, <1>4, <1>5
<1>7. i \in Items0 /\ 0 \in Items0
  BY CacheAssumption DEF Index, Items0
<1>8. t \in [0..(m + 1) -> Items0]
  BY <1>2, <1>4, <1>5, <1>7
<1>9. tail = 0 <=> n = 0
  <2>1. n # 0 => n \in 1..n
    BY <1>2
  <2> QED BY <1>2, <1>3, <2>1
<1>10. t[1] = IF tail = 0 THEN i ELSE head
  <2>1. CASE n = 0
    BY <1>4, <1>6, <1>9, <2>1
  <2>2. CASE n # 0
    <3>1. 1 \in 0..n
      BY <1>2, <2>2
    <3> QED BY <1>3, <1>6, <1>9, <2>2, <3>1
  <2> QED BY <2>1, <2>2
<1>11. t[0] = 0
  BY <1>2, <1>3, <1>6
<1>12. ASSUME NEW j \in 1..m
       PROVE t[j] \in S \cup {i} /\ nx2[t[j]] = t[j + 1] /\ pv2[t[j]] = t[j - 1]
  <2>1. CASE j = m
    <3>1. j - 1 = n /\ n \in 0..n
      BY <1>2, <1>4, <2>1
    <3>2. t[j - 1] = tail
      BY <1>3, <1>6, <3>1
    <3> QED BY <1>6, <2>1, <3>2
  <2>2. CASE j # m
    <3>1. j \in 1..n /\ j \in 0..n /\ j - 1 \in 0..n
      BY <1>2, <1>4, <2>2
    <3>2. t[j] = s[j] /\ t[j - 1] = s[j - 1]
      BY <1>6, <3>1
    <3>3. s[j] \in S /\ nx[s[j]] = s[j + 1] /\ pv[s[j]] = s[j - 1]
      BY <1>1, <3>1 DEF IsList
    <3>4. pv2[s[j]] = s[j - 1]
      BY <3>3
    <3>5. s[j] = tail <=> j = n
      <4>1. n \in 1..n
        BY <1>2, <3>1
      <4> QED BY <1>1, <1>3, <3>1, <4>1 DEF IsList
    <3>6. t[j + 1] = IF j = n THEN i ELSE s[j + 1]
      BY <1>2, <1>4, <1>6, <3>1
    <3> QED BY <3>2, <3>3, <3>4, <3>5, <3>6
  <2> QED BY <2>1, <2>2
<1>13. ASSUME NEW j \in 1..m, NEW l \in 1..m, t[j] = t[l] PROVE j = l
  <2>1. \A x \in 1..m : x # m => x \in 1..n /\ t[x] = s[x] /\ s[x] \in S
    BY <1>2, <1>4, <1>6
  <2>2. CASE j # m /\ l # m
    BY <1>1, <1>13, <2>1, <2>2 DEF IsList
  <2>3. CASE j = m /\ l # m
    BY <1>6, <1>13, <2>1, <2>3
  <2>4. CASE j # m /\ l = m
    BY <1>6, <1>13, <2>1, <2>4
  <2> QED BY <2>2, <2>3, <2>4
<1>14. ASSUME NEW x \in S \cup {i} PROVE \E j \in 1..m : t[j] = x
  <2>1. CASE x = i
    <3>1. m \in 1..m
      BY <1>2, <1>4
    <3> QED BY <1>6, <2>1, <3>1
  <2>2. CASE x \in S
    <3>1. PICK l \in 1..n : s[l] = x
      BY <1>1, <2>2 DEF IsList
    <3>2. l \in 1..m /\ l \in 0..n
      BY <1>2, <1>4
    <3> QED BY <1>6, <3>1, <3>2
  <2> QED BY <2>1, <2>2
<1>15. IsList(S \cup {i}, nx2, pv2, head2, i, m, t)
  BY <1>6, <1>8, <1>10, <1>11, <1>12, <1>13, <1>14 DEF IsList
<1> QED BY <1>15 DEF Linked

\* There are not more places than items.
LEMMA ListLength ==
    ASSUME NEW S \in SUBSET Index, NEW nx, NEW pv, NEW head, NEW tail, NEW n, NEW s,
           IsList(S, nx, pv, head, tail, n, s)
    PROVE /\ n \in Nat /\ n =< MaxItems - 1
          /\ IsFiniteSet(S) /\ n = Cardinality(S)
<1>1. n \in Nat /\ MaxItems \in Nat \ {0}
  BY CacheAssumption DEF IsList
<1>2. IsFiniteSet(Index) /\ Cardinality(Index) = MaxItems - 1
  <2>1. IsFiniteSet(Index)
    BY <1>1, FS_Interval DEF Index
  <2>2. Cardinality(1..(MaxItems - 1)) = IF 1 > MaxItems - 1 THEN 0 ELSE (MaxItems - 1) - 1 + 1
    BY <1>1, FS_Interval
  <2> QED BY <1>1, <2>1, <2>2 DEF Index
<1>3. IsFiniteSet(S) /\ Cardinality(S) =< MaxItems - 1
  BY <1>2, FS_Subset
<1>4. PICK f : f = [k \in 1..n |-> s[k]]
  OBVIOUS
<1>5. f \in [1..n -> S] /\ \A k \in 1..n : f[k] = s[k]
  BY <1>4 DEF IsList
<1>6. \A k, l \in 1..n : f[k] = f[l] => k = l
  BY <1>5 DEF IsList
<1>7. \A i \in S : \E k \in 1..n : f[k] = i
  BY <1>5 DEF IsList
<1>8. f \in Bijection(1..n, S)
  BY <1>5, <1>6, <1>7 DEF Bijection, Injection, IsInjective, Surjection
<1>9. IsFiniteSet(1..n) /\ Cardinality(1..n) = n
  <2>1. Cardinality(1..n) = IF 1 > n THEN 0 ELSE n - 1 + 1
    BY <1>1, FS_Interval
  <2> QED BY <1>1, <2>1, FS_Interval
<1>10. Cardinality(S) = Cardinality(1..n)
  BY <1>8, <1>9, FS_Bijection DEF ExistsBijection
<1> QED BY <1>1, <1>3, <1>9, <1>10

\* A walk of m steps of g that follows s up to place t, and stays there.
Walks(at, m, g, s, t) ==
    /\ at[0] = s[1] /\ \A x \in 1..m : at[x] = g[at[x - 1]]
    /\ \A j \in 1..(t - 1) : g[s[j]] = s[j + 1]
    /\ g[s[t]] = s[t]

\* A walk meets the places of s up to t and then stays at t.
Arrives(at, m, s, t) == \A x \in 0..m : at[x] = s[IF x + 1 < t THEN x + 1 ELSE t]

\* That is what a walk along s does.
LEMMA WalkAlong ==
    ASSUME NEW s, NEW t \in Nat, t >= 1, NEW g, NEW m \in Nat, NEW at, Walks(at, m, g, s, t)
    PROVE Arrives(at, m, s, t)
<1> USE DEF Walks, Arrives
<1> DEFINE T == {x \in Nat : x =< m => at[x] = s[IF x + 1 < t THEN x + 1 ELSE t]}
<1>1. 0 \in T
  <2>1. (IF 0 + 1 < t THEN 0 + 1 ELSE t) = 1
    OBVIOUS
  <2> QED BY <2>1
<1>2. ASSUME NEW x \in Nat, x \in T PROVE x + 1 \in T
  <2> SUFFICES ASSUME x + 1 =< m
               PROVE at[x + 1] = s[IF x + 1 + 1 < t THEN x + 1 + 1 ELSE t]
    OBVIOUS
  <2>1. at[x] = s[IF x + 1 < t THEN x + 1 ELSE t]
    BY <1>2
  <2>2. PICK y \in 1..m : y = x + 1 /\ x = y - 1
    OBVIOUS
  <2>3. at[y] = g[at[x]]
    BY <2>2
  <2>4. CASE y < t
    <3>1. y \in 1..(t - 1) /\ at[x] = s[y]
      BY <2>1, <2>2, <2>4
    <3>2. at[y] = s[y + 1]
      BY <2>3, <3>1
    <3>3. (IF y + 1 < t THEN y + 1 ELSE t) = y + 1
      BY <2>4
    <3> QED BY <2>2, <3>2, <3>3
  <2>5. CASE ~(y < t)
    <3>1. at[x] = s[t]
      BY <2>1, <2>2, <2>5
    <3>2. (IF y + 1 < t THEN y + 1 ELSE t) = t
      BY <2>5
    <3> QED BY <2>2, <2>3, <3>1, <3>2
  <2> QED BY <2>4, <2>5
<1>3. ASSUME NEW x \in 0..m PROVE x \in T
  <2> HIDE DEF T
  <2> QED BY <1>1, <1>2, AllNumbers
<1> QED BY <1>3

------------------------------------------------------------------------------
(* The hash chains.                                                         *)

\* The links, the slots of the hash table, and the items of a chain.
Nexts(d) == [i \in Index |-> d.items[i].next]
Prevs(d) == [i \in Index |-> d.items[i].prev]
LruNexts(d) == [i \in Index |-> d.items[i].lru_next]
LruPrevs(d) == [i \in Index |-> d.items[i].lru_prev]
Slot == 0..(HashSize - 1)
InChain(d, h) == {i \in Used(d) : d.items[i].hash = h}

\* A walk for k along the chain s of h follows it up to place t, where it ends.
Leads(d, k, h, S, tail, n, s, t) ==
    /\ S \in SUBSET Index /\ t \in 1..(n + 1)
    /\ IsList(S, Nexts(d), Prevs(d), d.hashtable[h], tail, n, s)
    /\ \A i \in Index : d.items[i].next \in Items0
    /\ \A j \in 1..(t - 1) : NextInChain(d, k, s[j]) = s[j + 1]
    /\ NextInChain(d, k, s[t]) = s[t]

\* Where a walk along a chain ends.
LEMMA WalkIs ==
    ASSUME NEW d, NEW k, NEW h, NEW S, NEW tail, NEW n, NEW s, NEW t,
           Leads(d, k, h, S, tail, n, s, t)
    PROVE Walk(d, k, h) = s[t]
<1> USE DEF Leads
<1>1. MaxItems \in Nat \ {0}
  BY CacheAssumption
<1>2. n \in Nat /\ n =< MaxItems - 1
  BY ListLength
<1>3. s \in [0..(n + 1) -> Items0] /\ s[1] = d.hashtable[h]
  BY DEF IsList
<1>4. PICK g : g = [a \in Items0 |-> NextInChain(d, k, a)]
  OBVIOUS
<1>5. ASSUME NEW a \in Items0 PROVE NextInChain(d, k, a) \in Items0
  <2>1. a = 0 \/ a \in Index
    BY <1>1 DEF Items0, Index
  <2> QED BY <1>5, <2>1 DEF NextInChain
<1>6. g \in [Items0 -> Items0] /\ \A a \in Items0 : g[a] = NextInChain(d, k, a)
  BY <1>4, <1>5
<1>7. PICK gg : gg = [m \in 1..MaxItems |-> g]
  OBVIOUS
<1>8. gg \in [1..MaxItems -> [Items0 -> Items0]] /\ \A m \in 1..MaxItems : gg[m] = g
  BY <1>6, <1>7
<1>9. PICK x \in Items0 : x = d.hashtable[h]
  <2>1. 1 \in 0..(n + 1)
    BY <1>2
  <2> QED BY <1>3, <2>1
<1>10. PICK f \in [0..MaxItems -> Items0] :
          f[0] = x /\ \A i \in 1..MaxItems : f[i] = gg[i][f[i - 1]]
  <2>1. PICK m \in Nat : m = MaxItems
    BY <1>1
  <2>2. gg \in [1..m -> [Items0 -> Items0]]
    BY <1>8, <2>1
  <2>3. Iterable(Items0, x, gg, m)
    <3>1. gg \in Tables(Items0, m)
      BY <2>2 DEF Tables
    <3> QED BY <3>1, IterationExists
  <2> QED BY <2>1, <2>3 DEF Iterable
<1> DEFINE P(at) == at = [m \in 0..MaxItems |->
                            IF m = 0 THEN d.hashtable[h] ELSE NextInChain(d, k, at[m - 1])]
<1>11. P(f)
  <2>1. ASSUME NEW m \in 0..MaxItems
        PROVE f[m] = IF m = 0 THEN d.hashtable[h] ELSE NextInChain(d, k, f[m - 1])
    <3>1. CASE m = 0
      BY <1>9, <1>10, <3>1
    <3>2. CASE m # 0
      <4>1. m \in 1..MaxItems /\ m - 1 \in 0..MaxItems
        BY <1>1, <3>2
      <4>2. f[m] = g[f[m - 1]] /\ f[m - 1] \in Items0
        BY <1>8, <1>10, <4>1
      <4>3. f[m] = NextInChain(d, k, f[m - 1])
        BY <1>6, <4>2
      <4> QED BY <3>2, <4>3
    <3> QED BY <3>1, <3>2
  <2> QED BY <1>10, <2>1
<1>12. Walk(d, k, h) = (CHOOSE at : P(at))[MaxItems]
  BY DEF Walk
<1>13. \E at : P(at)
  <2> HIDE DEF P
  <2> QED BY <1>11
<1>14. PICK at : at = CHOOSE b : P(b)
  OBVIOUS
<1>15. P(at)
  <2> HIDE DEF P
  <2> QED BY <1>13, <1>14
<1>16. at[0] = s[1]
  <2>1. 0 \in 0..MaxItems
    BY <1>1
  <2>2. at[0] = d.hashtable[h]
    BY <1>15, <2>1, Zenon
  <2> QED BY <1>3, <2>2
<1>17. ASSUME NEW m \in 1..MaxItems PROVE at[m] = NextInChain(d, k, at[m - 1])
  <2>1. m \in 0..MaxItems /\ m # 0
    BY <1>1
  <2> QED BY <1>15, <2>1, Zenon
<1>18. ASSUME NEW m \in 0..MaxItems PROVE at[m] \in Items0
  <2> DEFINE T == {y \in Nat : y =< MaxItems => at[y] \in Items0}
  <2>1. 0 \in T
    <3>1. 1 \in 0..(n + 1)
      BY <1>2
    <3> QED BY <1>3, <1>16, <3>1
  <2>2. ASSUME NEW y \in Nat, y \in T PROVE y + 1 \in T
    <3> SUFFICES ASSUME y + 1 =< MaxItems PROVE at[y + 1] \in Items0
      OBVIOUS
    <3>1. PICK z \in 1..MaxItems : z = y + 1 /\ y = z - 1
      BY <1>1
    <3>2. at[y] \in Items0
      BY <1>1, <2>2, <3>1
    <3>3. at[z] = NextInChain(d, k, at[y])
      BY <1>17, <3>1
    <3> QED BY <1>5, <3>1, <3>2, <3>3
  <2>3. m \in T
    <3> HIDE DEF T
    <3> QED BY <2>1, <2>2, AllNumbers
  <2> QED BY <2>3
<1>19. \A m \in 1..MaxItems : at[m] = g[at[m - 1]]
  <2> SUFFICES ASSUME NEW m \in 1..MaxItems PROVE at[m] = g[at[m - 1]]
    OBVIOUS
  <2>1. m - 1 \in 0..MaxItems
    BY <1>1
  <2>2. at[m - 1] \in Items0
    BY <1>18, <2>1
  <2> QED BY <1>6, <1>17, <2>2
<1>20. \A j \in 0..(n + 1) : s[j] \in Items0
  BY <1>3
<1>21. (\A j \in 1..(t - 1) : g[s[j]] = s[j + 1]) /\ g[s[t]] = s[t]
  <2>1. \A j \in 1..t : j \in 0..(n + 1)
    BY <1>2
  <2> QED BY <1>2, <1>6, <1>20, <2>1
<1>22. \A y \in 0..MaxItems : at[y] = s[IF y + 1 < t THEN y + 1 ELSE t]
  <2> HIDE DEF P
  <2>1. PICK m \in Nat : m = MaxItems
    BY <1>1
  <2>2. \A y \in 1..m : at[y] = g[at[y - 1]]
    BY <1>19, <2>1
  <2>4. Walks(at, m, g, s, t)
    BY <1>16, <1>21, <2>2 DEF Walks
  <2>5. t \in Nat /\ t >= 1
    BY <1>2
  <2>3. Arrives(at, m, s, t)
    BY <2>4, <2>5, WalkAlong
  <2> QED BY <2>1, <2>3 DEF Arrives
<1>23. ~(MaxItems + 1 < t) /\ MaxItems \in 0..MaxItems
  BY <1>1, <1>2
<1>24. at[MaxItems] = s[t]
  BY <1>22, <1>23
<1> QED BY <1>12, <1>14, <1>24

------------------------------------------------------------------------------
(* What the parts of the cache are when they agree.                         *)

\* The types of an item and of the cache.
ItemSet == [key: Key \cup {NoKey}, hash: Slot, size: 0..2, first: 0..Blocks,
            prev: Items0, next: Items0, lru_prev: Items0, lru_next: Items0,
            expires: 0..(2 * MaxTime), abs: BOOLEAN]
CacheSet == [items: [Index -> ItemSet], hashtable: [Slot -> Items0], unused: Seq(Index),
             n_items: Int, bitmap: SUBSET Bits, pos: 0..(Blocks - 1),
             lru_head: Items0, lru_tail: Items0, next_scan: 0..(2 * MaxTime)]

\* The stack has the items that are not used, once.
Stacked(d) ==
    /\ \A x, y \in 1..Len(d.unused) : d.unused[x] = d.unused[y] => x = y
    /\ \A x \in 1..Len(d.unused) : d.unused[x] \notin Used(d)
    /\ \A i \in Index \ Used(d) : \E x \in 1..Len(d.unused) : d.unused[x] = i
    /\ Len(d.unused) + Cardinality(Used(d)) = MaxItems - 1
    /\ d.n_items = Cardinality(Used(d))

\* Keys are stored once, with their hash.
Keyed(d) ==
    /\ \A i \in Used(d) : d.items[i].key \in Key /\ d.items[i].hash = Hash[d.items[i].key]
    /\ \A i, j \in Used(d) : d.items[i].key = d.items[j].key => i = j

\* Each chain links the items of its hash.
ChainIs(d, h, tail) == Linked(InChain(d, h), Nexts(d), Prevs(d), d.hashtable[h], tail)
\* Every chain does.
Chained(d) == \A h \in Slot : \E tail : ChainIs(d, h, tail)

\* The LRU list links the items in use.
Listed(d) == Linked(Used(d), LruNexts(d), LruPrevs(d), d.lru_head, d.lru_tail)

\* The blocks of an item.
RunOf(d, i) == Run(d.items[i].first, d.items[i].size)
\* The blocks beyond the last one.
Padding == {b \in Bits : b >= Blocks}
\* The padding is marked, items are inside the blocks, and an unused item has none.
Padded(d) ==
    /\ Padding \subseteq d.bitmap
    /\ \A i \in Used(d) : RunOf(d, i) \subseteq Bits \ Padding
    /\ \A i \in Index \ Used(d) : d.items[i].size = 0

\* Exactly the blocks of the items are marked, each of one item.
Exact(d) ==
    /\ \A i, j \in Used(d) : i # j => RunOf(d, i) \cap RunOf(d, j) = {}
    /\ d.bitmap = Padding \cup UNION {RunOf(d, i) : i \in Used(d)}

\* What is needed of the constants.
LEMMA Constants ==
    /\ MaxItems \in Nat /\ MaxItems >= 1 /\ HashSize \in Nat /\ HashSize >= 1
    /\ Blocks \in Nat /\ Blocks >= MaxItems /\ ByteSize \in Nat /\ ByteSize >= 1
    /\ MaxTime \in Nat /\ MaxTime >= 1
    /\ Index \subseteq Items0 /\ 0 \in Items0 /\ 0 \notin Index /\ Items0 = Index \cup {0}
    /\ 0 \in Slot /\ NoKey \notin Key /\ \A k \in Key : Hash[k] \in Slot
    /\ IsFiniteSet(Index) /\ Cardinality(Index) = MaxItems - 1
<1>1. MaxItems \in Nat /\ MaxItems >= 1 /\ HashSize \in Nat /\ HashSize >= 1
  BY CacheAssumption
<1>2. IsFiniteSet(Index) /\ Cardinality(Index) = MaxItems - 1
  <2>1. IsFiniteSet(Index)
    BY <1>1, FS_Interval DEF Index
  <2>2. Cardinality(1..(MaxItems - 1)) = IF 1 > MaxItems - 1 THEN 0 ELSE (MaxItems - 1) - 1 + 1
    BY <1>1, FS_Interval
  <2> QED BY <1>1, <2>1, <2>2 DEF Index
<1>3. Index \subseteq Items0 /\ 0 \in Items0 /\ 0 \notin Index /\ Items0 = Index \cup {0} /\ 0 \in Slot
  BY <1>1 DEF Index, Items0, Slot
<1>4. NoKey \notin Key /\ \A k \in Key : Hash[k] \in Slot
  BY CacheAssumption DEF Slot
<1> QED BY <1>1, <1>2, <1>3, <1>4, CacheAssumption

\* The chains are lists over items.
LEMMA ChainTypes ==
    ASSUME NEW d \in CacheSet
    PROVE /\ Used(d) \in SUBSET Index /\ \A h : InChain(d, h) \in SUBSET Index
          /\ \A i \in Index : d.items[i] \in ItemSet /\ d.items[i].next \in Items0
                              /\ d.items[i].hash \in Slot
                              /\ Nexts(d)[i] = d.items[i].next /\ Prevs(d)[i] = d.items[i].prev
                              /\ LruNexts(d)[i] = d.items[i].lru_next
                              /\ LruPrevs(d)[i] = d.items[i].lru_prev
          /\ IsFiniteSet(Used(d)) /\ Cardinality(Used(d)) \in 0..(MaxItems - 1)
<1>1. Used(d) \in SUBSET Index /\ \A h : InChain(d, h) \in SUBSET Index
  BY DEF Used, InChain
<1>2. IsFiniteSet(Used(d)) /\ Cardinality(Used(d)) =< MaxItems - 1
  BY <1>1, Constants, FS_Subset
<1>3. Cardinality(Used(d)) \in Nat
  BY <1>2, FS_CardinalityType
<1>4. \A i \in Index : d.items[i] \in ItemSet /\ d.items[i].next \in Items0 /\ d.items[i].hash \in Slot
  BY DEF CacheSet, ItemSet
<1> QED BY <1>1, <1>2, <1>3, <1>4, Constants DEF Nexts, Prevs, LruNexts, LruPrevs

\* A key is found where it is stored.
LEMMA FindIs ==
    ASSUME NEW d \in CacheSet, Keyed(d), Chained(d), NEW k \in Key
    PROVE /\ Find(d, k) \in Used(d) \cup {0}
          /\ Find(d, k) # 0 => d.items[Find(d, k)].key = k
          /\ \A i \in Used(d) : d.items[i].key = k => Find(d, k) = i
<1>1. PICK h \in Slot : h = Hash[k]
  BY Constants
<1>2. PICK tail, n, s : IsList(InChain(d, h), Nexts(d), Prevs(d), d.hashtable[h], tail, n, s)
  BY DEF Chained, ChainIs, Linked
<1>3. n \in Nat /\ \A j \in 1..n : /\ s[j] \in Used(d) /\ s[j] \in Index /\ s[j] # 0
                                   /\ d.items[s[j]].next = s[j + 1] /\ d.items[s[j]].key # NoKey
  <2>1. n \in Nat /\ \A j \in 1..n : s[j] \in InChain(d, h) /\ Nexts(d)[s[j]] = s[j + 1]
    BY <1>2 DEF IsList
  <2>2. \A i \in InChain(d, h) : i \in Used(d) /\ i \in Index /\ i # 0 /\ d.items[i].key # NoKey
    BY Constants DEF InChain, Used
  <2> QED BY <2>1, <2>2, ChainTypes
<1>4. k # NoKey
  BY Constants
<1>5. \A i \in Index : d.items[i].next \in Items0
  BY ChainTypes
<1>6. ASSUME NEW i \in Used(d), d.items[i].key = k PROVE i \in InChain(d, h)
  BY <1>1, <1>6 DEF InChain, Keyed
<1>9. InChain(d, h) \in SUBSET Index
  BY ChainTypes
<1>7. CASE \E j \in 1..n : d.items[s[j]].key = k
  <2>1. PICK t \in 1..n : d.items[s[t]].key = k
    BY <1>7
  <2>2. ASSUME NEW j \in 1..(t - 1) PROVE NextInChain(d, k, s[j]) = s[j + 1]
    <3>1. j \in 1..n /\ j # t
      BY <1>3
    <3>2. s[j] # s[t]
      BY <1>2, <3>1 DEF IsList
    <3>3. d.items[s[j]].key # k
      BY <1>3, <2>1, <3>1, <3>2 DEF Keyed
    <3> QED BY <1>3, <1>4, <3>1, <3>3 DEF NextInChain
  <2>3. NextInChain(d, k, s[t]) = s[t]
    BY <2>1 DEF NextInChain
  <2>4. t \in 1..(n + 1)
    BY <1>3
  <2>7. Leads(d, k, h, InChain(d, h), tail, n, s, t)
    BY <1>2, <1>5, <1>9, <2>2, <2>3, <2>4 DEF Leads
  <2>5. Walk(d, k, h) = s[t]
    BY <2>7, WalkIs
  <2>6. Find(d, k) = s[t]
    BY <1>1, <2>5 DEF Find
  <2> QED BY <1>3, <2>1, <2>6 DEF Keyed
<1>8. CASE ~\E j \in 1..n : d.items[s[j]].key = k
  <2>1. ASSUME NEW j \in 1..n PROVE NextInChain(d, k, s[j]) = s[j + 1]
    BY <1>3, <1>4, <1>8 DEF NextInChain
  <2>2. s[n + 1] = 0
    BY <1>2 DEF IsList
  <2>3. NextInChain(d, k, s[n + 1]) = s[n + 1]
    BY <2>2 DEF NextInChain
  <2>4. PICK t \in 1..(n + 1) : t = n + 1
    BY <1>3
  <2>8. Leads(d, k, h, InChain(d, h), tail, n, s, t)
    <3>1. \A j \in 1..(t - 1) : j \in 1..n
      BY <1>3, <2>4
    <3> QED BY <1>2, <1>5, <1>9, <2>1, <2>3, <2>4, <3>1 DEF Leads
  <2>5. Walk(d, k, h) = s[t]
    BY <2>8, WalkIs
  <2>6. Find(d, k) = 0
    BY <1>1, <2>2, <2>4, <2>5 DEF Find
  <2>7. \A i \in Used(d) : d.items[i].key # k
    BY <1>2, <1>6, <1>8 DEF IsList
  <2> QED BY <2>6, <2>7
<1> QED BY <1>7, <1>8

\* The walk to the end of a chain, all or some of whose items are linked.
LEMMA ChainEndIs ==
    ASSUME NEW d \in CacheSet, NEW h \in Slot, NEW S \in SUBSET InChain(d, h), NEW tail,
           Linked(S, Nexts(d), Prevs(d), d.hashtable[h], tail), d.hashtable[h] # 0
    PROVE ChainEnd(d, h) = tail
<1>2. PICK n, s : IsList(S, Nexts(d), Prevs(d), d.hashtable[h], tail, n, s)
  BY DEF Linked
<1>3. n \in Nat /\ \A j \in 1..n : /\ s[j] \in Index /\ s[j] # 0
                                   /\ d.items[s[j]].next = s[j + 1] /\ d.items[s[j]].key # NoKey
  <2>1. n \in Nat /\ \A j \in 1..n : s[j] \in S /\ Nexts(d)[s[j]] = s[j + 1]
    BY <1>2 DEF IsList
  <2>2. \A i \in S : i \in Index /\ i # 0 /\ d.items[i].key # NoKey
    BY Constants DEF InChain, Used
  <2> QED BY <2>1, <2>2, ChainTypes
<1>4. s[n] = tail /\ s[n + 1] = 0 /\ s[1] # 0
  BY <1>2 DEF IsList
<1>5. n # 0
  BY <1>4
<1>6. ASSUME NEW j \in 1..(n - 1) PROVE NextInChain(d, NoKey, s[j]) = s[j + 1]
  <2>1. j \in 1..n /\ j + 1 \in 1..n
    BY <1>3
  <2> QED BY <1>3, <2>1 DEF NextInChain
<1>7. n \in 1..n /\ n \in 1..(n + 1)
  BY <1>3, <1>5
<1>8. NextInChain(d, NoKey, s[n]) = s[n]
  BY <1>3, <1>4, <1>7 DEF NextInChain
<1>9. Walk(d, NoKey, h) = s[n]
  <2>1. S \in SUBSET Index /\ \A i \in Index : d.items[i].next \in Items0
    BY ChainTypes
  <2>2. Leads(d, NoKey, h, S, tail, n, s, n)
    BY <1>2, <1>6, <1>7, <1>8, <2>1 DEF Leads
  <2> QED BY <2>2, WalkIs
<1> QED BY <1>4, <1>9 DEF ChainEnd

------------------------------------------------------------------------------
(* What the writes to links change.                                         *)

\* The frames: what a write leaves alone, the contents of the items, ...
SameBody(new, d) ==
    \A j \in Index : /\ new.items[j].key = d.items[j].key
                     /\ new.items[j].hash = d.items[j].hash
                     /\ new.items[j].size = d.items[j].size
                     /\ new.items[j].first = d.items[j].first
                     /\ new.items[j].expires = d.items[j].expires
                     /\ new.items[j].abs = d.items[j].abs

\* ... the chains, ...
SameChains(new, d) ==
    /\ \A j \in Index : new.items[j].next = d.items[j].next /\ new.items[j].prev = d.items[j].prev
    /\ new.hashtable = d.hashtable

\* ... the LRU list, ...
SameLru(new, d) ==
    /\ \A j \in Index : /\ new.items[j].lru_next = d.items[j].lru_next
                        /\ new.items[j].lru_prev = d.items[j].lru_prev
    /\ new.lru_head = d.lru_head /\ new.lru_tail = d.lru_tail

\* ... the bitmap, and the stack.
SameBlocks(new, d) == new.bitmap = d.bitmap /\ new.pos = d.pos
SameStack(new, d) == new.unused = d.unused /\ new.n_items = d.n_items

\* Only links of chains, or of the LRU list, have been written.
OnlyChains(new, d) ==
    /\ new \in CacheSet /\ SameBody(new, d) /\ SameLru(new, d) /\ SameBlocks(new, d)
    /\ SameStack(new, d) /\ new.next_scan = d.next_scan

OnlyLru(new, d) ==
    /\ new \in CacheSet /\ SameBody(new, d) /\ SameChains(new, d) /\ SameBlocks(new, d)
    /\ SameStack(new, d) /\ new.next_scan = d.next_scan

\* A write to an item.
Rewritten(new, d, n, y) ==
    /\ new \in CacheSet
    /\ \A j \in Index : new.items[j] = IF j = n THEN y ELSE d.items[j]
    /\ new.hashtable = d.hashtable /\ SameBlocks(new, d) /\ SameStack(new, d)
    /\ new.lru_head = d.lru_head /\ new.lru_tail = d.lru_tail /\ new.next_scan = d.next_scan

\* A write to an item changes no other.
LEMMA ItemWritten ==
    ASSUME NEW d \in CacheSet, NEW n \in Index, NEW y \in ItemSet, NEW new,
           new = [d EXCEPT !.items[n] = y]
    PROVE Rewritten(new, d, n, y)
<1>1. d.items \in [Index -> ItemSet]
  BY DEF CacheSet
<1>2. PICK its \in [Index -> ItemSet] : its = [d.items EXCEPT ![n] = y]
  BY <1>1
<1>3. \A j \in Index : its[j] = IF j = n THEN y ELSE d.items[j]
  BY <1>1, <1>2
<1>4. new = [d EXCEPT !.items = its]
  BY <1>2
<1>5. new \in CacheSet /\ new.items = its
  BY <1>4 DEF CacheSet
<1>6. /\ new.hashtable = d.hashtable /\ SameBlocks(new, d) /\ SameStack(new, d)
      /\ new.lru_head = d.lru_head /\ new.lru_tail = d.lru_tail /\ new.next_scan = d.next_scan
  BY <1>4 DEF CacheSet, SameBlocks, SameStack
<1> QED BY <1>3, <1>5, <1>6 DEF Rewritten

\* Item n points to p as its prev, and nothing else changes.
PrevIs(new, d, n, p) ==
    /\ OnlyChains(new, d) /\ new.hashtable = d.hashtable
    /\ \A j \in Index : /\ new.items[j].next = d.items[j].next
                        /\ new.items[j].prev = IF j = n THEN p ELSE d.items[j].prev

\* Writing prev keeps the type, and all other fields.
LEMMA SetPrev ==
    ASSUME NEW d \in CacheSet, NEW n \in Index, NEW p \in Items0, NEW new,
           new = [d EXCEPT !.items[n].prev = p]
    PROVE PrevIs(new, d, n, p)
<1>1. PICK x \in ItemSet : x = d.items[n]
  BY DEF CacheSet
<1>2. PICK y : y = [x EXCEPT !.prev = p]
  OBVIOUS
<1>3. /\ y \in ItemSet /\ y.prev = p /\ y.next = x.next /\ y.key = x.key /\ y.hash = x.hash
      /\ y.size = x.size /\ y.first = x.first /\ y.expires = x.expires /\ y.abs = x.abs
      /\ y.lru_next = x.lru_next /\ y.lru_prev = x.lru_prev
  BY <1>2 DEF ItemSet
<1>4. new = [d EXCEPT !.items[n] = y]
  BY <1>1, <1>2
<1>5. Rewritten(new, d, n, y)
  BY <1>3, <1>4, ItemWritten
<1>6. SameBody(new, d)
  BY <1>1, <1>3, <1>5 DEF SameBody, Rewritten
<1>7. SameLru(new, d)
  BY <1>1, <1>3, <1>5 DEF SameLru, Rewritten
<1> QED BY <1>1, <1>3, <1>5, <1>6, <1>7 DEF OnlyChains, Rewritten, PrevIs

\* Item n points to p as its next, and nothing else changes.
NextIs(new, d, n, p) ==
    /\ OnlyChains(new, d) /\ new.hashtable = d.hashtable
    /\ \A j \in Index : /\ new.items[j].prev = d.items[j].prev
                        /\ new.items[j].next = IF j = n THEN p ELSE d.items[j].next

\* Writing next keeps the type, and all other fields.
LEMMA SetNext ==
    ASSUME NEW d \in CacheSet, NEW n \in Index, NEW p \in Items0, NEW new,
           new = [d EXCEPT !.items[n].next = p]
    PROVE NextIs(new, d, n, p)
<1>1. PICK x \in ItemSet : x = d.items[n]
  BY DEF CacheSet
<1>2. PICK y : y = [x EXCEPT !.next = p]
  OBVIOUS
<1>3. /\ y \in ItemSet /\ y.next = p /\ y.prev = x.prev /\ y.key = x.key /\ y.hash = x.hash
      /\ y.size = x.size /\ y.first = x.first /\ y.expires = x.expires /\ y.abs = x.abs
      /\ y.lru_next = x.lru_next /\ y.lru_prev = x.lru_prev
  BY <1>2 DEF ItemSet
<1>4. new = [d EXCEPT !.items[n] = y]
  BY <1>1, <1>2
<1>5. Rewritten(new, d, n, y)
  BY <1>3, <1>4, ItemWritten
<1>6. SameBody(new, d)
  BY <1>1, <1>3, <1>5 DEF SameBody, Rewritten
<1>7. SameLru(new, d)
  BY <1>1, <1>3, <1>5 DEF SameLru, Rewritten
<1> QED BY <1>1, <1>3, <1>5, <1>6, <1>7 DEF OnlyChains, Rewritten, NextIs


\* Item n points to p as its lru_prev, and nothing else changes.
LruPrevIs(new, d, n, p) ==
    /\ OnlyLru(new, d) /\ new.lru_head = d.lru_head /\ new.lru_tail = d.lru_tail
    /\ \A j \in Index : /\ new.items[j].lru_next = d.items[j].lru_next
                        /\ new.items[j].lru_prev = IF j = n THEN p ELSE d.items[j].lru_prev

\* Writing lru_prev keeps the type, and all other fields.
LEMMA SetLruPrev ==
    ASSUME NEW d \in CacheSet, NEW n \in Index, NEW p \in Items0, NEW new,
           new = [d EXCEPT !.items[n].lru_prev = p]
    PROVE LruPrevIs(new, d, n, p)
<1>1. PICK x \in ItemSet : x = d.items[n]
  BY DEF CacheSet
<1>2. PICK y : y = [x EXCEPT !.lru_prev = p]
  OBVIOUS
<1>3. /\ y \in ItemSet /\ y.lru_prev = p /\ y.lru_next = x.lru_next /\ y.key = x.key /\ y.hash = x.hash
      /\ y.size = x.size /\ y.first = x.first /\ y.expires = x.expires /\ y.abs = x.abs
      /\ y.next = x.next /\ y.prev = x.prev
  BY <1>2 DEF ItemSet
<1>4. new = [d EXCEPT !.items[n] = y]
  BY <1>1, <1>2
<1>5. Rewritten(new, d, n, y)
  BY <1>3, <1>4, ItemWritten
<1>6. SameBody(new, d)
  BY <1>1, <1>3, <1>5 DEF SameBody, Rewritten
<1>7. SameChains(new, d)
  BY <1>1, <1>3, <1>5 DEF SameChains, Rewritten
<1> QED BY <1>1, <1>3, <1>5, <1>6, <1>7 DEF OnlyLru, Rewritten, LruPrevIs


\* Item n points to p as its lru_next, and nothing else changes.
LruNextIs(new, d, n, p) ==
    /\ OnlyLru(new, d) /\ new.lru_head = d.lru_head /\ new.lru_tail = d.lru_tail
    /\ \A j \in Index : /\ new.items[j].lru_prev = d.items[j].lru_prev
                        /\ new.items[j].lru_next = IF j = n THEN p ELSE d.items[j].lru_next

\* Writing lru_next keeps the type, and all other fields.
LEMMA SetLruNext ==
    ASSUME NEW d \in CacheSet, NEW n \in Index, NEW p \in Items0, NEW new,
           new = [d EXCEPT !.items[n].lru_next = p]
    PROVE LruNextIs(new, d, n, p)
<1>1. PICK x \in ItemSet : x = d.items[n]
  BY DEF CacheSet
<1>2. PICK y : y = [x EXCEPT !.lru_next = p]
  OBVIOUS
<1>3. /\ y \in ItemSet /\ y.lru_next = p /\ y.lru_prev = x.lru_prev /\ y.key = x.key /\ y.hash = x.hash
      /\ y.size = x.size /\ y.first = x.first /\ y.expires = x.expires /\ y.abs = x.abs
      /\ y.next = x.next /\ y.prev = x.prev
  BY <1>2 DEF ItemSet
<1>4. new = [d EXCEPT !.items[n] = y]
  BY <1>1, <1>2
<1>5. Rewritten(new, d, n, y)
  BY <1>3, <1>4, ItemWritten
<1>6. SameBody(new, d)
  BY <1>1, <1>3, <1>5 DEF SameBody, Rewritten
<1>7. SameChains(new, d)
  BY <1>1, <1>3, <1>5 DEF SameChains, Rewritten
<1> QED BY <1>1, <1>3, <1>5, <1>6, <1>7 DEF OnlyLru, Rewritten, LruNextIs


\* A write to the hash table.
EntryIs(new, d, h, p) ==
    /\ OnlyChains(new, d) /\ new.hashtable = [d.hashtable EXCEPT ![h] = p]
    /\ \A j \in Index : /\ new.items[j].next = d.items[j].next
                        /\ new.items[j].prev = d.items[j].prev

\* Writing an entry of the hash table keeps the type and all else.
LEMMA SetEntry ==
    ASSUME NEW d \in CacheSet, NEW h \in Slot, NEW p \in Items0, NEW new,
           new = [d EXCEPT !.hashtable[h] = p]
    PROVE EntryIs(new, d, h, p)
<1>1. PICK t \in [Slot -> Items0] : t = [d.hashtable EXCEPT ![h] = p]
  BY DEF CacheSet
<1>2. new = [d EXCEPT !.hashtable = t]
  BY <1>1
<1>3. new \in CacheSet /\ new.hashtable = t /\ new.items = d.items
  BY <1>2 DEF CacheSet
<1>4. SameBlocks(new, d) /\ SameStack(new, d) /\ new.next_scan = d.next_scan
  BY <1>2 DEF CacheSet, SameBlocks, SameStack
<1>5. new.lru_head = d.lru_head /\ new.lru_tail = d.lru_tail
  BY <1>2 DEF CacheSet
<1>6. SameBody(new, d) /\ SameLru(new, d)
  BY <1>3, <1>5 DEF SameBody, SameLru
<1> QED BY <1>1, <1>3, <1>4, <1>6 DEF OnlyChains, EntryIs

\* A write to the ends of the LRU list.
EndsAre(new, d, head, tail) ==
    /\ OnlyLru(new, d) /\ new.lru_head = head /\ new.lru_tail = tail
    /\ \A j \in Index : /\ new.items[j].lru_next = d.items[j].lru_next
                        /\ new.items[j].lru_prev = d.items[j].lru_prev

\* Writing lru_head or lru_tail keeps the type and all else.
LEMMA SetEnds ==
    ASSUME NEW d \in CacheSet, NEW p \in Items0, NEW head, NEW tail, NEW new,
           \/ new = [d EXCEPT !.lru_head = p] /\ head = p /\ tail = d.lru_tail
           \/ new = [d EXCEPT !.lru_tail = p] /\ tail = p /\ head = d.lru_head
    PROVE EndsAre(new, d, head, tail)
<1>1. new \in CacheSet /\ new.items = d.items
  BY DEF CacheSet
<1>2. SameBlocks(new, d) /\ SameStack(new, d) /\ new.next_scan = d.next_scan /\ new.hashtable = d.hashtable
  BY DEF CacheSet, SameBlocks, SameStack
<1>3. SameBody(new, d) /\ SameChains(new, d)
  BY <1>1, <1>2 DEF SameBody, SameChains
<1>4. new.lru_head = head /\ new.lru_tail = tail
  BY DEF CacheSet
<1> QED BY <1>1, <1>2, <1>3, <1>4 DEF OnlyLru, EndsAre

\* The frames compose.
LEMMA OnlyChainsTwice ==
    ASSUME NEW a, NEW b, NEW e, OnlyChains(b, a), OnlyChains(e, b)
    PROVE OnlyChains(e, a)
BY DEF OnlyChains, SameBody, SameLru, SameBlocks, SameStack

\* Two writes to the LRU list are one.
LEMMA OnlyLruTwice ==
    ASSUME NEW a, NEW b, NEW e, OnlyLru(b, a), OnlyLru(e, b)
    PROVE OnlyLru(e, a)
BY DEF OnlyLru, SameBody, SameChains, SameBlocks, SameStack

------------------------------------------------------------------------------
(* Leaving and entering the lists.                                          *)

\* The lists without i.
ChainedBut(d, i) ==
    \A h \in Slot : \E tail :
        Linked(InChain(d, h) \ {i}, Nexts(d), Prevs(d), d.hashtable[h], tail)
\* The LRU list without i.
ListedBut(d, i) == Linked(Used(d) \ {i}, LruNexts(d), LruPrevs(d), d.lru_head, d.lru_tail)

\* What Unlink writes.
LEMMA UnlinkWrites ==
    ASSUME NEW d \in CacheSet, NEW i \in Index, NEW p, NEW n, NEW h, NEW new,
           p = d.items[i].prev, n = d.items[i].next, h = d.items[i].hash, new = Unlink(d, i)
    PROVE /\ OnlyChains(new, d)
          /\ p \in Items0 /\ n \in Items0 /\ h \in Slot
          /\ new.hashtable = IF p = 0 THEN [d.hashtable EXCEPT ![h] = n] ELSE d.hashtable
          /\ \A j \in Index : /\ new.items[j].next = IF j = p THEN n ELSE d.items[j].next
                              /\ new.items[j].prev = IF j = n THEN p ELSE d.items[j].prev
<1>1. p \in Items0 /\ n \in Items0 /\ h \in Slot
  BY DEF CacheSet, ItemSet
<1>2. PICK d1 : d1 = IF p # 0 THEN [d EXCEPT !.items[p].next = n] ELSE [d EXCEPT !.hashtable[h] = n]
  OBVIOUS
<1>3. PICK d2 : d2 = IF n # 0 THEN [d1 EXCEPT !.items[n].prev = p] ELSE d1
  OBVIOUS
<1>4. new = IF p = 0 /\ n = 0 THEN [d2 EXCEPT !.hashtable[h] = 0] ELSE d2
  BY <1>2, <1>3 DEF Unlink
<1>5. /\ OnlyChains(d1, d) /\ d1.hashtable = IF p = 0 THEN [d.hashtable EXCEPT ![h] = n] ELSE d.hashtable
      /\ \A j \in Index : /\ d1.items[j].next = IF j = p THEN n ELSE d.items[j].next
                          /\ d1.items[j].prev = d.items[j].prev
  <2>1. CASE p = 0
    <3>1. d1 = [d EXCEPT !.hashtable[h] = n] /\ 0 \notin Index
      BY <1>2, <2>1, Constants
    <3>2. EntryIs(d1, d, h, n)
      BY <1>1, <3>1, SetEntry
    <3> QED BY <2>1, <3>1, <3>2 DEF EntryIs
  <2>2. CASE p # 0
    <3>1. d1 = [d EXCEPT !.items[p].next = n] /\ p \in Index
      BY <1>1, <1>2, <2>2, Constants
    <3>2. NextIs(d1, d, p, n)
      BY <1>1, <3>1, SetNext
    <3> QED BY <2>2, <3>2 DEF NextIs
  <2> QED BY <2>1, <2>2
<1>6. d1 \in CacheSet
  BY <1>5 DEF OnlyChains
<1>7. /\ OnlyChains(d2, d1) /\ d2.hashtable = d1.hashtable
      /\ \A j \in Index : /\ d2.items[j].next = d1.items[j].next
                          /\ d2.items[j].prev = IF j = n THEN p ELSE d1.items[j].prev
  <2>1. CASE n = 0
    <3>1. d2 = d1 /\ 0 \notin Index
      BY <1>3, <2>1, Constants
    <3> QED BY <1>6, <2>1, <3>1 DEF OnlyChains, SameBody, SameLru, SameBlocks, SameStack
  <2>2. CASE n # 0
    <3>1. d2 = [d1 EXCEPT !.items[n].prev = p] /\ n \in Index
      BY <1>1, <1>3, <2>2, Constants
    <3>2. PrevIs(d2, d1, n, p)
      BY <1>1, <1>6, <3>1, SetPrev
    <3> QED BY <3>2 DEF PrevIs
  <2> QED BY <2>1, <2>2
<1>8. OnlyChains(d2, d) /\ d2 \in CacheSet
  BY <1>5, <1>7, OnlyChainsTwice DEF OnlyChains
<1>9. CASE p = 0 /\ n = 0
  <2>1. new = [d2 EXCEPT !.hashtable[h] = 0] /\ 0 \in Items0
    BY <1>4, <1>9, Constants
  <2>5. EntryIs(new, d2, h, 0)
    BY <1>1, <1>8, <2>1, SetEntry
  <2>2. /\ OnlyChains(new, d2) /\ new.hashtable = [d2.hashtable EXCEPT ![h] = 0]
        /\ \A j \in Index : /\ new.items[j].next = d2.items[j].next
                            /\ new.items[j].prev = d2.items[j].prev
    BY <2>5 DEF EntryIs
  <2>3. OnlyChains(new, d)
    BY <1>8, <2>2, OnlyChainsTwice
  <2>4. new.hashtable = [d.hashtable EXCEPT ![h] = n]
    <3>1. new.hashtable = [[d.hashtable EXCEPT ![h] = n] EXCEPT ![h] = n]
      BY <1>5, <1>7, <1>9, <2>2
    <3> QED BY <3>1
  <2> QED BY <1>1, <1>5, <1>7, <1>9, <2>2, <2>3, <2>4
<1>10. CASE ~(p = 0 /\ n = 0)
  BY <1>1, <1>4, <1>5, <1>7, <1>8, <1>10
<1> QED BY <1>9, <1>10

\* After it the chains link all items but i.
LEMMA UnlinkLeaves ==
    ASSUME NEW d \in CacheSet, Chained(d), NEW i \in Used(d), NEW new, new = Unlink(d, i)
    PROVE OnlyChains(new, d) /\ ChainedBut(new, i)
<1>1. i \in Index
  BY DEF Used
<1>2. PICK p, n, h : p = d.items[i].prev /\ n = d.items[i].next /\ h = d.items[i].hash
  OBVIOUS
<1>3. /\ OnlyChains(new, d)
      /\ p \in Items0 /\ n \in Items0 /\ h \in Slot
      /\ new.hashtable = IF p = 0 THEN [d.hashtable EXCEPT ![h] = n] ELSE d.hashtable
      /\ \A j \in Index : /\ new.items[j].next = IF j = p THEN n ELSE d.items[j].next
                          /\ new.items[j].prev = IF j = n THEN p ELSE d.items[j].prev
  BY <1>1, <1>2, UnlinkWrites
<1>4. new \in CacheSet /\ \A g : InChain(new, g) = InChain(d, g)
  BY <1>3 DEF OnlyChains, SameBody, InChain, Used
<1>5. ASSUME NEW j \in Index
      PROVE /\ Nexts(new)[j] = IF j = p THEN n ELSE Nexts(d)[j]
            /\ Prevs(new)[j] = IF j = n THEN p ELSE Prevs(d)[j]
  BY <1>3, <1>4, ChainTypes
<1>6. i \in InChain(d, h) /\ Prevs(d)[i] = p /\ Nexts(d)[i] = n
  BY <1>1, <1>2, ChainTypes DEF InChain
<1>7. PICK S \in SUBSET Index : S = InChain(d, h)
  BY ChainTypes
<1>8. PICK tail : Linked(S, Nexts(d), Prevs(d), d.hashtable[h], tail)
  BY <1>3, <1>7 DEF Chained, ChainIs
<1>9. p \in S \cup {0} /\ n \in S \cup {0}
  <2>1. Knotted(S, Nexts(d), Prevs(d), d.hashtable[h], tail)
    BY <1>8, ListFacts
  <2> QED BY <1>6, <1>7, <2>1 DEF Knotted
<1>10. new.hashtable[h] = IF p = 0 THEN n ELSE d.hashtable[h]
  BY <1>3 DEF CacheSet
<1>11. \E t : Linked(InChain(new, h) \ {i}, Nexts(new), Prevs(new), new.hashtable[h], t)
  <2>1. \A j \in S \ {i} : /\ Nexts(new)[j] = IF j = Prevs(d)[i] THEN Nexts(d)[i] ELSE Nexts(d)[j]
                           /\ Prevs(new)[j] = IF j = Nexts(d)[i] THEN Prevs(d)[i] ELSE Prevs(d)[j]
    BY <1>5, <1>6
  <2>2. PICK nx, pv : nx = Nexts(new) /\ pv = Prevs(new)
    OBVIOUS
  <2>3. PICK nx0, pv0 : nx0 = Nexts(d) /\ pv0 = Prevs(d)
    OBVIOUS
  <2>4. PICK head : head = d.hashtable[h]
    OBVIOUS
  <2>5. PICK head2 : head2 = new.hashtable[h]
    OBVIOUS
  <2>6. PICK tail2 : tail2 = IF nx0[i] = 0 THEN pv0[i] ELSE tail
    OBVIOUS
  <2>7. TakenOut(S, nx0, pv0, head, tail, i, nx, pv, head2, tail2)
    BY <1>6, <1>10, <2>1, <2>2, <2>3, <2>4, <2>5, <2>6 DEF TakenOut
  <2>8. Linked(S \ {i}, nx, pv, head2, tail2)
    BY <1>6, <1>7, <1>8, <2>3, <2>4, <2>7, ListRemove
  <2> QED BY <1>4, <1>7, <2>2, <2>5, <2>8
<1>12. ASSUME NEW g \in Slot, g # h
       PROVE \E t : Linked(InChain(new, g) \ {i}, Nexts(new), Prevs(new), new.hashtable[g], t)
  <2>1. PICK t : Linked(InChain(d, g), Nexts(d), Prevs(d), d.hashtable[g], t)
    BY DEF Chained, ChainIs
  <2>2. \A j \in InChain(d, g) : j \in Index /\ j \notin S
    BY <1>7, <1>12 DEF InChain, Used
  <2>3. 0 \notin Index
    BY Constants
  <2>4. \A j \in InChain(d, g) : Nexts(new)[j] = Nexts(d)[j] /\ Prevs(new)[j] = Prevs(d)[j]
    BY <1>5, <1>9, <2>2, <2>3
  <2>5. PICK nx, pv : nx = Nexts(new) /\ pv = Prevs(new)
    OBVIOUS
  <2>6. Linked(InChain(d, g), nx, pv, d.hashtable[g], t)
    BY <2>1, <2>4, <2>5, ListFrame
  <2>7. InChain(new, g) \ {i} = InChain(d, g)
    BY <1>4, <1>6, <1>7, <2>2
  <2>8. new.hashtable[g] = d.hashtable[g]
    BY <1>3, <1>12 DEF CacheSet
  <2> QED BY <2>5, <2>6, <2>7, <2>8
<1> QED BY <1>3, <1>11, <1>12 DEF ChainedBut

\* A used item without links is put last in its chain.
LEMMA LinkEnters ==
    ASSUME NEW d \in CacheSet, NEW i \in Used(d), ChainedBut(d, i),
           d.items[i].next = 0, d.items[i].prev = 0, NEW new, new = Link(d, i)
    PROVE OnlyChains(new, d) /\ Chained(new)
<1>1. i \in Index /\ i # 0 /\ i \in Items0 /\ 0 \notin Index
  BY Constants DEF Used
<1>2. PICK h \in Slot : h = d.items[i].hash
  BY <1>1, ChainTypes
<1>3. PICK S \in SUBSET Index : S = InChain(d, h) \ {i}
  BY ChainTypes
<1>4. PICK tail : Linked(S, Nexts(d), Prevs(d), d.hashtable[h], tail)
  BY <1>3 DEF ChainedBut
<1>5. PICK head : head = d.hashtable[h]
  OBVIOUS
<1>6. Knotted(S, Nexts(d), Prevs(d), head, tail)
  BY <1>4, <1>5, ListFacts
<1>7. tail \in S \cup {0} /\ (head = 0 <=> tail = 0)
  BY <1>6 DEF Knotted
<1>8. PICK nx, pv : nx = Nexts(new) /\ pv = Prevs(new)
  OBVIOUS
<1>9. PICK nx0, pv0 : nx0 = Nexts(d) /\ pv0 = Prevs(d)
  OBVIOUS
<1>10. nx0[i] = 0 /\ pv0[i] = 0
  BY <1>1, <1>9, ChainTypes
<1>11. /\ OnlyChains(new, d) /\ new.hashtable = IF head = 0 THEN [d.hashtable EXCEPT ![h] = i] ELSE d.hashtable
       /\ \A j \in Index : nx[j] = IF j = tail THEN i ELSE nx0[j]
       /\ \A j \in Index : pv[j] = IF j = i THEN tail ELSE pv0[j]
  <2>1. CASE head = 0
    <3>1. new = [d EXCEPT !.hashtable[h] = i]
      BY <1>2, <1>5, <2>1 DEF Link
    <3>2. EntryIs(new, d, h, i)
      BY <1>1, <3>1, SetEntry
    <3>3. new \in CacheSet
      BY <3>2 DEF EntryIs, OnlyChains
    <3>4. \A j \in Index : nx[j] = nx0[j] /\ pv[j] = pv0[j]
      BY <1>8, <1>9, <3>2, <3>3, ChainTypes DEF EntryIs
    <3> QED BY <1>1, <1>7, <1>10, <2>1, <3>2, <3>4 DEF EntryIs
  <2>2. CASE head # 0
    <3>0. S \in SUBSET InChain(d, h)
      BY <1>3
    <3>1. ChainEnd(d, h) = tail
      BY <1>4, <1>5, <2>2, <3>0, ChainEndIs
    <3>2. new = [d EXCEPT !.items[tail].next = i, !.items[i].prev = tail]
      BY <1>2, <1>5, <2>2, <3>1 DEF Link, LinkAfter
    <3>3. tail \in Index /\ tail \in Items0
      BY <1>7, <2>2, Constants
    <3>4. PICK d1 : d1 = [d EXCEPT !.items[tail].next = i]
      OBVIOUS
    <3>5. NextIs(d1, d, tail, i)
      BY <1>1, <3>3, <3>4, SetNext
    <3>6. d1 \in CacheSet
      BY <3>5 DEF NextIs, OnlyChains
    <3>7. new = [d1 EXCEPT !.items[i].prev = tail]
      BY <3>2, <3>4
    <3>8. PrevIs(new, d1, i, tail)
      BY <1>1, <3>3, <3>6, <3>7, SetPrev
    <3>9. OnlyChains(new, d) /\ new \in CacheSet
      BY <3>5, <3>8, OnlyChainsTwice DEF NextIs, PrevIs, OnlyChains
    <3>10. ASSUME NEW j \in Index
           PROVE /\ nx[j] = IF j = tail THEN i ELSE nx0[j]
                 /\ pv[j] = IF j = i THEN tail ELSE pv0[j]
      <4>1. nx[j] = new.items[j].next /\ pv[j] = new.items[j].prev
        BY <1>8, <3>9, ChainTypes
      <4>2. nx0[j] = d.items[j].next /\ pv0[j] = d.items[j].prev
        BY <1>9, ChainTypes
      <4> QED BY <3>5, <3>8, <4>1, <4>2 DEF NextIs, PrevIs
    <3>11. new.hashtable = d.hashtable
      BY <3>5, <3>8 DEF NextIs, PrevIs
    <3> QED BY <2>2, <3>9, <3>10, <3>11
  <2> QED BY <2>1, <2>2
<1>12. new \in CacheSet /\ \A g : InChain(new, g) = InChain(d, g)
  BY <1>11 DEF OnlyChains, SameBody, InChain, Used
<1>13. S \cup {i} = InChain(new, h) /\ i \in Index \ S
  BY <1>1, <1>2, <1>3, <1>12 DEF InChain
<1>14. \E t : ChainIs(new, h, t)
  <2>1. PICK head2 : head2 = new.hashtable[h]
    OBVIOUS
  <2>2. head2 = IF tail = 0 THEN i ELSE head
    BY <1>5, <1>7, <1>11, <2>1 DEF CacheSet
  <2>3. PutLast(S, nx0, pv0, head, tail, i, nx, pv, head2)
    <3>1. \A j \in S : j \in Index /\ j # i
      BY <1>3
    <3>2. i # tail
      BY <1>1, <1>3, <1>7
    <3> QED BY <1>1, <1>10, <1>11, <2>2, <3>1, <3>2 DEF PutLast
  <2>4. Linked(S \cup {i}, nx, pv, head2, i)
    BY <1>4, <1>5, <1>9, <1>13, <2>3, ListAppend
  <2> QED BY <1>8, <1>13, <2>1, <2>4 DEF ChainIs
<1>15. ASSUME NEW g \in Slot, g # h PROVE \E t : ChainIs(new, g, t)
  <2>1. PICK t : Linked(InChain(d, g) \ {i}, nx0, pv0, d.hashtable[g], t)
    BY <1>9 DEF ChainedBut
  <2>2. \A j \in InChain(d, g) : j \in Index /\ j # i /\ j \notin S
    BY <1>2, <1>3, <1>15 DEF InChain, Used
  <2>3. \A j \in InChain(d, g) \ {i} : nx[j] = nx0[j] /\ pv[j] = pv0[j]
    BY <1>1, <1>7, <1>11, <2>2
  <2>4. Linked(InChain(d, g) \ {i}, nx, pv, d.hashtable[g], t)
    BY <2>1, <2>3, ListFrame
  <2>5. InChain(d, g) \ {i} = InChain(new, g)
    BY <1>12, <2>2
  <2>6. new.hashtable[g] = d.hashtable[g]
    BY <1>11, <1>15 DEF CacheSet
  <2> QED BY <1>8, <2>4, <2>5, <2>6 DEF ChainIs
<1> QED BY <1>11, <1>14, <1>15 DEF Chained

\* What lru_remove_item and lru_add_item write.
LEMMA LruRemoveWrites ==
    ASSUME NEW d \in CacheSet, NEW i \in Index, NEW p, NEW n, NEW new,
           p = d.items[i].lru_prev, n = d.items[i].lru_next, new = LruRemove(d, i)
    PROVE /\ OnlyLru(new, d)
          /\ p \in Items0 /\ n \in Items0
          /\ new.lru_head = (IF p = 0 THEN n ELSE d.lru_head)
          /\ new.lru_tail = (IF n = 0 THEN p ELSE d.lru_tail)
          /\ \A j \in Index : /\ new.items[j].lru_next = IF j = p THEN n ELSE d.items[j].lru_next
                              /\ new.items[j].lru_prev = IF j = n THEN p ELSE d.items[j].lru_prev
<1>1. p \in Items0 /\ n \in Items0
  BY DEF CacheSet, ItemSet
<1>2. PICK d1 : d1 = IF n # 0 THEN [d EXCEPT !.items[n].lru_prev = p] ELSE [d EXCEPT !.lru_tail = p]
  OBVIOUS
<1>3. new = IF p # 0 THEN [d1 EXCEPT !.items[p].lru_next = n] ELSE [d1 EXCEPT !.lru_head = n]
  BY <1>2 DEF LruRemove
<1>4. /\ OnlyLru(d1, d) /\ d1.lru_head = d.lru_head
      /\ d1.lru_tail = (IF n = 0 THEN p ELSE d.lru_tail)
      /\ \A j \in Index : /\ d1.items[j].lru_next = d.items[j].lru_next
                          /\ d1.items[j].lru_prev = IF j = n THEN p ELSE d.items[j].lru_prev
  <2>1. CASE n = 0
    <3>1. PICK head : head = d.lru_head
      OBVIOUS
    <3>2. d1 = [d EXCEPT !.lru_tail = p] /\ 0 \notin Index
      BY <1>2, <2>1, Constants
    <3>3. EndsAre(d1, d, head, p)
      BY <1>1, <3>1, <3>2, SetEnds
    <3> QED BY <2>1, <3>1, <3>2, <3>3 DEF EndsAre
  <2>2. CASE n # 0
    <3>1. d1 = [d EXCEPT !.items[n].lru_prev = p] /\ n \in Index
      BY <1>1, <1>2, <2>2, Constants
    <3>2. LruPrevIs(d1, d, n, p)
      BY <1>1, <3>1, SetLruPrev
    <3> QED BY <2>2, <3>2 DEF LruPrevIs
  <2> QED BY <2>1, <2>2
<1>5. d1 \in CacheSet
  BY <1>4 DEF OnlyLru
<1>6. /\ OnlyLru(new, d1) /\ new.lru_tail = d1.lru_tail
      /\ new.lru_head = (IF p = 0 THEN n ELSE d1.lru_head)
      /\ \A j \in Index : /\ new.items[j].lru_next = IF j = p THEN n ELSE d1.items[j].lru_next
                          /\ new.items[j].lru_prev = d1.items[j].lru_prev
  <2>1. CASE p = 0
    <3>1. PICK tail : tail = d1.lru_tail
      OBVIOUS
    <3>2. new = [d1 EXCEPT !.lru_head = n] /\ 0 \notin Index
      BY <1>3, <2>1, Constants
    <3>3. EndsAre(new, d1, n, tail)
      BY <1>1, <1>5, <3>1, <3>2, SetEnds
    <3> QED BY <2>1, <3>1, <3>2, <3>3 DEF EndsAre
  <2>2. CASE p # 0
    <3>1. new = [d1 EXCEPT !.items[p].lru_next = n] /\ p \in Index
      BY <1>1, <1>3, <2>2, Constants
    <3>2. LruNextIs(new, d1, p, n)
      BY <1>1, <1>5, <3>1, SetLruNext
    <3> QED BY <2>2, <3>2 DEF LruNextIs
  <2> QED BY <2>1, <2>2
<1>7. OnlyLru(new, d)
  BY <1>4, <1>6, OnlyLruTwice
<1> QED BY <1>1, <1>4, <1>6, <1>7

\* lru_add_item writes the end of the list and the links of the item.
LEMMA LruAddWrites ==
    ASSUME NEW d \in CacheSet, NEW i \in Index, NEW t, NEW new,
           t = d.lru_tail, new = LruAdd(d, i)
    PROVE /\ OnlyLru(new, d)
          /\ t \in Items0
          /\ new.lru_head = (IF t = 0 THEN i ELSE d.lru_head)
          /\ new.lru_tail = i
          /\ \A j \in Index : /\ new.items[j].lru_next = IF j = i THEN 0
                                                         ELSE IF j = t THEN i
                                                         ELSE d.items[j].lru_next
                              /\ new.items[j].lru_prev = IF j = i THEN t ELSE d.items[j].lru_prev
<1>1. t \in Items0 /\ i \in Items0 /\ 0 \in Items0 /\ 0 \notin Index
  BY Constants DEF CacheSet, ItemSet
<1>2. PICK d1 : d1 = IF t # 0 THEN [d EXCEPT !.items[t].lru_next = i] ELSE [d EXCEPT !.lru_head = i]
  OBVIOUS
<1>3. new = [d1 EXCEPT !.items[i].lru_next = 0, !.items[i].lru_prev = t, !.lru_tail = i]
  BY <1>2 DEF LruAdd
<1>4. PICK d2 : d2 = [d1 EXCEPT !.items[i].lru_next = 0]
  OBVIOUS
<1>5. PICK d3 : d3 = [d2 EXCEPT !.items[i].lru_prev = t]
  OBVIOUS
<1>6. new = [d3 EXCEPT !.lru_tail = i]
  BY <1>3, <1>4, <1>5
<1>7. /\ OnlyLru(d1, d) /\ d1.lru_tail = d.lru_tail
      /\ d1.lru_head = (IF t = 0 THEN i ELSE d.lru_head)
      /\ \A j \in Index : /\ d1.items[j].lru_next = IF j = t THEN i ELSE d.items[j].lru_next
                          /\ d1.items[j].lru_prev = d.items[j].lru_prev
  <2>1. CASE t = 0
    <3>1. d1 = [d EXCEPT !.lru_head = i]
      BY <1>2, <2>1
    <3>2. EndsAre(d1, d, i, t)
      BY <1>1, <3>1, SetEnds
    <3> QED BY <1>1, <2>1, <3>2 DEF EndsAre
  <2>2. CASE t # 0
    <3>1. d1 = [d EXCEPT !.items[t].lru_next = i] /\ t \in Index
      BY <1>1, <1>2, <2>2, Constants
    <3>2. LruNextIs(d1, d, t, i)
      BY <1>1, <3>1, SetLruNext
    <3> QED BY <2>2, <3>2 DEF LruNextIs
  <2> QED BY <2>1, <2>2
<1>8. LruNextIs(d2, d1, i, 0)
  <2>1. d1 \in CacheSet
    BY <1>7 DEF OnlyLru
  <2> QED BY <1>1, <1>4, <2>1, SetLruNext
<1>9. LruPrevIs(d3, d2, i, t)
  <2>1. d2 \in CacheSet
    BY <1>8 DEF OnlyLru, LruNextIs
  <2> QED BY <1>1, <1>5, <2>1, SetLruPrev
<1>10. PICK head : head = d3.lru_head
  OBVIOUS
<1>11. EndsAre(new, d3, head, i)
  <2>1. d3 \in CacheSet
    BY <1>9 DEF OnlyLru, LruPrevIs
  <2> QED BY <1>1, <1>6, <1>10, <2>1, SetEnds
<1>12. OnlyLru(new, d)
  BY <1>7, <1>8, <1>9, <1>11, OnlyLruTwice DEF LruNextIs, LruPrevIs, EndsAre
<1>13. ASSUME NEW j \in Index
       PROVE /\ new.items[j].lru_next = IF j = i THEN 0
                                        ELSE IF j = t THEN i
                                        ELSE d.items[j].lru_next
             /\ new.items[j].lru_prev = IF j = i THEN t ELSE d.items[j].lru_prev
  BY <1>7, <1>8, <1>9, <1>11 DEF LruNextIs, LruPrevIs, EndsAre
<1>14. new.lru_head = (IF t = 0 THEN i ELSE d.lru_head) /\ new.lru_tail = i
  BY <1>7, <1>8, <1>9, <1>10, <1>11 DEF LruNextIs, LruPrevIs, EndsAre
<1> QED BY <1>1, <1>12, <1>13, <1>14

\* An item leaves the LRU list.
LEMMA LruRemoveLeaves ==
    ASSUME NEW d \in CacheSet, NEW i \in Used(d), NEW new, new = LruRemove(d, i)
    PROVE OnlyLru(new, d) /\ (Listed(d) => ListedBut(new, i))
<1>1. i \in Index
  BY DEF Used
<1>2. PICK p, n : p = d.items[i].lru_prev /\ n = d.items[i].lru_next
  OBVIOUS
<1>3. /\ OnlyLru(new, d)
      /\ new.lru_head = (IF p = 0 THEN n ELSE d.lru_head)
      /\ new.lru_tail = (IF n = 0 THEN p ELSE d.lru_tail)
      /\ \A j \in Index : /\ new.items[j].lru_next = IF j = p THEN n ELSE d.items[j].lru_next
                          /\ new.items[j].lru_prev = IF j = n THEN p ELSE d.items[j].lru_prev
  BY <1>1, <1>2, LruRemoveWrites
<1>4. new \in CacheSet /\ Used(new) = Used(d)
  BY <1>3 DEF OnlyLru, SameBody, Used
<1>5. PICK nx, pv : nx = LruNexts(new) /\ pv = LruPrevs(new)
  OBVIOUS
<1>6. PICK nx0, pv0 : nx0 = LruNexts(d) /\ pv0 = LruPrevs(d)
  OBVIOUS
<1>7. \A j \in Index : nx[j] = new.items[j].lru_next /\ pv[j] = new.items[j].lru_prev
  BY <1>4, <1>5, ChainTypes
<1>8. \A j \in Index : nx0[j] = d.items[j].lru_next /\ pv0[j] = d.items[j].lru_prev
  BY <1>6, ChainTypes
<1>9. PICK S \in SUBSET Index : S = Used(d)
  BY DEF Used
<1>10. PICK head, tail, head2, tail2 :
          head = d.lru_head /\ tail = d.lru_tail /\ head2 = new.lru_head /\ tail2 = new.lru_tail
  OBVIOUS
<1>11. TakenOut(S, nx0, pv0, head, tail, i, nx, pv, head2, tail2)
  BY <1>1, <1>2, <1>3, <1>7, <1>8, <1>9, <1>10 DEF TakenOut
<1>12. ASSUME Listed(d) PROVE ListedBut(new, i)
  <2>1. Linked(S, nx0, pv0, head, tail)
    BY <1>6, <1>9, <1>10, <1>12 DEF Listed
  <2>2. Linked(S \ {i}, nx, pv, head2, tail2)
    BY <1>9, <1>11, <2>1, ListRemove
  <2> QED BY <1>4, <1>5, <1>9, <1>10, <2>2 DEF ListedBut
<1> QED BY <1>3, <1>12

\* An item enters it as the last one.
LEMMA LruAddEnters ==
    ASSUME NEW d \in CacheSet, NEW i \in Used(d), NEW new, new = LruAdd(d, i)
    PROVE OnlyLru(new, d) /\ (ListedBut(d, i) => Listed(new))
<1>1. i \in Index /\ i # 0
  BY Constants DEF Used
<1>2. PICK tail : tail = d.lru_tail
  OBVIOUS
<1>3. /\ OnlyLru(new, d)
      /\ new.lru_head = (IF tail = 0 THEN i ELSE d.lru_head)
      /\ new.lru_tail = i
      /\ \A j \in Index : /\ new.items[j].lru_next = IF j = i THEN 0
                                                     ELSE IF j = tail THEN i
                                                     ELSE d.items[j].lru_next
                          /\ new.items[j].lru_prev = IF j = i THEN tail ELSE d.items[j].lru_prev
  BY <1>1, <1>2, LruAddWrites
<1>4. new \in CacheSet /\ Used(new) = Used(d)
  BY <1>3 DEF OnlyLru, SameBody, Used
<1>5. PICK nx, pv : nx = LruNexts(new) /\ pv = LruPrevs(new)
  OBVIOUS
<1>6. PICK nx0, pv0 : nx0 = LruNexts(d) /\ pv0 = LruPrevs(d)
  OBVIOUS
<1>7. \A j \in Index : nx[j] = new.items[j].lru_next /\ pv[j] = new.items[j].lru_prev
  BY <1>4, <1>5, ChainTypes
<1>8. \A j \in Index : nx0[j] = d.items[j].lru_next /\ pv0[j] = d.items[j].lru_prev
  BY <1>6, ChainTypes
<1>9. PICK S \in SUBSET Index : S = Used(d) \ {i}
  BY DEF Used
<1>10. PICK head, head2 : head = d.lru_head /\ head2 = new.lru_head
  OBVIOUS
<1>11. PutLast(S, nx0, pv0, head, tail, i, nx, pv, head2)
  <2>1. \A j \in S : j \in Index /\ j # i
    BY <1>9
  <2> QED BY <1>1, <1>3, <1>7, <1>8, <1>10, <2>1 DEF PutLast
<1>12. ASSUME ListedBut(d, i) PROVE Listed(new)
  <2>1. Linked(S, nx0, pv0, head, tail)
    BY <1>2, <1>6, <1>9, <1>10, <1>12 DEF ListedBut
  <2>2. i \in Index \ S
    BY <1>1, <1>9
  <2>3. Linked(S \cup {i}, nx, pv, head2, i)
    BY <1>11, <2>1, <2>2, ListAppend
  <2>4. S \cup {i} = Used(new)
    BY <1>4, <1>9
  <2> QED BY <1>3, <1>5, <1>10, <2>3, <2>4 DEF Listed
<1> QED BY <1>3, <1>12

------------------------------------------------------------------------------
(* Deleting an item.                                                        *)

\* The lists stay what they are when their links do.
LEMMA ChainsFrame ==
    ASSUME NEW d, NEW new, SameBody(new, d), SameChains(new, d)
    PROVE /\ Used(new) = Used(d)
          /\ Chained(d) => Chained(new)
          /\ \A i : ChainedBut(d, i) => ChainedBut(new, i)
<1>1. Used(new) = Used(d) /\ \A h : InChain(new, h) = InChain(d, h)
  BY DEF SameBody, Used, InChain
<1>2. Nexts(new) = Nexts(d) /\ Prevs(new) = Prevs(d) /\ new.hashtable = d.hashtable
  BY DEF SameChains, Nexts, Prevs
<1> QED BY <1>1, <1>2 DEF Chained, ChainIs, ChainedBut

\* The LRU list does not depend on the chains.
LEMMA LruFrame ==
    ASSUME NEW d, NEW new, SameBody(new, d), SameLru(new, d)
    PROVE /\ Listed(d) => Listed(new)
          /\ \A i : ListedBut(d, i) => ListedBut(new, i)
<1>1. Used(new) = Used(d)
  BY DEF SameBody, Used
<1>2. /\ LruNexts(new) = LruNexts(d) /\ LruPrevs(new) = LruPrevs(d)
      /\ new.lru_head = d.lru_head /\ new.lru_tail = d.lru_tail
  BY DEF SameLru, LruNexts, LruPrevs
<1> QED BY <1>1, <1>2 DEF Listed, ListedBut

\* What Drop writes: the item is unused, the others keep what they hold.
Dropped(new, d, i) ==
    /\ new \in CacheSet
    /\ new.unused = Append(d.unused, i) /\ new.n_items = d.n_items - 1
    /\ new.bitmap = (IF uc.bitmap THEN d.bitmap \ RunOf(d, i) ELSE d.bitmap)
    /\ new.pos = d.pos /\ new.next_scan = d.next_scan
    /\ new.items[i] = Unused
    /\ \A j \in Index \ {i} : /\ new.items[j].key = d.items[j].key
                              /\ new.items[j].hash = d.items[j].hash
                              /\ new.items[j].size = d.items[j].size
                              /\ new.items[j].first = d.items[j].first
                              /\ new.items[j].expires = d.items[j].expires
                              /\ new.items[j].abs = d.items[j].abs

\* An unused item.
LEMMA UnusedItem == Unused \in ItemSet /\ Unused.key = NoKey /\ Unused.size = 0 /\ Unused.expires = 0
  BY Constants, CacheAssumption DEF Unused, ItemSet

\* uwsgi_cache_del2 writes that, and keeps the lists when the item was in use.
LEMMA DropWrites ==
    ASSUME NEW d \in CacheSet, NEW i \in Index, NEW new, new = Drop(d, i)
    PROVE /\ Dropped(new, d, i)
          /\ i \in Used(d) /\ Chained(d) => Chained(new)
          /\ i \in Used(d) /\ Listed(d) /\ uc.purge_lru => Listed(new)
<1>1. PICK a0 : a0 = UnmarkBlocks(d, i)
  OBVIOUS
<1>2. PICK a1 : a1 = [a0 EXCEPT !.unused = Append(a0.unused, i)]
  OBVIOUS
<1>3. PICK a2 : a2 = Unlink(a1, i)
  OBVIOUS
<1>4. PICK a3 : a3 = LruForget(a2, i)
  OBVIOUS
<1>5. new = [a3 EXCEPT !.items[i] = Unused, !.n_items = a3.n_items - 1]
  BY <1>1, <1>2, <1>3, <1>4 DEF Drop
<1>6. /\ a0 \in CacheSet /\ a0.items = d.items /\ a0.hashtable = d.hashtable
      /\ a0.lru_head = d.lru_head /\ a0.lru_tail = d.lru_tail
      /\ a0.unused = d.unused /\ a0.n_items = d.n_items /\ a0.pos = d.pos /\ a0.next_scan = d.next_scan
      /\ a0.bitmap = (IF uc.bitmap THEN d.bitmap \ RunOf(d, i) ELSE d.bitmap)
  <2>1. CASE uc.bitmap
    <3>1. PICK m \in SUBSET Bits : m = d.bitmap \ RunOf(d, i)
      BY DEF CacheSet
    <3>2. a0 = [d EXCEPT !.bitmap = m]
      BY <1>1, <2>1, <3>1 DEF UnmarkBlocks, RunOf
    <3> QED BY <2>1, <3>1, <3>2 DEF CacheSet
  <2>2. CASE ~uc.bitmap
    BY <1>1, <2>2 DEF UnmarkBlocks
  <2> QED BY <2>1, <2>2
<1>7. /\ a1 \in CacheSet /\ a1.items = d.items /\ a1.hashtable = d.hashtable
      /\ a1.lru_head = d.lru_head /\ a1.lru_tail = d.lru_tail
      /\ a1.unused = Append(d.unused, i) /\ a1.n_items = d.n_items /\ a1.pos = d.pos
      /\ a1.next_scan = d.next_scan /\ a1.bitmap = a0.bitmap
  <2>1. PICK u \in Seq(Index) : u = Append(a0.unused, i)
    <3>1. a0.unused \in Seq(Index)
      BY <1>6 DEF CacheSet
    <3>2. Append(a0.unused, i) \in Seq(Index)
      BY <3>1, AppendProperties
    <3> QED BY <3>2
  <2>2. a1 = [a0 EXCEPT !.unused = u]
    BY <1>2, <2>1
  <2> QED BY <1>6, <2>1, <2>2 DEF CacheSet
<1>8. SameBody(a1, d) /\ SameChains(a1, d) /\ SameLru(a1, d)
  BY <1>7 DEF SameBody, SameChains, SameLru
<1>9. OnlyChains(a2, a1) /\ (i \in Used(d) /\ Chained(d) => ChainedBut(a2, i))
  <2>1. OnlyChains(a2, a1)
    <3>1. PICK p, n, h : p = a1.items[i].prev /\ n = a1.items[i].next /\ h = a1.items[i].hash
      OBVIOUS
    <3>2. /\ OnlyChains(a2, a1)
          /\ p \in Items0 /\ n \in Items0 /\ h \in Slot
          /\ a2.hashtable = IF p = 0 THEN [a1.hashtable EXCEPT ![h] = n] ELSE a1.hashtable
          /\ \A j \in Index : /\ a2.items[j].next = IF j = p THEN n ELSE a1.items[j].next
                              /\ a2.items[j].prev = IF j = n THEN p ELSE a1.items[j].prev
      BY <1>3, <1>7, <3>1, UnlinkWrites
    <3> QED BY <3>2
  <2>2. ASSUME i \in Used(d), Chained(d) PROVE ChainedBut(a2, i)
    <3>1. Chained(a1) /\ i \in Used(a1)
      BY <1>8, <2>2, ChainsFrame
    <3> QED BY <1>3, <1>7, <3>1, UnlinkLeaves
  <2> QED BY <2>1, <2>2
<1>10. a2 \in CacheSet /\ SameBody(a2, a1) /\ SameLru(a2, a1)
  BY <1>9 DEF OnlyChains
<1>11. OnlyLru(a3, a2) /\ (i \in Used(d) /\ Listed(d) /\ uc.purge_lru => ListedBut(a3, i))
  <2>1. CASE uc.purge_lru
    <3>1. a3 = LruRemove(a2, i)
      BY <1>4, <2>1 DEF LruForget
    <3>2. OnlyLru(a3, a2)
      <4>1. PICK p, n : p = a2.items[i].lru_prev /\ n = a2.items[i].lru_next
        OBVIOUS
      <4> QED BY <1>10, <3>1, <4>1, LruRemoveWrites
    <3>3. ASSUME i \in Used(d), Listed(d) PROVE ListedBut(a3, i)
      <4>1. Listed(a1)
        BY <1>8, <3>3, LruFrame
      <4>2. Listed(a2)
        BY <1>10, <4>1, LruFrame
      <4>3. i \in Used(a2)
        BY <1>8, <1>10, <3>3 DEF SameBody, Used
      <4> QED BY <1>10, <3>1, <4>2, <4>3, LruRemoveLeaves
    <3> QED BY <3>2, <3>3
  <2>2. CASE ~uc.purge_lru
    BY <1>4, <1>10, <2>2 DEF LruForget, OnlyLru, SameBody, SameChains, SameBlocks, SameStack
  <2> QED BY <2>1, <2>2
<1>12. /\ a3 \in CacheSet /\ SameBody(a3, d) /\ a3.unused = Append(d.unused, i)
       /\ a3.n_items = d.n_items /\ a3.pos = d.pos /\ a3.next_scan = d.next_scan
       /\ a3.bitmap = (IF uc.bitmap THEN d.bitmap \ RunOf(d, i) ELSE d.bitmap)
  BY <1>6, <1>7, <1>8, <1>9, <1>11 DEF OnlyChains, OnlyLru, SameBody, SameBlocks, SameStack
<1>13. i \in Used(d) /\ Chained(d) => ChainedBut(a3, i)
  BY <1>9, <1>11, ChainsFrame DEF OnlyLru
<1>14. PICK b : b = [a3 EXCEPT !.items[i] = Unused]
  OBVIOUS
<1>15. PICK m \in Int : m = a3.n_items - 1
  BY <1>12 DEF CacheSet
<1>16. new = [b EXCEPT !.n_items = m]
  BY <1>5, <1>14, <1>15
<1>17. PICK y \in ItemSet : y = Unused
  BY UnusedItem
<1>18. Rewritten(b, a3, i, y)
  BY <1>12, <1>14, <1>17, ItemWritten
<1>19. /\ new \in CacheSet /\ new.items = b.items /\ new.hashtable = b.hashtable
       /\ new.lru_head = b.lru_head /\ new.lru_tail = b.lru_tail /\ new.unused = b.unused
       /\ new.n_items = m /\ new.pos = b.pos /\ new.next_scan = b.next_scan /\ new.bitmap = b.bitmap
  BY <1>16, <1>18 DEF CacheSet, Rewritten
<1>20. \A j \in Index : new.items[j] = IF j = i THEN Unused ELSE a3.items[j]
  BY <1>17, <1>18, <1>19 DEF Rewritten
<1>21. Dropped(new, d, i)
  <2>1. new.unused = a3.unused /\ new.pos = a3.pos /\ new.bitmap = a3.bitmap /\ new.next_scan = a3.next_scan
    BY <1>18, <1>19 DEF Rewritten, SameBlocks, SameStack
  <2>2. new.n_items = d.n_items - 1
    BY <1>12, <1>15, <1>19
  <2> QED BY <1>12, <1>19, <1>20, <2>1, <2>2 DEF Dropped, SameBody
<1>22. Used(new) = Used(a3) \ {i} /\ \A h : InChain(new, h) = InChain(a3, h) \ {i}
  <2>1. \A j \in Index : new.items[j].key = IF j = i THEN NoKey ELSE a3.items[j].key
    BY <1>20, UnusedItem
  <2>2. \A j \in Index \ {i} : new.items[j].hash = a3.items[j].hash
    BY <1>20
  <2>3. Used(new) = Used(a3) \ {i}
    BY <2>1 DEF Used
  <2>4. Used(a3) \subseteq Index
    BY DEF Used
  <2> QED BY <2>2, <2>3, <2>4 DEF InChain
<1>23. ASSUME ChainedBut(a3, i) PROVE Chained(new)
  <2> SUFFICES ASSUME NEW h \in Slot PROVE \E t : ChainIs(new, h, t)
    BY DEF Chained
  <2>1. PICK t : Linked(InChain(a3, h) \ {i}, Nexts(a3), Prevs(a3), a3.hashtable[h], t)
    BY <1>23 DEF ChainedBut
  <2>2. PICK nx, pv : nx = Nexts(new) /\ pv = Prevs(new)
    OBVIOUS
  <2>3. \A j \in InChain(a3, h) \ {i} : nx[j] = Nexts(a3)[j] /\ pv[j] = Prevs(a3)[j]
    <3>1. \A j \in InChain(a3, h) \ {i} : j \in Index /\ new.items[j] = a3.items[j]
      BY <1>20 DEF InChain, Used
    <3> QED BY <1>12, <1>19, <2>2, <3>1, ChainTypes
  <2>4. Linked(InChain(a3, h) \ {i}, nx, pv, a3.hashtable[h], t)
    BY <2>1, <2>3, ListFrame
  <2>5. new.hashtable = a3.hashtable
    BY <1>18, <1>19 DEF Rewritten
  <2> QED BY <1>22, <2>2, <2>4, <2>5 DEF ChainIs
<1>24. ASSUME ListedBut(a3, i) PROVE Listed(new)
  <2>1. PICK nx, pv : nx = LruNexts(new) /\ pv = LruPrevs(new)
    OBVIOUS
  <2>2. \A j \in Used(a3) \ {i} : nx[j] = LruNexts(a3)[j] /\ pv[j] = LruPrevs(a3)[j]
    <3>1. \A j \in Used(a3) \ {i} : j \in Index /\ new.items[j] = a3.items[j]
      BY <1>20 DEF Used
    <3> QED BY <1>12, <1>19, <2>1, <3>1, ChainTypes
  <2>3. Linked(Used(a3) \ {i}, nx, pv, a3.lru_head, a3.lru_tail)
    BY <1>24, <2>2, ListFrame DEF ListedBut
  <2>4. new.lru_head = a3.lru_head /\ new.lru_tail = a3.lru_tail
    BY <1>18, <1>19 DEF Rewritten
  <2> QED BY <1>22, <2>1, <2>3, <2>4 DEF Listed
<1> QED BY <1>11, <1>13, <1>21, <1>23, <1>24

------------------------------------------------------------------------------
(* A sound cache, and what operations keep of it.                           *)

\* The parts of the cache agree.  A restart gives up the blocks and the LRU
\* list.
Sound(d) ==
    /\ d \in CacheSet /\ Stacked(d) /\ Keyed(d) /\ Chained(d)
    /\ uc.bitmap => Padded(d)
    /\ uc.bitmap /\ "restarted" \notin seen => Exact(d)
    /\ uc.purge_lru /\ "restarted" \notin seen => Listed(d)

\* Nothing is used that was not, and what is used holds the same.
Fewer(new, d) ==
    \A j \in Used(new) : /\ j \in Used(d)
                         /\ new.items[j].key = d.items[j].key
                         /\ new.items[j].expires = d.items[j].expires
                         /\ new.items[j].abs = d.items[j].abs

\* A sound cache with fewer items, whose next scan is the same.
Reduced(new, d) == Sound(new) /\ Fewer(new, d) /\ new.next_scan = d.next_scan

\* Reductions compose.
LEMMA ReducedTwice ==
    ASSUME NEW a, NEW b, NEW e, Reduced(b, a), Reduced(e, b)
    PROVE Reduced(e, a)
  BY DEF Reduced, Fewer

\* After a drop the other items are used.
LEMMA DroppedUses ==
    ASSUME NEW d \in CacheSet, NEW i \in Index, NEW new, Dropped(new, d, i)
    PROVE Used(new) = Used(d) \ {i} /\ Fewer(new, d)
<1>1. new.items[i].key = NoKey
  BY UnusedItem DEF Dropped
<1>2. \A j \in Index : j # i => new.items[j].key = d.items[j].key
  BY DEF Dropped
<1>3. Used(new) = Used(d) \ {i}
  BY <1>1, <1>2 DEF Used
<1>4. ASSUME NEW j \in Used(new)
      PROVE /\ j \in Used(d)
            /\ new.items[j].key = d.items[j].key
            /\ new.items[j].expires = d.items[j].expires
            /\ new.items[j].abs = d.items[j].abs
  BY <1>3, <1>4 DEF Dropped, Used
<1> QED BY <1>3, <1>4 DEF Fewer

\* The item goes to the top of the stack.
LEMMA DroppedStack ==
    ASSUME NEW d \in CacheSet, NEW i \in Used(d), Stacked(d), NEW new, Dropped(new, d, i)
    PROVE Stacked(new)
<1>1. i \in Index /\ Used(new) = Used(d) \ {i} /\ IsFiniteSet(Used(d))
  <2>1. i \in Index
    BY DEF Used
  <2>2. Used(new) = Used(d) \ {i}
    BY <2>1, DroppedUses
  <2> QED BY <2>1, <2>2, ChainTypes
<1>2. PICK u \in Seq(Index) : u = d.unused
  BY DEF CacheSet
<1>3. PICK v \in Seq(Index) : v = new.unused
  BY DEF CacheSet, Dropped
<1>4. v = Append(u, i)
  BY <1>2, <1>3 DEF Dropped
<1>5. /\ Len(v) = Len(u) + 1 /\ v[Len(u) + 1] = i /\ \A x \in 1..Len(u) : v[x] = u[x]
  BY <1>1, <1>4, AppendProperties
<1>6. Len(u) \in Nat
  BY <1>2, LenProperties
<1>7. \A x \in 1..Len(v) : x \in 1..Len(u) \/ x = Len(u) + 1
  BY <1>5, <1>6
<1>8. /\ \A x, y \in 1..Len(u) : u[x] = u[y] => x = y
      /\ \A x \in 1..Len(u) : u[x] \notin Used(d)
      /\ \A j \in Index \ Used(d) : \E x \in 1..Len(u) : u[x] = j
      /\ Len(u) + Cardinality(Used(d)) = MaxItems - 1
      /\ d.n_items = Cardinality(Used(d))
  BY <1>2 DEF Stacked
<1>9. Cardinality(Used(d) \ {i}) = Cardinality(Used(d)) - 1 /\ Cardinality(Used(d)) \in Nat
  BY <1>1, FS_RemoveElement, FS_CardinalityType
<1>10. ASSUME NEW x \in 1..Len(v), NEW y \in 1..Len(v), v[x] = v[y] PROVE x = y
  <2>1. \A z \in 1..Len(u) : v[z] # i
    BY <1>5, <1>8
  <2>2. CASE x \in 1..Len(u) /\ y \in 1..Len(u)
    BY <1>5, <1>8, <1>10, <2>2
  <2>3. CASE x = Len(u) + 1 \/ y = Len(u) + 1
    BY <1>5, <1>7, <1>10, <2>1, <2>3
  <2> QED BY <1>7, <2>2, <2>3
<1>11. \A x \in 1..Len(v) : v[x] \notin Used(new)
  BY <1>1, <1>5, <1>7, <1>8
<1>12. ASSUME NEW j \in Index \ Used(new) PROVE \E x \in 1..Len(v) : v[x] = j
  <2>1. CASE j = i
    BY <1>5, <1>6, <2>1
  <2>2. CASE j # i
    <3>1. PICK x \in 1..Len(u) : u[x] = j
      BY <1>1, <1>8, <2>2
    <3> QED BY <1>5, <1>6, <3>1
  <2> QED BY <2>1, <2>2
<1>13. new.n_items = d.n_items - 1
  BY DEF Dropped
<1>14. Len(v) + Cardinality(Used(new)) = MaxItems - 1 /\ new.n_items = Cardinality(Used(new))
  BY <1>1, <1>5, <1>6, <1>8, <1>9, <1>13, Constants
<1> QED BY <1>3, <1>10, <1>11, <1>12, <1>14 DEF Stacked

\* The blocks of the item are freed, and the others are as they were.
LEMMA DroppedBlocks ==
    ASSUME NEW d \in CacheSet, NEW i \in Index, NEW new, Dropped(new, d, i), uc.bitmap
    PROVE /\ i \in Used(d) /\ Padded(d) => Padded(new)
          /\ i \in Used(d) /\ Padded(d) /\ Exact(d) => Exact(new)
          /\ i \notin Used(d) /\ Padded(d) => Padded(new)
          /\ i \notin Used(d) /\ Padded(d) /\ Exact(d) => Exact(new)
<1>1. Used(new) = Used(d) \ {i} /\ Used(d) \subseteq Index
  BY DroppedUses DEF Used
<1>2. new.bitmap = d.bitmap \ RunOf(d, i)
  BY DEF Dropped
<1>3. \A j \in Used(new) : RunOf(new, j) = RunOf(d, j)
  BY <1>1 DEF Dropped, RunOf
<1>4. new.items[i].size = 0
  BY UnusedItem DEF Dropped
<1>5. \A j \in Index \ {i} : new.items[j].size = d.items[j].size
  BY DEF Dropped
<1>6. ASSUME Padded(d) PROVE Padded(new)
  <2>1. RunOf(d, i) \cap Padding = {}
    <3>1. CASE i \in Used(d)
      BY <1>6, <3>1 DEF Padded
    <3>2. CASE i \notin Used(d)
      <4>1. d.items[i].size = 0 /\ d.items[i].first \in Nat
        BY <1>6, <3>2, ChainTypes, Constants DEF Padded, ItemSet
      <4> QED BY <4>1 DEF RunOf, Run
    <3> QED BY <3>1, <3>2
  <2> QED BY <1>1, <1>2, <1>3, <1>4, <1>5, <1>6, <2>1 DEF Padded
<1>7. ASSUME Padded(d), Exact(d) PROVE Exact(new)
  <2>1. \A j \in Used(d) : RunOf(d, j) \cap Padding = {}
    BY <1>7 DEF Padded
  <2>2. d.bitmap = Padding \cup UNION {RunOf(d, j) : j \in Used(d)}
    BY <1>7 DEF Exact
  <2>3. \A j \in Used(new) : RunOf(d, j) \cap RunOf(d, i) = {}
    <3>1. CASE i \in Used(d)
      BY <1>1, <1>7, <3>1 DEF Exact
    <3>2. CASE i \notin Used(d)
      <4>1. d.items[i].size = 0 /\ d.items[i].first \in Nat
        BY <1>7, <3>2, ChainTypes, Constants DEF Padded, ItemSet
      <4> QED BY <4>1 DEF RunOf, Run
    <3> QED BY <3>1, <3>2
  <2>4. RunOf(d, i) \cap Padding = {}
    <3>1. CASE i \in Used(d)
      BY <2>1, <3>1
    <3>2. CASE i \notin Used(d)
      <4>1. d.items[i].size = 0 /\ d.items[i].first \in Nat
        BY <1>7, <3>2, ChainTypes, Constants DEF Padded, ItemSet
      <4> QED BY <4>1 DEF RunOf, Run
    <3> QED BY <3>1, <3>2
  <2>5. ASSUME NEW b
        PROVE b \in new.bitmap <=> b \in Padding \/ \E j \in Used(new) : b \in RunOf(new, j)
    <3>1. b \in d.bitmap <=> b \in Padding \/ \E j \in Used(d) : b \in RunOf(d, j)
      BY <2>2
    <3>2. b \in new.bitmap <=> b \in d.bitmap /\ b \notin RunOf(d, i)
      BY <1>2
    <3>3. \A j \in Used(d) : j = i \/ j \in Used(new)
      BY <1>1
    <3> QED BY <1>1, <1>3, <2>3, <2>4, <3>1, <3>2, <3>3
  <2>6. new.bitmap = Padding \cup UNION {RunOf(new, j) : j \in Used(new)}
    BY <2>5
  <2>7. \A j, k \in Used(new) : j # k => RunOf(new, j) \cap RunOf(new, k) = {}
    BY <1>1, <1>3, <1>7 DEF Exact
  <2> QED BY <2>6, <2>7 DEF Exact
<1> QED BY <1>6, <1>7

\* uwsgi_cache_del2 leaves the cache sound.
LEMMA DelReduces ==
    ASSUME NEW d, Sound(d), NEW i \in Index, NEW new, new = Del(d, i)
    PROVE Reduced(new, d) /\ Used(new) = Used(d) \ {i}
<1>1. d \in CacheSet /\ Used(d) \subseteq Index
  BY DEF Sound, Used
<1>2. CASE i \notin Used(d)
  <2>1. new = d
    BY <1>2 DEF Del, Used
  <2> QED BY <1>2, <2>1 DEF Reduced, Fewer
<1>3. CASE i \in Used(d)
  <2>1. new = Drop(d, i)
    BY <1>3 DEF Del, Used
  <2>2. Dropped(new, d, i) /\ Chained(new) /\ (Listed(d) /\ uc.purge_lru => Listed(new))
    BY <1>1, <1>3, <2>1, DropWrites DEF Sound
  <2>3. Used(new) = Used(d) \ {i} /\ Fewer(new, d)
    BY <1>1, <2>2, DroppedUses
  <2>4. Stacked(new)
    BY <1>1, <1>3, <2>2, DroppedStack DEF Sound
  <2>5. Keyed(new)
    <3>1. \A j \in Used(new) : new.items[j].hash = d.items[j].hash
      BY <1>1, <2>2, <2>3 DEF Dropped
    <3> QED BY <2>3, <3>1 DEF Sound, Keyed, Fewer
  <2>6. (uc.bitmap => Padded(new)) /\ (uc.bitmap /\ "restarted" \notin seen => Exact(new))
    BY <1>1, <1>3, <2>2, DroppedBlocks DEF Sound
  <2>7. new \in CacheSet /\ new.next_scan = d.next_scan
    BY <2>2 DEF Dropped
  <2>8. Sound(new)
    BY <2>2, <2>4, <2>5, <2>6, <2>7 DEF Sound
  <2> QED BY <2>3, <2>7, <2>8 DEF Reduced
<1> QED BY <1>2, <1>3

\* Deleting the items of a set one after the other.
LEMMA DelEachReduces ==
    ASSUME NEW d, Sound(d), NEW S, NEW new, new = DelEach(d, S)
    PROVE Reduced(new, d)
<1>1. MaxItems - 1 \in Nat /\ Index = 1..(MaxItems - 1)
  BY Constants DEF Index
<1>2. PICK m \in Nat : m = MaxItems - 1
  BY <1>1
<1>3. ASSUME NEW e \in CacheSet, NEW i \in Index PROVE Del(e, i) \in CacheSet
  <2>1. PICK b : b = Drop(e, i)
    OBVIOUS
  <2>2. b \in CacheSet
    BY <2>1, DropWrites DEF Dropped
  <2> QED BY <2>1, <2>2 DEF Del
<1>4. PICK g : g = [i \in 1..m |-> [e \in CacheSet |-> IF i \in S THEN Del(e, i) ELSE e]]
  OBVIOUS
<1>5. /\ g \in Tables(CacheSet, m)
      /\ \A i \in 1..m : \A e \in CacheSet : g[i][e] = IF i \in S THEN Del(e, i) ELSE e
  BY <1>1, <1>2, <1>3, <1>4 DEF Tables
<1>6. PICK x \in CacheSet : x = d
  BY DEF Sound
<1>7. Iterable(CacheSet, x, g, m)
  BY <1>5, IterationExists
<1>8. PICK f \in [0..m -> CacheSet] : f[0] = x /\ \A i \in 1..m : f[i] = g[i][f[i - 1]]
  BY <1>7 DEF Iterable
<1>9. \A i \in 1..m : f[i] = IF i \in S THEN Del(f[i - 1], i) ELSE f[i - 1]
  <2> SUFFICES ASSUME NEW i \in 1..m PROVE f[i] = IF i \in S THEN Del(f[i - 1], i) ELSE f[i - 1]
    OBVIOUS
  <2>1. i - 1 \in 0..m
    OBVIOUS
  <2>2. f[i - 1] \in CacheSet
    BY <2>1
  <2> QED BY <1>5, <1>8, <2>2
<1> DEFINE P(upto) == upto = [i \in 0..(MaxItems - 1) |->
              IF i = 0 THEN d ELSE IF i \in S THEN Del(upto[i - 1], i) ELSE upto[i - 1]]
<1>10. P(f)
  <2>1. ASSUME NEW i \in 0..m
        PROVE f[i] = IF i = 0 THEN d ELSE IF i \in S THEN Del(f[i - 1], i) ELSE f[i - 1]
    <3>1. CASE i = 0
      BY <1>6, <1>8, <3>1
    <3>2. CASE i # 0
      <4>1. i \in 1..m
        BY <3>2
      <4> QED BY <1>9, <3>2, <4>1
    <3> QED BY <3>1, <3>2
  <2>2. f = [i \in 0..m |-> f[i]]
    OBVIOUS
  <2> QED BY <1>2, <2>1, <2>2, Zenon
<1>11. new = (CHOOSE upto : P(upto))[MaxItems - 1]
  BY DEF DelEach
<1> HIDE DEF P
<1>12. PICK u : u = (CHOOSE upto : P(upto))
  OBVIOUS
<1>13. P(u)
  BY <1>10, <1>12
<1>14. /\ u[0] = d
       /\ \A i \in 1..m : u[i] = IF i \in S THEN Del(u[i - 1], i) ELSE u[i - 1]
  <2>1. \A i \in 0..m : u[i] = IF i = 0 THEN d ELSE IF i \in S THEN Del(u[i - 1], i) ELSE u[i - 1]
    BY <1>2, <1>13, Zenon DEF P
  <2> QED BY <2>1
<1> DEFINE T == {i \in Nat : i =< m => Reduced(u[i], d)}
<1>15. 0 \in T
  BY <1>14 DEF Reduced, Fewer
<1>16. ASSUME NEW i \in Nat, i \in T PROVE i + 1 \in T
  <2> SUFFICES ASSUME i + 1 =< m PROVE Reduced(u[i + 1], d)
    OBVIOUS
  <2>1. PICK l \in Index : l = i + 1 /\ i = l - 1 /\ l \in 1..m
    BY <1>1, <1>2
  <2>2. PICK b, e : b = u[i] /\ e = u[l]
    OBVIOUS
  <2>3. Reduced(b, d)
    BY <1>16, <2>2
  <2>4. e = IF l \in S THEN Del(b, l) ELSE b
    BY <1>14, <2>1, <2>2
  <2>5. CASE l \in S
    <3>1. Reduced(e, b)
      BY <2>3, <2>4, <2>5, DelReduces DEF Reduced
    <3>2. Reduced(e, d)
      BY <2>3, <3>1, ReducedTwice
    <3> QED BY <2>1, <2>2, <3>2
  <2>6. CASE l \notin S
    BY <2>1, <2>2, <2>3, <2>4, <2>6
  <2> QED BY <2>5, <2>6
<1> HIDE DEF T
<1>17. \A i \in Nat : i \in T
  BY <1>15, <1>16, AllNumbers
<1>18. Reduced(u[m], d)
  BY <1>17 DEF T
<1> QED BY <1>2, <1>11, <1>12, <1>18

\* Only the next scan changes.
LEMMA ScanSet ==
    ASSUME NEW d, Sound(d), NEW t \in 0..(2 * MaxTime), NEW new, new = [d EXCEPT !.next_scan = t]
    PROVE /\ Sound(new) /\ Fewer(new, d) /\ new.next_scan = t
          /\ Used(new) = Used(d) /\ new.items = d.items
          /\ SameStack(new, d) /\ SameBlocks(new, d)
<1>1. d \in CacheSet
  BY DEF Sound
<1>2. /\ new \in CacheSet /\ new.items = d.items /\ new.hashtable = d.hashtable
      /\ new.lru_head = d.lru_head /\ new.lru_tail = d.lru_tail /\ new.unused = d.unused
      /\ new.n_items = d.n_items /\ new.pos = d.pos /\ new.bitmap = d.bitmap /\ new.next_scan = t
  BY <1>1 DEF CacheSet
<1>3. SameBody(new, d) /\ SameChains(new, d) /\ SameLru(new, d)
  BY <1>2 DEF SameBody, SameChains, SameLru
<1>4. /\ Used(new) = Used(d) /\ (Chained(d) => Chained(new)) /\ (Listed(d) => Listed(new))
  BY <1>3, ChainsFrame, LruFrame
<1>5. Stacked(d) => Stacked(new)
  BY <1>2, <1>4 DEF Stacked
<1>6. Keyed(d) => Keyed(new)
  BY <1>2, <1>4 DEF Keyed
<1>7. (Padded(d) => Padded(new)) /\ (Exact(d) => Exact(new))
  BY <1>2, <1>4 DEF Padded, Exact, RunOf
<1>8. Fewer(new, d)
  BY <1>2, <1>4 DEF Fewer
<1>9. SameStack(new, d) /\ SameBlocks(new, d)
  BY <1>2 DEF SameStack, SameBlocks
<1> QED BY <1>2, <1>4, <1>5, <1>6, <1>7, <1>8, <1>9 DEF Sound

\* The clock, and how long a full cache puts off its scan.
Clock == now \in 1..MaxTime /\ uc.sweep_on_full \in 0..MaxTime

\* A sound cache with fewer items, whose next scan may have been put off.
Evicted(new, d) ==
    /\ Sound(new) /\ Fewer(new, d)
    /\ new.next_scan = IF ScanDue(d) THEN now + uc.sweep_on_full ELSE d.next_scan

\* cache_full.
LEMMA CacheFullEvicts ==
    ASSUME NEW d, Sound(d), Clock, NEW new, new = CacheFull(d)
    PROVE Evicted(new, d)
<1>1. PICK a : a = LruEvicted(d)
  OBVIOUS
<1>2. PICK b : b = DelEach(a, Outdated(a))
  OBVIOUS
<1>3. PICK e : e = Swept(a)
  OBVIOUS
<1>4. new = Emptied(a)
  BY <1>1 DEF CacheFull
<1>5. Reduced(a, d)
  <2>1. CASE uc.purge_lru /\ d.lru_head # 0
    <3>1. d.lru_head \in Index
      BY <2>1, Constants DEF Sound, CacheSet
    <3> QED BY <1>1, <2>1, <3>1, DelReduces DEF LruEvicted
  <2>2. CASE ~(uc.purge_lru /\ d.lru_head # 0)
    BY <1>1, <2>2 DEF LruEvicted, Reduced, Fewer
  <2> QED BY <2>1, <2>2
<1>6. Reduced(b, a)
  BY <1>2, <1>5, DelEachReduces DEF Reduced
<1>7. Reduced(b, d)
  BY <1>5, <1>6, ReducedTwice
<1>8. ScanDue(a) <=> ScanDue(d)
  BY <1>5 DEF Reduced, ScanDue
<1>9. Evicted(e, d)
  <2>1. CASE ScanDue(a)
    <3>1. PICK t \in 0..(2 * MaxTime) : t = now + uc.sweep_on_full
      BY Constants DEF Clock
    <3>2. e = [b EXCEPT !.next_scan = t]
      BY <1>2, <1>3, <2>1, <3>1 DEF Swept
    <3>3. Sound(e) /\ Fewer(e, b) /\ e.next_scan = t
      BY <1>7, <3>2, ScanSet DEF Reduced
    <3> QED BY <1>7, <1>8, <2>1, <3>1, <3>3 DEF Evicted, Reduced, Fewer
  <2>2. CASE ~ScanDue(a)
    BY <1>3, <1>5, <1>8, <2>2 DEF Swept, Evicted, Reduced
  <2> QED BY <2>1, <2>2
<1>10. CASE uc.clear_on_full /\ ~(ScanDue(a) /\ Outdated(a) # {})
  <2>1. new = DelEach(e, Index)
    BY <1>3, <1>4, <1>10 DEF Emptied
  <2>2. Reduced(new, e)
    BY <1>9, <2>1, DelEachReduces DEF Evicted
  <2> QED BY <1>9, <2>2 DEF Evicted, Reduced, Fewer
<1>11. CASE ~(uc.clear_on_full /\ ~(ScanDue(a) /\ Outdated(a) # {}))
  BY <1>3, <1>4, <1>9, <1>11 DEF Emptied
<1> QED BY <1>10, <1>11

\* What a lookup of k finds.
FoundIn(got, d, k) ==
    /\ Reduced(got.c, d) /\ got.slot \in Used(got.c) \cup {0}
    /\ got.slot # 0 => got.c.items[got.slot].key = k
    /\ got.slot = 0 => \A j \in Used(got.c) : got.c.items[j].key # k

\* uwsgi_cache_get_index, which may delete the item it finds.
LEMMA LookupFinds ==
    ASSUME NEW d, Sound(d), NEW k \in Key, NEW got, got = Lookup(d, k)
    PROVE FoundIn(got, d, k)
<1>1. PICK i : i = Find(d, k)
  OBVIOUS
<1>2. /\ i \in Used(d) \cup {0}
      /\ i # 0 => d.items[i].key = k
      /\ \A j \in Used(d) : d.items[j].key = k => i = j
  BY <1>1, FindIs DEF Sound
<1>3. got = CheckLazy(d, i)
  BY <1>1 DEF Lookup
<1>4. CASE i # 0 /\ uc.lazy_expire /\ Expired(d, i)
  <2>1. PICK b : b = Del(d, i)
    OBVIOUS
  <2>2. got = [c |-> b, slot |-> 0]
    BY <1>3, <1>4, <2>1 DEF CheckLazy
  <2>3. i \in Index
    BY <1>2, <1>4 DEF Used
  <2>4. Reduced(b, d) /\ Used(b) = Used(d) \ {i}
    BY <2>1, <2>3, DelReduces
  <2>5. \A j \in Used(b) : b.items[j].key # k
    BY <1>2, <2>4 DEF Reduced, Fewer
  <2> QED BY <2>2, <2>4, <2>5 DEF FoundIn
<1>5. CASE ~(i # 0 /\ uc.lazy_expire /\ Expired(d, i))
  <2>1. got = [c |-> d, slot |-> i]
    BY <1>3, <1>5 DEF CheckLazy
  <2>2. Reduced(d, d)
    BY DEF Reduced, Fewer
  <2>3. i = 0 => \A j \in Used(d) : d.items[j].key # k
    BY <1>2, Constants DEF Used
  <2> QED BY <1>2, <2>1, <2>2, <2>3 DEF FoundIn
<1> QED BY <1>4, <1>5

------------------------------------------------------------------------------
(* What the sweeper is told.                                                *)

\* The sweeper has not forgotten item i.
Recalled(d, i) ==
    \/ d.items[i].expires = 0 \/ d.items[i].abs
    \/ d.next_scan # 0 /\ d.next_scan =< d.items[i].expires
    \/ sweep # 0 /\ sweep =< i
\* The sweeper has forgotten none.
Rem(d) == uc.purge_lru \/ \A i \in Used(d) : Recalled(d, i)

\* A scan that was due is put off.
PutOff(new, d) == 0 < d.next_scan /\ d.next_scan =< now /\ now < new.next_scan

\* What an operation does to the next scan.
Scans(new, d) ==
    /\ 0 < new.next_scan /\ new.next_scan =< now => new.next_scan = d.next_scan
    /\ now < d.next_scan => now < new.next_scan
    /\ Rem(d) => Rem(new) \/ PutOff(new, d)

\* An operation that leaves the cache sound and the sweeper informed.
Fine(new, d) == Sound(new) /\ Scans(new, d)

\* Such operations compose.
LEMMA FineTwice ==
    ASSUME NEW a, NEW b, NEW e, Sound(a), Clock, Fine(b, a), Fine(e, b)
    PROVE Fine(e, a)
<1>1. a.next_scan \in Nat /\ b.next_scan \in Nat /\ e.next_scan \in Nat /\ now \in Nat
  BY Constants DEF Fine, Sound, CacheSet, Clock
<1>2. /\ 0 < e.next_scan /\ e.next_scan =< now => e.next_scan = a.next_scan
      /\ now < a.next_scan => now < e.next_scan
  BY <1>1 DEF Fine, Scans
<1>3. ASSUME Rem(a) PROVE Rem(e) \/ PutOff(e, a)
  <2>1. CASE Rem(b)
    BY <1>1, <2>1 DEF Fine, Scans, PutOff
  <2>2. CASE PutOff(b, a)
    BY <1>1, <2>2 DEF Fine, Scans, PutOff
  <2> QED BY <1>3, <2>1, <2>2 DEF Fine, Scans
<1> QED BY <1>2, <1>3 DEF Fine, Scans

\* What deletes keeps.
LEMMA EvictedFine ==
    ASSUME NEW d, Sound(d), Clock, NEW new, Evicted(new, d)
    PROVE Fine(new, d)
<1>1. d.next_scan \in Nat /\ new.next_scan \in Nat /\ now \in Nat
  BY Constants DEF Evicted, Sound, CacheSet, Clock
<1>2. ScanDue(d) => d.next_scan =< now /\ now < new.next_scan
  BY <1>1, Constants DEF Evicted, ScanDue, Clock
<1>3. ~ScanDue(d) => new.next_scan = d.next_scan
  BY DEF Evicted
<1>4. ASSUME Rem(d), ~PutOff(new, d), ~uc.purge_lru, NEW i \in Used(new)
      PROVE Recalled(new, i)
  <2>1. /\ i \in Used(d) /\ new.items[i].expires = d.items[i].expires
        /\ new.items[i].abs = d.items[i].abs
    BY DEF Evicted, Fewer
  <2>2. Recalled(d, i)
    BY <1>4, <2>1 DEF Rem
  <2>3. CASE d.next_scan = 0
    BY <2>1, <2>2, <2>3 DEF Recalled
  <2>4. CASE d.next_scan # 0
    <3>1. ~ScanDue(d)
      BY <1>1, <1>2, <1>4, <2>4 DEF PutOff
    <3> QED BY <1>3, <2>1, <2>2, <3>1 DEF Recalled
  <2> QED BY <2>3, <2>4
<1>5. Rem(d) => Rem(new) \/ PutOff(new, d)
  BY <1>4 DEF Rem
<1>6. /\ 0 < new.next_scan /\ new.next_scan =< now => new.next_scan = d.next_scan
      /\ now < d.next_scan => now < new.next_scan
  BY <1>1, <1>2, <1>3
<1> QED BY <1>5, <1>6 DEF Fine, Scans, Evicted

\* Deleting leaves the sweeper informed of what is left.
LEMMA ReducedFine ==
    ASSUME NEW d, Sound(d), Clock, NEW new, Reduced(new, d)
    PROVE Fine(new, d)
<1>1. ASSUME Rem(d), ~uc.purge_lru, NEW i \in Used(new) PROVE Recalled(new, i)
  <2>1. /\ i \in Used(d) /\ new.items[i].expires = d.items[i].expires
        /\ new.items[i].abs = d.items[i].abs
    BY DEF Reduced, Fewer
  <2>2. Recalled(d, i)
    BY <1>1, <2>1 DEF Rem
  <2> QED BY <2>1, <2>2 DEF Recalled, Reduced
<1>2. Rem(d) => Rem(new)
  BY <1>1 DEF Rem
<1> QED BY <1>2 DEF Fine, Scans, Reduced

\* The lifetimes that are asked for: only an absolute expiry is beyond the last.
Lifetime(e, fl) == e \in 0..MaxTime \/ ("abs" \in fl /\ e \in 0..(MaxTime + 1))

\* The next scan t after a reminder.
Reminded(t, d, e, fl) ==
    /\ t \in 0..(2 * MaxTime)
    /\ t = d.next_scan \/ (now < t /\ (d.next_scan = 0 \/ t < d.next_scan))
    /\ e > 0 /\ ~uc.purge_lru /\ "abs" \notin fl => t # 0 /\ t =< e + now

\* A reminder changes next_scan alone, and keeps it the earliest expiry.
LEMMA RemindWrites ==
    ASSUME NEW d, Sound(d), Clock, NEW e, NEW fl, Lifetime(e, fl), NEW new, new = Remind(d, e, fl)
    PROVE /\ Sound(new) /\ Used(new) = Used(d) /\ new.items = d.items
          /\ Reminded(new.next_scan, d, e, fl)
          /\ SameStack(new, d) /\ SameBlocks(new, d)
<1>1. d.next_scan \in 0..(2 * MaxTime) /\ e \in Nat /\ now \in 1..MaxTime /\ MaxTime \in Nat
  BY Constants DEF Sound, CacheSet, Lifetime, Clock
<1>2. CASE /\ e > 0 /\ ~uc.purge_lru /\ "abs" \notin fl
           /\ d.next_scan = 0 \/ d.next_scan > e + now
  <2>1. PICK t \in 0..(2 * MaxTime) : t = e + now
    BY <1>1, <1>2 DEF Lifetime
  <2>2. new = [d EXCEPT !.next_scan = t]
    BY <1>2, <2>1 DEF Remind
  <2>3. /\ Sound(new) /\ Used(new) = Used(d) /\ new.items = d.items /\ new.next_scan = t
        /\ SameStack(new, d) /\ SameBlocks(new, d)
    BY <2>2, ScanSet
  <2>4. Reminded(t, d, e, fl)
    BY <1>1, <1>2, <2>1 DEF Reminded
  <2> QED BY <2>3, <2>4
<1>3. CASE ~(/\ e > 0 /\ ~uc.purge_lru /\ "abs" \notin fl
             /\ d.next_scan = 0 \/ d.next_scan > e + now)
  <2>1. new = d
    BY <1>3 DEF Remind
  <2>2. Reminded(d.next_scan, d, e, fl)
    BY <1>1, <1>3 DEF Reminded
  <2> QED BY <2>1, <2>2 DEF SameStack, SameBlocks
<1> QED BY <1>2, <1>3

\* The expiry is in bounds.
LEMMA ExpiryBounds ==
    ASSUME Clock, NEW e, NEW fl, Lifetime(e, fl)
    PROVE Expiry(e, fl) \in 0..(2 * MaxTime)
<1>1. MaxTime \in Nat /\ MaxTime >= 1 /\ now \in 1..MaxTime
  BY Constants DEF Clock
<1>2. CASE "abs" \in fl
  BY <1>1, <1>2 DEF Lifetime, Expiry
<1>3. CASE "abs" \notin fl
  <2>1. e \in 0..MaxTime
    BY <1>3 DEF Lifetime
  <2> QED BY <1>1, <2>1 DEF Expiry
<1> QED BY <1>2, <1>3

\* Item i gets an expiry, of which the sweeper is told.
Dated(new, d, i, e, fl) ==
    /\ Used(new) \subseteq Used(d) \cup {i}
    /\ new.items[i].expires = Expiry(e, fl) /\ (new.items[i].abs <=> "abs" \in fl)
    /\ \A j \in Used(new) \ {i} : /\ new.items[j].expires = d.items[j].expires
                                  /\ new.items[j].abs = d.items[j].abs
    /\ Reminded(new.next_scan, d, e, fl)

\* So the sweeper is still informed of every item.
LEMMA DatedFine ==
    ASSUME NEW d, Sound(d), Clock, NEW e, NEW fl, Lifetime(e, fl), NEW i \in Index,
           NEW new, Sound(new), Dated(new, d, i, e, fl)
    PROVE Fine(new, d)
<1>1. /\ d.next_scan \in Nat /\ new.next_scan \in Nat /\ now \in Nat /\ e \in Nat
      /\ \A j \in Index : d.items[j].expires \in Nat
  <2>1. \A j \in Index : d.items[j].expires \in Nat
    BY ChainTypes, Constants DEF Sound, ItemSet
  <2> QED BY <2>1, Constants DEF Sound, CacheSet, Clock, Lifetime
<1>2. /\ 0 < new.next_scan /\ new.next_scan =< now => new.next_scan = d.next_scan
      /\ now < d.next_scan => now < new.next_scan
  BY <1>1 DEF Dated, Reminded
<1>3. ASSUME Rem(d), ~uc.purge_lru, NEW j \in Used(new) PROVE Recalled(new, j)
  <2>1. CASE j = i
    <3>1. CASE "abs" \in fl
      BY <2>1, <3>1 DEF Dated, Recalled
    <3>2. CASE "abs" \notin fl
      BY <1>1, <1>3, <2>1, <3>2 DEF Dated, Recalled, Reminded, Expiry
    <3> QED BY <3>1, <3>2
  <2>2. CASE j # i
    <3>1. /\ j \in Used(d) /\ new.items[j].expires = d.items[j].expires
          /\ new.items[j].abs = d.items[j].abs
      BY <2>2 DEF Dated
    <3>2. Recalled(d, j) /\ j \in Index
      BY <1>3, <3>1 DEF Rem, Used
    <3>3. new.next_scan = d.next_scan \/ d.next_scan = 0 \/ new.next_scan < d.next_scan
      BY DEF Dated, Reminded
    <3>4. new.next_scan = d.next_scan \/ new.next_scan # 0
      BY <1>1 DEF Dated, Reminded
    <3> QED BY <1>1, <3>1, <3>2, <3>3, <3>4 DEF Recalled
  <2> QED BY <2>1, <2>2
<1>4. Rem(d) => Rem(new)
  BY <1>3 DEF Rem
<1> QED BY <1>2, <1>4 DEF Fine, Scans

------------------------------------------------------------------------------
(* Using an item again, and finding blocks.                                 *)

\* What does not depend on the lists stays.
LEMMA BodyFrame ==
    ASSUME NEW d, NEW new, SameBody(new, d), SameStack(new, d), SameBlocks(new, d)
    PROVE /\ Used(new) = Used(d)
          /\ Stacked(d) => Stacked(new)
          /\ Keyed(d) => Keyed(new)
          /\ Padded(d) => Padded(new)
          /\ Exact(d) => Exact(new)
<1>1. Used(new) = Used(d) /\ Used(d) \subseteq Index
  BY DEF SameBody, Used
<1>2. Stacked(d) => Stacked(new)
  BY <1>1 DEF Stacked, SameStack
<1>3. Keyed(d) => Keyed(new)
  BY <1>1 DEF Keyed, SameBody
<1>4. \A i \in Index : RunOf(new, i) = RunOf(d, i)
  BY DEF SameBody, RunOf
<1>5. Padded(d) => Padded(new)
  <2>1. \A i \in Index : new.items[i].size = d.items[i].size
    BY DEF SameBody
  <2> QED BY <1>1, <1>4, <2>1 DEF Padded, SameBlocks
<1>6. Exact(d) => Exact(new)
  <2> SUFFICES ASSUME Exact(d) PROVE Exact(new)
    OBVIOUS
  <2>1. {RunOf(new, i) : i \in Used(new)} = {RunOf(d, i) : i \in Used(d)}
    BY <1>1, <1>4
  <2>2. new.bitmap = d.bitmap
    BY DEF SameBlocks
  <2>3. \A i, j \in Used(new) : i # j => RunOf(new, i) \cap RunOf(new, j) = {}
    BY <1>1, <1>4 DEF Exact
  <2> QED BY <2>1, <2>2, <2>3 DEF Exact
<1> QED BY <1>1, <1>2, <1>3, <1>5, <1>6

\* An item that is looked at goes to the end of the LRU list.
LEMMA TouchReduces ==
    ASSUME NEW d, Sound(d), NEW i \in Used(d), NEW new, new = Touch(d, i)
    PROVE Reduced(new, d) /\ Used(new) = Used(d)
<1>1. d \in CacheSet /\ i \in Index
  BY DEF Sound, Used
<1>2. CASE ~uc.purge_lru
  BY <1>2 DEF Touch, Reduced, Fewer
<1>3. CASE uc.purge_lru
  <2>1. PICK b : b = LruRemove(d, i)
    OBVIOUS
  <2>2. new = LruAdd(b, i)
    BY <1>3, <2>1 DEF Touch
  <2>3. OnlyLru(b, d) /\ (Listed(d) => ListedBut(b, i))
    BY <1>1, <2>1, LruRemoveLeaves
  <2>4. b \in CacheSet /\ i \in Used(b)
    BY <1>1, <2>3 DEF OnlyLru, SameBody, Used
  <2>5. OnlyLru(new, b) /\ (ListedBut(b, i) => Listed(new))
    BY <2>2, <2>4, LruAddEnters
  <2>6. OnlyLru(new, d)
    BY <2>3, <2>5, OnlyLruTwice
  <2>7. /\ new \in CacheSet /\ SameBody(new, d) /\ SameChains(new, d)
        /\ SameBlocks(new, d) /\ SameStack(new, d) /\ new.next_scan = d.next_scan
    BY <2>6 DEF OnlyLru
  <2>8. Chained(new) /\ Used(new) = Used(d)
    BY <2>7, ChainsFrame DEF Sound
  <2>9. Sound(new)
    BY <2>3, <2>5, <2>7, <2>8, BodyFrame DEF Sound
  <2>10. Fewer(new, d)
    BY <2>7, <2>8 DEF Fewer, SameBody, Used
  <2> QED BY <2>7, <2>8, <2>9, <2>10 DEF Reduced
<1> QED BY <1>2, <1>3

\* Only the expiry of item i changes.
Expires(new, d, i, x, a) ==
    /\ Used(new) = Used(d) /\ new.next_scan = d.next_scan
    /\ new.items[i].expires = x /\ (new.items[i].abs <=> a)
    /\ \A j \in Index \ {i} : /\ new.items[j].expires = d.items[j].expires
                              /\ new.items[j].abs = d.items[j].abs

\* Writing the expiry keeps the cache sound.
LEMMA ExpiryWrites ==
    ASSUME NEW d, Sound(d), NEW i \in Index, NEW x \in 0..(2 * MaxTime), NEW a \in BOOLEAN, NEW new,
           new = [d EXCEPT !.items[i].expires = x, !.items[i].abs = a]
    PROVE Sound(new) /\ Expires(new, d, i, x, a)
<1>1. d \in CacheSet
  BY DEF Sound
<1>2. PICK z \in ItemSet : z = d.items[i]
  BY <1>1, ChainTypes
<1>3. PICK y \in ItemSet : y = [z EXCEPT !.expires = x, !.abs = a]
  BY <1>2 DEF ItemSet
<1>4. new = [d EXCEPT !.items[i] = y]
  BY <1>1, <1>2, <1>3 DEF CacheSet, ItemSet
<1>5. Rewritten(new, d, i, y)
  BY <1>1, <1>4, ItemWritten
<1>6. /\ y.key = z.key /\ y.hash = z.hash /\ y.size = z.size /\ y.first = z.first
      /\ y.prev = z.prev /\ y.next = z.next /\ y.lru_prev = z.lru_prev /\ y.lru_next = z.lru_next
      /\ y.expires = x /\ (y.abs <=> a)
  BY <1>2, <1>3 DEF ItemSet
<1>7. /\ new \in CacheSet /\ \A j \in Index : new.items[j] = IF j = i THEN y ELSE d.items[j]
      /\ new.hashtable = d.hashtable /\ new.lru_head = d.lru_head /\ new.lru_tail = d.lru_tail
      /\ new.next_scan = d.next_scan /\ SameBlocks(new, d) /\ SameStack(new, d)
  BY <1>5 DEF Rewritten
<1>8. \A j \in Index :
        /\ new.items[j].key = d.items[j].key /\ new.items[j].hash = d.items[j].hash
        /\ new.items[j].size = d.items[j].size /\ new.items[j].first = d.items[j].first
        /\ new.items[j].prev = d.items[j].prev /\ new.items[j].next = d.items[j].next
        /\ new.items[j].lru_prev = d.items[j].lru_prev /\ new.items[j].lru_next = d.items[j].lru_next
  BY <1>2, <1>6, <1>7
<1>9. Used(new) = Used(d) /\ \A h : InChain(new, h) = InChain(d, h)
  BY <1>8 DEF Used, InChain
<1>10. Chained(new)
  <2>1. Nexts(new) = Nexts(d) /\ Prevs(new) = Prevs(d)
    BY <1>8 DEF Nexts, Prevs
  <2> QED BY <1>7, <1>9, <2>1 DEF Sound, Chained, ChainIs
<1>11. Listed(d) => Listed(new)
  <2>1. LruNexts(new) = LruNexts(d) /\ LruPrevs(new) = LruPrevs(d)
    BY <1>8 DEF LruNexts, LruPrevs
  <2> QED BY <1>7, <1>9, <2>1 DEF Listed
<1>12. Stacked(new)
  BY <1>7, <1>9 DEF Sound, Stacked, SameStack
<1>13. Keyed(new)
  <2>1. Used(d) \subseteq Index
    BY DEF Used
  <2> QED BY <1>8, <1>9, <2>1 DEF Sound, Keyed
<1>14. \A j \in Index : RunOf(new, j) = RunOf(d, j)
  BY <1>8 DEF RunOf
<1>15. Padded(d) => Padded(new)
  <2>1. Used(d) \subseteq Index
    BY DEF Used
  <2> QED BY <1>7, <1>8, <1>9, <1>14, <2>1 DEF Padded, SameBlocks
<1>16. Exact(d) => Exact(new)
  <2> SUFFICES ASSUME Exact(d) PROVE Exact(new)
    OBVIOUS
  <2>1. Used(d) \subseteq Index
    BY DEF Used
  <2>2. {RunOf(new, j) : j \in Used(new)} = {RunOf(d, j) : j \in Used(d)}
    BY <1>9, <1>14, <2>1
  <2>3. \A j, l \in Used(new) : j # l => RunOf(new, j) \cap RunOf(new, l) = {}
    BY <1>9, <1>14, <2>1 DEF Exact
  <2> QED BY <1>7, <2>2, <2>3 DEF Exact, SameBlocks
<1>17. Sound(new)
  BY <1>7, <1>10, <1>11, <1>12, <1>13, <1>15, <1>16 DEF Sound
<1>18. Expires(new, d, i, x, a)
  BY <1>6, <1>7, <1>9 DEF Expires
<1> QED BY <1>17, <1>18

\* A flag as a Boolean.
LEMMA FlagIs ==
    ASSUME NEW fl
    PROVE \E s \in BOOLEAN : s = ("abs" \in fl)
<1>1. ("abs" \in fl) = TRUE \/ ("abs" \in fl) = FALSE
  <2>1. CASE "abs" \in fl
    BY <2>1
  <2>2. CASE "abs" \notin fl
    BY <2>2
  <2> QED BY <2>1, <2>2
<1> QED BY <1>1, Zenon

\* Renew tells the sweeper of the new expiry.
LEMMA RenewFine ==
    ASSUME NEW d, Sound(d), Clock, NEW e, NEW fl, Lifetime(e, fl), NEW i \in Used(d),
           NEW new, new = Renew(d, i, e, fl)
    PROVE Fine(new, d) /\ i \in Used(new)
<1>1. i \in Index
  BY DEF Used
<1>2. CASE "fixexpire" \in fl
  <2>1. new = d
    BY <1>2 DEF Renew
  <2>2. Fine(d, d)
    BY DEF Fine, Scans
  <2> QED BY <2>1, <2>2
<1>3. CASE "fixexpire" \notin fl
  <2>1. PICK a : a = Touch(d, i)
    OBVIOUS
  <2>2. PICK b : b = Remind(a, e, fl)
    OBVIOUS
  <2>3. PICK x \in 0..(2 * MaxTime) : x = Expiry(e, fl)
    BY ExpiryBounds
  <2>4. PICK s \in BOOLEAN : s = ("abs" \in fl)
    BY FlagIs, Zenon
  <2>5. new = [b EXCEPT !.items[i].expires = x, !.items[i].abs = s]
    BY <1>3, <2>1, <2>2, <2>3, <2>4 DEF Renew
  <2>6. Reduced(a, d) /\ Used(a) = Used(d)
    BY <2>1, TouchReduces
  <2>7. Sound(a)
    BY <2>6 DEF Reduced
  <2>8. Sound(b) /\ Used(b) = Used(a) /\ b.items = a.items /\ Reminded(b.next_scan, a, e, fl)
    BY <2>2, <2>7, RemindWrites
  <2>9. Sound(new) /\ Expires(new, b, i, x, s)
    BY <1>1, <2>5, <2>8, ExpiryWrites
  <2>10. Dated(new, a, i, e, fl)
    <3>1. Used(new) = Used(a) /\ Used(new) \subseteq Index /\ new.next_scan = b.next_scan
      BY <2>8, <2>9 DEF Expires, Used
    <3>2. \A j \in Used(new) \ {i} : /\ new.items[j].expires = a.items[j].expires
                                     /\ new.items[j].abs = a.items[j].abs
      BY <2>8, <2>9, <3>1 DEF Expires
    <3>3. new.items[i].expires = Expiry(e, fl) /\ (new.items[i].abs <=> "abs" \in fl)
      BY <2>3, <2>4, <2>9 DEF Expires
    <3> QED BY <2>8, <3>1, <3>2, <3>3 DEF Dated
  <2>11. Fine(new, a)
    BY <1>1, <2>7, <2>9, <2>10, DatedFine
  <2>12. Fine(a, d)
    BY <2>6, ReducedFine
  <2>13. Fine(new, d)
    BY <2>11, <2>12, FineTwice
  <2> QED BY <2>6, <2>8, <2>9, <2>13 DEF Expires
<1> QED BY <1>2, <1>3

------------------------------------------------------------------------------
(* Storing a new item.                                                      *)

\* Blocks that are found are free.
LEMMA FreeBlocksFound ==
    ASSUME NEW d \in CacheSet, NEW n, NEW first, first = FindFreeBlocks(d, n), first # None
    PROVE first \in Bits /\ Free(d, first, n)
<1>1. PICK ahead : ahead = {b \in Bits : b >= d.pos /\ Free(d, b, n)}
  OBVIOUS
<1>2. PICK behind : behind = {b \in Bits : Free(d, b, n) /\ b + n =< ScanEnd(d)}
  OBVIOUS
<1>3. first = IF ahead # {} THEN Least(ahead) ELSE IF behind # {} THEN Least(behind) ELSE None
  BY <1>1, <1>2 DEF FindFreeBlocks
<1>4. ahead \in SUBSET Nat /\ behind \in SUBSET Nat
  BY <1>1, <1>2 DEF Bits
<1>5. CASE ahead # {}
  <2>1. first \in ahead
    BY <1>3, <1>4, <1>5, LeastNumber
  <2> QED BY <1>1, <2>1
<1>6. CASE ahead = {} /\ behind # {}
  <2>1. first \in behind
    BY <1>3, <1>4, <1>6, LeastNumber
  <2> QED BY <1>2, <2>1
<1>7. CASE ahead = {} /\ behind = {}
  BY <1>3, <1>7
<1> QED BY <1>5, <1>6, <1>7

\* Free blocks are none of the padding.
Fits(first, n) == first \in 0..Blocks /\ Run(first, n) \subseteq Bits \ Padding /\ first + n =< Blocks

\* A free run is inside the blocks, and none of it is marked.
LEMMA FreeFits ==
    ASSUME NEW d \in CacheSet, Padded(d), NEW n \in 1..2, NEW first \in Bits, Free(d, first, n)
    PROVE Fits(first, n) /\ Run(first, n) \cap d.bitmap = {}
<1>1. first \in Nat /\ Blocks \in Nat
  BY Constants DEF Bits
<1>2. first + n - 1 \in Run(first, n) /\ first \in Run(first, n)
  BY <1>1 DEF Run
<1>3. Run(first, n) \subseteq Bits \ d.bitmap
  BY DEF Free
<1>4. Run(first, n) \subseteq Bits \ Padding
  BY <1>3 DEF Padded
<1>5. first + n - 1 < Blocks /\ first < Blocks
  BY <1>1, <1>2, <1>4 DEF Padding
<1> QED BY <1>1, <1>3, <1>4, <1>5 DEF Fits

\* An item is stored at i, and its blocks are marked.
Placed(new, d, i, item, first, n) ==
    /\ new \in CacheSet
    /\ \A j \in Index : new.items[j] = IF j = i THEN item ELSE d.items[j]
    /\ new.hashtable = d.hashtable /\ new.lru_head = d.lru_head /\ new.lru_tail = d.lru_tail
    /\ new.next_scan = d.next_scan
    /\ new.unused = SubSeq(d.unused, 1, Len(d.unused) - 1) /\ new.n_items = d.n_items + 1
    /\ new.bitmap = (IF uc.bitmap THEN d.bitmap \cup Run(first, n) ELSE d.bitmap)

\* Marking blocks, and where the next scan begins.
Marked(new, d, first, n) ==
    /\ new \in CacheSet /\ new.items = d.items /\ new.hashtable = d.hashtable
    /\ new.lru_head = d.lru_head /\ new.lru_tail = d.lru_tail /\ new.next_scan = d.next_scan
    /\ SameStack(new, d) /\ new.bitmap = d.bitmap \cup Run(first, n)

\* cache_mark_blocks marks the run and moves the position of the scan.
LEMMA MarkWrites ==
    ASSUME NEW d \in CacheSet, NEW n \in 1..2, NEW first, Fits(first, n),
           NEW new, new = MarkBlocks(d, first, n)
    PROVE Marked(new, d, first, n)
<1>1. PICK m \in SUBSET Bits : m = d.bitmap \cup Run(first, n)
  BY DEF CacheSet, Fits
<1>2. PICK p \in 0..(Blocks - 1) : p = IF first + n >= Blocks THEN 0 ELSE first + n
  BY Constants DEF Fits
<1>3. new = [d EXCEPT !.bitmap = m, !.pos = p]
  BY <1>1, <1>2 DEF MarkBlocks
<1> QED BY <1>1, <1>3 DEF Marked, CacheSet, SameStack

\* Storing an item writes the item, the stack and the bitmap.
LEMMA PlaceWrites ==
    ASSUME NEW d \in CacheSet, NEW i \in Index, NEW item \in ItemSet, NEW n \in 1..2, NEW first,
           uc.bitmap => Fits(first, n), Len(d.unused) >= 1,
           NEW new, new = Store(Occupy(d, first, n), i, item)
    PROVE Placed(new, d, i, item, first, n)
<1>1. PICK a : a = Occupy(d, first, n)
  OBVIOUS
<1>2. /\ a \in CacheSet /\ a.items = d.items /\ a.hashtable = d.hashtable
      /\ a.lru_head = d.lru_head /\ a.lru_tail = d.lru_tail /\ a.next_scan = d.next_scan
      /\ a.unused = d.unused /\ a.n_items = d.n_items
      /\ a.bitmap = (IF uc.bitmap THEN d.bitmap \cup Run(first, n) ELSE d.bitmap)
  <2>1. CASE uc.bitmap
    <3>1. Marked(a, d, first, n)
      BY <1>1, <2>1, MarkWrites DEF Occupy
    <3> QED BY <2>1, <3>1 DEF Marked, SameStack
  <2>2. CASE ~uc.bitmap
    BY <1>1, <2>2 DEF Occupy
  <2> QED BY <2>1, <2>2
<1>3. PICK u \in Seq(Index) : u = SubSeq(a.unused, 1, Len(a.unused) - 1)
  <2>1. PICK v \in Seq(Index) : v = a.unused
    BY <1>2 DEF CacheSet
  <2>2. Len(v) \in Nat /\ \A x \in 1..Len(v) : v[x] \in Index
    BY LenProperties, ElementOfSeq
  <2>3. SubSeq(v, 1, Len(v) - 1) \in Seq(Index)
    <3>1. \A x \in 1..(Len(v) - 1) : v[x] \in Index
      BY <2>2
    <3> QED BY <2>2, <3>1, SubSeqProperties
  <2> QED BY <2>1, <2>3
<1>4. PICK m \in Int : m = a.n_items + 1
  BY <1>2 DEF CacheSet
<1>5. PICK b : b = [a EXCEPT !.items[i] = item]
  OBVIOUS
<1>6. Rewritten(b, a, i, item)
  BY <1>2, <1>5, ItemWritten
<1>7. new = [b EXCEPT !.unused = u, !.n_items = m]
  <2>1. new = [a EXCEPT !.unused = u, !.items[i] = item, !.n_items = m]
    BY <1>1, <1>3, <1>4 DEF Store
  <2> QED BY <1>2, <1>5, <2>1 DEF CacheSet
<1>8. /\ new \in CacheSet /\ new.items = b.items /\ new.hashtable = b.hashtable
      /\ new.lru_head = b.lru_head /\ new.lru_tail = b.lru_tail /\ new.next_scan = b.next_scan
      /\ new.unused = u /\ new.n_items = m /\ new.bitmap = b.bitmap
  BY <1>6, <1>7 DEF CacheSet, Rewritten
<1> QED BY <1>2, <1>3, <1>4, <1>6, <1>8 DEF Placed, Rewritten, SameBlocks

\* The item is used, and the others as before.
LEMMA PlacedUses ==
    ASSUME NEW d \in CacheSet, NEW i \in Index, NEW item, item.key # NoKey, NEW n, NEW first,
           NEW new, Placed(new, d, i, item, first, n)
    PROVE Used(new) = Used(d) \cup {i}
<1>1. new.items[i].key # NoKey /\ \A j \in Index : j # i => new.items[j].key = d.items[j].key
  BY DEF Placed
<1> QED BY <1>1 DEF Used

\* The top of the stack is taken.
Top(d, i) == Len(d.unused) >= 1 /\ i = d.unused[Len(d.unused)]

\* The stack has the others, and the count is one more.
LEMMA PlacedStack ==
    ASSUME NEW d \in CacheSet, Stacked(d), NEW i \in Index, Top(d, i),
           NEW item, item.key # NoKey, NEW n, NEW first, NEW new, Placed(new, d, i, item, first, n)
    PROVE Stacked(new) /\ i \notin Used(d)
<1>1. Used(new) = Used(d) \cup {i} /\ IsFiniteSet(Used(d))
  BY PlacedUses, ChainTypes
<1>2. PICK u \in Seq(Index) : u = d.unused
  BY DEF CacheSet
<1>3. PICK v \in Seq(Index) : v = new.unused
  BY DEF CacheSet, Placed
<1>4. Len(u) \in Nat /\ Len(u) >= 1 /\ i = u[Len(u)]
  BY <1>2, LenProperties DEF Top
<1>5. v = SubSeq(u, 1, Len(u) - 1)
  BY <1>2, <1>3 DEF Placed
<1>6. \A x \in 1..(Len(u) - 1) : u[x] \in Index
  <2>1. \A x \in 1..Len(u) : u[x] \in Index
    BY ElementOfSeq
  <2> QED BY <1>4, <2>1
<1>7. Len(v) = Len(u) - 1 /\ \A x \in 1..(Len(u) - 1) : v[x] = u[x]
  <2>1. PICK l \in Nat : l = Len(u) - 1
    BY <1>4
  <2>2. /\ Len(SubSeq(u, 1, l)) = IF 1 =< l THEN l - 1 + 1 ELSE 0
        /\ \A x \in 1..(l - 1 + 1) : SubSeq(u, 1, l)[x] = u[1 + x - 1]
    BY <1>6, <2>1, SubSeqProperties
  <2>3. Len(v) = IF 1 =< l THEN l - 1 + 1 ELSE 0
    BY <1>5, <2>1, <2>2
  <2>4. \A x \in 1..(l - 1 + 1) : v[x] = u[1 + x - 1]
    BY <1>5, <2>1, <2>2
  <2>5. ASSUME NEW x \in 1..l PROVE v[x] = u[x]
    <3>1. x \in 1..(l - 1 + 1) /\ 1 + x - 1 = x
      BY <2>1
    <3> QED BY <2>4, <3>1
  <2> QED BY <2>1, <2>3, <2>5
<1>8. /\ \A x, y \in 1..Len(u) : u[x] = u[y] => x = y
      /\ \A x \in 1..Len(u) : u[x] \notin Used(d)
      /\ \A j \in Index \ Used(d) : \E x \in 1..Len(u) : u[x] = j
      /\ Len(u) + Cardinality(Used(d)) = MaxItems - 1
      /\ d.n_items = Cardinality(Used(d))
  BY <1>2 DEF Stacked
<1>9. i \notin Used(d)
  BY <1>4, <1>8
<1>10. Cardinality(Used(d) \cup {i}) = Cardinality(Used(d)) + 1 /\ Cardinality(Used(d)) \in Nat
  BY <1>1, <1>9, FS_AddElement, FS_CardinalityType
<1>11. \A x \in 1..Len(v) : x \in 1..Len(u) /\ x # Len(u) /\ v[x] = u[x]
  BY <1>4, <1>7
<1>12. \A x, y \in 1..Len(v) : v[x] = v[y] => x = y
  BY <1>8, <1>11
<1>13. ASSUME NEW x \in 1..Len(v) PROVE v[x] \notin Used(new)
  <2>1. u[x] \notin Used(d)
    BY <1>8, <1>11
  <2>2. u[x] # i
    BY <1>4, <1>8, <1>11
  <2> QED BY <1>1, <1>11, <2>1, <2>2
<1>14. ASSUME NEW j \in Index \ Used(new) PROVE \E x \in 1..Len(v) : v[x] = j
  <2>1. j \in Index \ Used(d) /\ j # i
    BY <1>1
  <2>2. PICK x \in 1..Len(u) : u[x] = j
    BY <1>8, <2>1
  <2>3. x \in 1..Len(v) /\ v[x] = j
    BY <1>4, <1>7, <2>1, <2>2
  <2> QED BY <2>3
<1>15. Len(v) + Cardinality(Used(new)) = MaxItems - 1 /\ new.n_items = Cardinality(Used(new))
  <2>1. new.n_items = d.n_items + 1
    BY DEF Placed
  <2> QED BY <1>1, <1>4, <1>7, <1>8, <1>10, <2>1, Constants
<1> QED BY <1>3, <1>9, <1>12, <1>13, <1>14, <1>15 DEF Stacked

\* The key of the item was not stored.
LEMMA PlacedKeys ==
    ASSUME NEW d \in CacheSet, Keyed(d), NEW i \in Index, NEW k \in Key, NEW item,
           item.key = k, item.hash = Hash[k], \A j \in Used(d) : d.items[j].key # k,
           NEW n, NEW first, NEW new, Placed(new, d, i, item, first, n)
    PROVE Keyed(new)
<1>1. Used(new) = Used(d) \cup {i} /\ Used(d) \subseteq Index
  BY PlacedUses, Constants DEF Used
<1>2. new.items[i].key = k /\ new.items[i].hash = Hash[k]
  BY DEF Placed
<1>3. \A j \in Used(d) \ {i} : /\ new.items[j].key = d.items[j].key
                               /\ new.items[j].hash = d.items[j].hash
  BY <1>1 DEF Placed
<1> QED BY <1>1, <1>2, <1>3 DEF Keyed

\* The blocks were free.
LEMMA PlacedBlocks ==
    ASSUME NEW d \in CacheSet, NEW i \in Index \ Used(d), NEW n \in 1..2, NEW first \in Bits,
           uc.bitmap, Padded(d), Free(d, first, n),
           NEW item, item.key # NoKey, item.first = first, item.size = n,
           NEW new, Placed(new, d, i, item, first, n)
    PROVE Padded(new) /\ (Exact(d) => Exact(new))
<1>1. Used(new) = Used(d) \cup {i} /\ Used(d) \subseteq Index
  BY PlacedUses DEF Used
<1>2. Run(first, n) \subseteq Bits \ Padding /\ Run(first, n) \cap d.bitmap = {}
  BY FreeFits DEF Fits
<1>3. RunOf(new, i) = Run(first, n)
  BY DEF Placed, RunOf
<1>4. \A j \in Index \ {i} : RunOf(new, j) = RunOf(d, j) /\ new.items[j].size = d.items[j].size
  BY DEF Placed, RunOf
<1>5. new.bitmap = d.bitmap \cup Run(first, n)
  BY DEF Placed
<1>6. Padded(new)
  BY <1>1, <1>2, <1>3, <1>4, <1>5 DEF Padded
<1>7. ASSUME Exact(d) PROVE Exact(new)
  <2>1. d.bitmap = Padding \cup UNION {RunOf(d, j) : j \in Used(d)}
    BY <1>7 DEF Exact
  <2>2. \A j \in Used(d) : RunOf(new, j) = RunOf(d, j) /\ RunOf(d, j) \cap Run(first, n) = {}
    BY <1>1, <1>2, <1>4, <2>1
  <2>3. ASSUME NEW b
        PROVE b \in new.bitmap <=> b \in Padding \/ \E j \in Used(new) : b \in RunOf(new, j)
    <3>1. b \in d.bitmap <=> b \in Padding \/ \E j \in Used(d) : b \in RunOf(d, j)
      BY <2>1
    <3> QED BY <1>1, <1>3, <1>5, <2>2, <3>1
  <2>4. new.bitmap = Padding \cup UNION {RunOf(new, j) : j \in Used(new)}
    BY <2>3
  <2>5. \A j, l \in Used(new) : j # l => RunOf(new, j) \cap RunOf(new, l) = {}
    <3>1. \A j, l \in Used(d) : j # l => RunOf(d, j) \cap RunOf(d, l) = {}
      BY <1>7 DEF Exact
    <3> QED BY <1>1, <1>3, <2>2, <3>1
  <2> QED BY <2>4, <2>5 DEF Exact
<1> QED BY <1>6, <1>7

\* The item is in no list yet.
LEMMA PlacedLists ==
    ASSUME NEW d \in CacheSet, NEW i \in Index \ Used(d), NEW item, item.key # NoKey,
           NEW n, NEW first, NEW new, Placed(new, d, i, item, first, n)
    PROVE (Chained(d) => ChainedBut(new, i)) /\ (Listed(d) => ListedBut(new, i))
<1>1. new \in CacheSet /\ Used(new) = Used(d) \cup {i} /\ Used(d) \subseteq Index
  BY PlacedUses DEF Used, Placed
<1>2. \A j \in Used(d) : new.items[j] = d.items[j]
  BY <1>1 DEF Placed
<1>3. \A h : InChain(new, h) \ {i} = InChain(d, h)
  BY <1>1, <1>2 DEF InChain
<1>4. Used(new) \ {i} = Used(d)
  BY <1>1
<1>5. /\ new.hashtable = d.hashtable
      /\ new.lru_head = d.lru_head /\ new.lru_tail = d.lru_tail
  BY DEF Placed
<1>6. ASSUME Chained(d) PROVE ChainedBut(new, i)
  <2> SUFFICES ASSUME NEW h \in Slot
               PROVE \E t : Linked(InChain(new, h) \ {i}, Nexts(new), Prevs(new), new.hashtable[h], t)
    BY DEF ChainedBut
  <2>1. PICK t : Linked(InChain(d, h), Nexts(d), Prevs(d), d.hashtable[h], t)
    BY <1>6 DEF Chained, ChainIs
  <2>2. PICK nx, pv : nx = Nexts(new) /\ pv = Prevs(new)
    OBVIOUS
  <2>3. \A j \in InChain(d, h) : nx[j] = Nexts(d)[j] /\ pv[j] = Prevs(d)[j]
    <3>1. \A j \in InChain(d, h) : j \in Index /\ new.items[j] = d.items[j]
      BY <1>1, <1>2 DEF InChain
    <3> QED BY <1>1, <2>2, <3>1, ChainTypes
  <2>4. Linked(InChain(d, h), nx, pv, d.hashtable[h], t)
    BY <2>1, <2>3, ListFrame
  <2> QED BY <1>3, <1>5, <2>2, <2>4
<1>7. ASSUME Listed(d) PROVE ListedBut(new, i)
  <2>1. PICK nx, pv : nx = LruNexts(new) /\ pv = LruPrevs(new)
    OBVIOUS
  <2>2. \A j \in Used(d) : nx[j] = LruNexts(d)[j] /\ pv[j] = LruPrevs(d)[j]
    BY <1>1, <1>2, <2>1, ChainTypes
  <2>3. Linked(Used(d), nx, pv, d.lru_head, d.lru_tail)
    BY <1>7, <2>2, ListFrame DEF Listed
  <2> QED BY <1>4, <1>5, <2>1, <2>3 DEF ListedBut
<1> QED BY <1>6, <1>7

\* What a new item holds.
ItemIs(item, k, n, e, fl, first) ==
    /\ item \in ItemSet /\ item.key = k /\ item.hash = Hash[k] /\ item.size = n
    /\ item.first = first /\ item.prev = 0 /\ item.next = 0
    /\ item.expires = Expiry(e, fl) /\ (item.abs <=> "abs" \in fl)

\* uwsgi_cache_set2 fills in the item like that.
LEMMA NewItemIs ==
    ASSUME Clock, NEW k \in Key, NEW n \in 1..2, NEW e, NEW fl, Lifetime(e, fl),
           NEW first \in 0..Blocks, NEW item, item = NewItem(k, n, e, fl, first)
    PROVE ItemIs(item, k, n, e, fl, first)
<1>1. PICK s \in BOOLEAN : s = ("abs" \in fl)
  BY FlagIs, Zenon
<1>2. PICK x \in 0..(2 * MaxTime) : x = Expiry(e, fl)
  BY ExpiryBounds
<1>3. PICK h \in Slot : h = Hash[k]
  BY Constants
<1>4. item = [Unused EXCEPT !.key = k, !.hash = h, !.size = n, !.first = first,
                            !.expires = x, !.abs = s]
  BY <1>1, <1>2, <1>3 DEF NewItem
<1>5. /\ item.key = k /\ item.hash = h /\ item.size = n /\ item.first = first
      /\ item.prev = 0 /\ item.next = 0 /\ item.expires = x /\ item.abs = s
      /\ item \in ItemSet
  <2>1. item = [key |-> k, hash |-> h, size |-> n, first |-> first, prev |-> 0, next |-> 0,
                lru_prev |-> 0, lru_next |-> 0, expires |-> x, abs |-> s]
    BY <1>4 DEF Unused
  <2>2. k \in Key \cup {NoKey} /\ n \in 0..2 /\ 0 \in Items0
    BY Constants
  <2>3. item \in ItemSet
    BY <2>1, <2>2 DEF ItemSet
  <2> QED BY <2>1, <2>3
<1> QED BY <1>1, <1>2, <1>3, <1>5 DEF ItemIs

\* The item and the blocks that SetAt gets.
Room(d, i, first, n) ==
    /\ i \in Index /\ Top(d, i) /\ first \in 0..Blocks
    /\ uc.bitmap => first \in Bits /\ Free(d, first, n)

\* SetAt when there is room.
LEMMA InsertFine ==
    ASSUME NEW d, Sound(d), Clock, NEW k \in Key, \A j \in Used(d) : d.items[j].key # k,
           NEW n \in 1..2, NEW e, NEW fl, Lifetime(e, fl),
           NEW i, NEW first, Room(d, i, first, n), first # None,
           NEW new, new = SetAt(d, i, first, k, n, e, fl)
    PROVE Fine(new, d)
<1>1. PICK a : a = Remind(d, e, fl)
  OBVIOUS
<1>2. PICK item : item = NewItem(k, n, e, fl, first)
  OBVIOUS
<1>3. PICK b : b = Store(Occupy(a, first, n), i, item)
  OBVIOUS
<1>4. PICK l : l = LruInsert(b, i)
  OBVIOUS
<1>5. new = Link(l, i)
  BY <1>1, <1>2, <1>3, <1>4 DEF SetAt
<1>6. /\ Sound(a) /\ Used(a) = Used(d) /\ a.items = d.items
      /\ Reminded(a.next_scan, d, e, fl)
      /\ SameStack(a, d) /\ SameBlocks(a, d)
  BY <1>1, RemindWrites
<1>7. a \in CacheSet /\ Stacked(a) /\ Keyed(a) /\ Chained(a) /\ (uc.bitmap => Padded(a))
  BY <1>6 DEF Sound
<1>8. i \in Index /\ Top(a, i) /\ first \in 0..Blocks
      /\ (uc.bitmap => first \in Bits /\ Free(a, first, n))
  BY <1>6 DEF Room, Top, Free, SameStack, SameBlocks
<1>9. ItemIs(item, k, n, e, fl, first)
  BY <1>2, <1>8, NewItemIs
<1>10. item \in ItemSet /\ item.key = k /\ item.hash = Hash[k] /\ item.key # NoKey
       /\ item.first = first /\ item.size = n /\ item.next = 0 /\ item.prev = 0
  BY <1>9, Constants DEF ItemIs
<1>11. Placed(b, a, i, item, first, n)
  <2>1. uc.bitmap => Fits(first, n)
    BY <1>7, <1>8, FreeFits
  <2> QED BY <1>3, <1>7, <1>8, <1>10, <2>1, PlaceWrites DEF Top
<1>12. Stacked(b) /\ i \notin Used(a)
  BY <1>7, <1>8, <1>10, <1>11, PlacedStack
<1>13. b \in CacheSet /\ Used(b) = Used(a) \cup {i} /\ b.next_scan = a.next_scan
  <2>1. Used(b) = Used(a) \cup {i}
    BY <1>7, <1>8, <1>10, <1>11, PlacedUses
  <2> QED BY <1>11, <2>1 DEF Placed
<1>14. Keyed(b)
  <2>1. \A j \in Used(a) : a.items[j].key # k
    BY <1>6
  <2> QED BY <1>7, <1>8, <1>10, <1>11, <2>1, PlacedKeys
<1>15. /\ uc.bitmap => Padded(b)
       /\ uc.bitmap /\ "restarted" \notin seen => Exact(b)
  <2>1. ASSUME uc.bitmap PROVE Padded(b) /\ (Exact(a) => Exact(b))
    <3>1. first \in Bits /\ Free(a, first, n) /\ Padded(a) /\ i \in Index \ Used(a)
      BY <1>7, <1>8, <1>12, <2>1
    <3> QED BY <1>7, <1>10, <1>11, <2>1, <3>1, PlacedBlocks
  <2> QED BY <1>6, <2>1 DEF Sound
<1>16. ChainedBut(b, i) /\ (Listed(a) => ListedBut(b, i))
  <2>1. i \in Index \ Used(a)
    BY <1>8, <1>12
  <2>2. (Chained(a) => ChainedBut(b, i)) /\ (Listed(a) => ListedBut(b, i))
    BY <1>7, <1>10, <1>11, <2>1, PlacedLists
  <2> QED BY <1>7, <2>2
<1>17. OnlyLru(l, b) /\ (uc.purge_lru /\ Listed(a) => Listed(l))
  <2>1. CASE uc.purge_lru
    <3>1. l = LruAdd(b, i) /\ i \in Used(b)
      BY <1>4, <1>13, <2>1 DEF LruInsert
    <3>2. OnlyLru(l, b) /\ (ListedBut(b, i) => Listed(l))
      BY <1>13, <3>1, LruAddEnters
    <3> QED BY <1>16, <3>2
  <2>2. CASE ~uc.purge_lru
    <3>1. l = b
      BY <1>4, <2>2 DEF LruInsert
    <3>2. OnlyLru(b, b)
      BY <1>13 DEF OnlyLru, SameBody, SameChains, SameBlocks, SameStack
    <3> QED BY <2>2, <3>1, <3>2
  <2> QED BY <2>1, <2>2
<1>18. /\ l \in CacheSet /\ SameBody(l, b) /\ SameChains(l, b) /\ SameBlocks(l, b)
       /\ SameStack(l, b) /\ l.next_scan = b.next_scan
  BY <1>17 DEF OnlyLru
<1>19. ChainedBut(l, i) /\ Used(l) = Used(b)
  BY <1>16, <1>18, ChainsFrame
<1>20. l.items[i].next = 0 /\ l.items[i].prev = 0
  <2>1. b.items[i] = item
    BY <1>8, <1>11 DEF Placed
  <2> QED BY <1>8, <1>10, <1>18, <2>1 DEF SameChains
<1>21. OnlyChains(new, l) /\ Chained(new)
  <2>1. i \in Used(l)
    BY <1>13, <1>19
  <2> QED BY <1>5, <1>18, <1>19, <1>20, <2>1, LinkEnters
<1>22. /\ new \in CacheSet /\ SameBody(new, l) /\ SameLru(new, l) /\ SameBlocks(new, l)
       /\ SameStack(new, l) /\ new.next_scan = l.next_scan
  BY <1>21 DEF OnlyChains
<1>23. SameBody(new, b) /\ SameStack(new, b) /\ SameBlocks(new, b)
  BY <1>18, <1>22 DEF SameBody, SameStack, SameBlocks
<1>24. /\ Used(new) = Used(b)
       /\ Stacked(b) => Stacked(new)
       /\ Keyed(b) => Keyed(new)
       /\ Padded(b) => Padded(new)
       /\ Exact(b) => Exact(new)
  BY <1>23, BodyFrame
<1>25. Listed(l) => Listed(new)
  BY <1>22, LruFrame
<1>26. uc.purge_lru /\ "restarted" \notin seen => Listed(new)
  BY <1>6, <1>17, <1>25 DEF Sound
<1>27. Sound(new)
  BY <1>12, <1>14, <1>15, <1>21, <1>22, <1>24, <1>26 DEF Sound
<1>28. Dated(new, d, i, e, fl)
  <2>1. Used(new) = Used(d) \cup {i} /\ Used(d) \subseteq Index
    BY <1>6, <1>13, <1>24 DEF Used
  <2>2. new.items[i].expires = Expiry(e, fl) /\ (new.items[i].abs <=> "abs" \in fl)
    BY <1>8, <1>9, <1>11, <1>23 DEF Placed, ItemIs, SameBody
  <2>3. \A j \in Index \ {i} : /\ new.items[j].expires = d.items[j].expires
                               /\ new.items[j].abs = d.items[j].abs
    BY <1>6, <1>11, <1>23 DEF Placed, SameBody
  <2>4. new.next_scan = a.next_scan
    BY <1>13, <1>18, <1>22
  <2> QED BY <1>6, <2>1, <2>2, <2>3, <2>4 DEF Dated
<1> QED BY <1>8, <1>27, <1>28, DatedFine

\* A key that is not stored is set.
LEMMA SetTopFine ==
    ASSUME NEW d, Sound(d), Clock, NEW k \in Key, \A j \in Used(d) : d.items[j].key # k,
           NEW n \in 1..2, NEW e, NEW fl, Lifetime(e, fl), NEW i \in Index, Top(d, i),
           NEW new, new = SetTop(d, i, k, n, e, fl)
    PROVE Fine(new, d)
<1>1. PICK first : first = IF uc.bitmap THEN FindFreeBlocks(d, n) ELSE i
  OBVIOUS
<1>2. new = SetAt(d, i, first, k, n, e, fl)
  BY <1>1 DEF SetTop
<1>3. CASE first = None
  <2>1. new = CacheFull(d)
    BY <1>2, <1>3 DEF SetAt
  <2>2. Evicted(new, d)
    BY <2>1, CacheFullEvicts
  <2> QED BY <2>2, EvictedFine
<1>4. CASE first # None
  <2>1. Room(d, i, first, n)
    <3>1. CASE uc.bitmap
      <4>1. first \in Bits /\ Free(d, first, n)
        BY <1>1, <1>4, <3>1, FreeBlocksFound DEF Sound
      <4>2. Fits(first, n) /\ Run(first, n) \cap d.bitmap = {}
        BY <3>1, <4>1, FreeFits DEF Sound
      <4> QED BY <4>1, <4>2 DEF Room, Fits
    <3>2. CASE ~uc.bitmap
      <4>1. first = i /\ first \in 0..Blocks
        BY <1>1, <3>2, Constants DEF Index
      <4> QED BY <3>2, <4>1 DEF Room
    <3> QED BY <3>1, <3>2
  <2> QED BY <1>2, <1>4, <2>1, InsertFine
<1> QED BY <1>3, <1>4

\* uwsgi_cache_set2 of a new key, before and after a full cache has been emptied.
LEMMA SetNewFine ==
    ASSUME NEW d, Sound(d), Clock, NEW k \in Key, \A j \in Used(d) : d.items[j].key # k,
           NEW n \in 1..2, NEW e, NEW fl, Lifetime(e, fl), NEW new, new = SetNew(d, k, n, e, fl)
    PROVE Fine(new, d)
<1>1. PICK a : a = IF d.unused = <<>> THEN CacheFull(d) ELSE d
  OBVIOUS
<1>2. new = SetIfRoom(a, k, n, e, fl)
  BY <1>1 DEF SetNew
<1>3. Fine(a, d) /\ Fewer(a, d)
  <2>1. CASE d.unused = <<>>
    <3>1. Evicted(a, d)
      BY <1>1, <2>1, CacheFullEvicts
    <3> QED BY <3>1, EvictedFine DEF Evicted
  <2>2. CASE d.unused # <<>>
    BY <1>1, <2>2 DEF Fine, Scans, Fewer
  <2> QED BY <2>1, <2>2
<1>4. Sound(a)
  BY <1>3 DEF Fine
<1>5. \A j \in Used(a) : a.items[j].key # k
  BY <1>3 DEF Fewer
<1>6. CASE a.unused = <<>>
  BY <1>2, <1>3, <1>6 DEF SetIfRoom
<1>7. CASE a.unused # <<>>
  <2>1. PICK u \in Seq(Index) : u = a.unused
    BY <1>4 DEF Sound, CacheSet
  <2>2. Len(u) \in Nat /\ Len(u) # 0
    BY <1>7, <2>1, EmptySeq, LenProperties
  <2>3. PICK i \in Index : i = u[Len(u)]
    <3>1. Len(u) \in 1..Len(u)
      BY <2>2
    <3> QED BY <3>1, ElementOfSeq
  <2>4. Top(a, i)
    BY <2>1, <2>2, <2>3 DEF Top
  <2>5. new = SetTop(a, i, k, n, e, fl)
    BY <1>2, <1>7, <2>1, <2>3 DEF SetIfRoom
  <2>6. Fine(new, a)
    BY <1>4, <1>5, <2>4, <2>5, SetTopFine
  <2> QED BY <1>3, <2>6, FineTwice
<1> QED BY <1>6, <1>7

------------------------------------------------------------------------------
(* Setting a key that is there.                                             *)

\* The value of item i moves to free blocks.
LEMMA MoveToReduces ==
    ASSUME NEW d, Sound(d), NEW i \in Used(d), NEW n \in 1..2, uc.bitmap,
           NEW first \in Bits, Free(d, first, n), NEW new, new = MoveTo(d, i, n, first), first # None
    PROVE Reduced(new, d)
<1>1. d \in CacheSet /\ Padded(d) /\ i \in Index /\ Used(d) \subseteq Index
  BY DEF Sound, Used
<1>2. Fits(first, n) /\ Run(first, n) \cap d.bitmap = {}
  BY <1>1, FreeFits
<1>3. PICK a : a = MarkBlocks(d, first, n)
  OBVIOUS
<1>4. PICK b : b = UnmarkBlocks(a, i)
  OBVIOUS
<1>5. new = [b EXCEPT !.items[i].first = first, !.items[i].size = n]
  BY <1>3, <1>4 DEF MoveTo
<1>6. Marked(a, d, first, n)
  BY <1>1, <1>2, <1>3, MarkWrites
<1>7. /\ b \in CacheSet /\ b.items = d.items /\ b.hashtable = d.hashtable
      /\ b.lru_head = d.lru_head /\ b.lru_tail = d.lru_tail /\ b.next_scan = d.next_scan
      /\ b.unused = d.unused /\ b.n_items = d.n_items
      /\ b.bitmap = (d.bitmap \cup Run(first, n)) \ RunOf(d, i)
  <2>1. PICK m \in SUBSET Bits : m = a.bitmap \ RunOf(d, i)
    BY <1>6 DEF Marked, CacheSet
  <2>2. a.items = d.items
    BY <1>6 DEF Marked
  <2>3. b = [a EXCEPT !.bitmap = m]
    BY <1>4, <2>1, <2>2 DEF UnmarkBlocks, RunOf
  <2> QED BY <1>6, <2>1, <2>3 DEF Marked, CacheSet, SameStack
<1>8. PICK z \in ItemSet : z = b.items[i]
  BY <1>1, <1>7, ChainTypes
<1>9. PICK y \in ItemSet : y = [z EXCEPT !.first = first, !.size = n]
  <2>1. PICK f \in 0..Blocks, l \in 0..2 : f = first /\ l = n
    BY <1>2 DEF Fits
  <2>2. [z EXCEPT !.first = f, !.size = l] \in ItemSet
    BY DEF ItemSet
  <2> QED BY <2>1, <2>2
<1>10. new = [b EXCEPT !.items[i] = y]
  <2>1. b \in CacheSet
    BY <1>7
  <2> QED BY <1>1, <1>5, <1>8, <1>9, <2>1 DEF CacheSet, ItemSet
<1>11. Rewritten(new, b, i, y)
  BY <1>1, <1>7, <1>10, ItemWritten
<1>12. /\ y.key = z.key /\ y.hash = z.hash /\ y.prev = z.prev /\ y.next = z.next
       /\ y.lru_prev = z.lru_prev /\ y.lru_next = z.lru_next
       /\ y.expires = z.expires /\ y.abs = z.abs /\ y.first = first /\ y.size = n
  BY <1>8, <1>9 DEF ItemSet
<1>13. /\ new \in CacheSet /\ \A j \in Index : new.items[j] = IF j = i THEN y ELSE d.items[j]
       /\ new.hashtable = d.hashtable /\ new.lru_head = d.lru_head /\ new.lru_tail = d.lru_tail
       /\ new.next_scan = d.next_scan /\ new.unused = d.unused /\ new.n_items = d.n_items
       /\ new.bitmap = b.bitmap
  BY <1>7, <1>11 DEF Rewritten, SameBlocks, SameStack
<1>14. \A j \in Index :
        /\ new.items[j].key = d.items[j].key /\ new.items[j].hash = d.items[j].hash
        /\ new.items[j].prev = d.items[j].prev /\ new.items[j].next = d.items[j].next
        /\ new.items[j].lru_prev = d.items[j].lru_prev /\ new.items[j].lru_next = d.items[j].lru_next
        /\ new.items[j].expires = d.items[j].expires /\ new.items[j].abs = d.items[j].abs
  BY <1>7, <1>8, <1>12, <1>13
<1>15. Used(new) = Used(d) /\ \A h : InChain(new, h) = InChain(d, h)
  BY <1>14 DEF Used, InChain
<1>16. Chained(new)
  <2>1. Nexts(new) = Nexts(d) /\ Prevs(new) = Prevs(d)
    BY <1>14 DEF Nexts, Prevs
  <2> QED BY <1>13, <1>15, <2>1 DEF Sound, Chained, ChainIs
<1>17. Listed(d) => Listed(new)
  <2>1. LruNexts(new) = LruNexts(d) /\ LruPrevs(new) = LruPrevs(d)
    BY <1>14 DEF LruNexts, LruPrevs
  <2> QED BY <1>13, <1>15, <2>1 DEF Listed
<1>18. Stacked(new)
  BY <1>13, <1>15 DEF Sound, Stacked
<1>19. Keyed(new)
  BY <1>1, <1>14, <1>15 DEF Sound, Keyed
<1>20. RunOf(new, i) = Run(first, n) /\ \A j \in Index \ {i} : RunOf(new, j) = RunOf(d, j)
  BY <1>1, <1>12, <1>13 DEF RunOf
<1>21. Padded(new)
  <2>1. \A j \in Index \ Used(new) : new.items[j].size = 0
    BY <1>1, <1>13, <1>15 DEF Padded
  <2>2. \A j \in Used(new) : RunOf(new, j) \subseteq Bits \ Padding
    BY <1>1, <1>2, <1>15, <1>20 DEF Padded, Fits
  <2>3. Padding \subseteq new.bitmap
    BY <1>1, <1>7, <1>13 DEF Padded
  <2> QED BY <2>1, <2>2, <2>3 DEF Padded
<1>22. ASSUME Exact(d) PROVE Exact(new)
  <2>1. d.bitmap = Padding \cup UNION {RunOf(d, j) : j \in Used(d)}
    BY <1>22 DEF Exact
  <2>2. \A j \in Used(d) : RunOf(d, j) \cap Run(first, n) = {} /\ RunOf(d, j) \cap Padding = {}
    BY <1>1, <1>2, <2>1 DEF Padded
  <2>3. \A j, l \in Used(d) : j # l => RunOf(d, j) \cap RunOf(d, l) = {}
    BY <1>22 DEF Exact
  <2>4. ASSUME NEW x
        PROVE x \in new.bitmap <=> x \in Padding \/ \E j \in Used(new) : x \in RunOf(new, j)
    <3>1. x \in d.bitmap <=> x \in Padding \/ \E j \in Used(d) : x \in RunOf(d, j)
      BY <2>1
    <3>2. x \in new.bitmap <=> (x \in d.bitmap \/ x \in Run(first, n)) /\ x \notin RunOf(d, i)
      BY <1>7, <1>13
    <3>3. \A j \in Used(d) : j # i => RunOf(new, j) = RunOf(d, j)
      BY <1>1, <1>20
    <3> QED BY <1>15, <1>20, <2>2, <2>3, <3>1, <3>2, <3>3
  <2>5. new.bitmap = Padding \cup UNION {RunOf(new, j) : j \in Used(new)}
    BY <2>4
  <2>6. \A j, l \in Used(new) : j # l => RunOf(new, j) \cap RunOf(new, l) = {}
    <3>1. \A j \in Used(d) : j # i => RunOf(new, j) = RunOf(d, j)
      BY <1>1, <1>20
    <3> QED BY <1>15, <1>20, <2>2, <2>3, <3>1
  <2> QED BY <2>5, <2>6 DEF Exact
<1>23. Sound(new)
  BY <1>13, <1>16, <1>17, <1>18, <1>19, <1>21, <1>22 DEF Sound
<1>24. Fewer(new, d)
  BY <1>1, <1>14, <1>15 DEF Fewer
<1> QED BY <1>13, <1>23, <1>24 DEF Reduced

\* The value of an item moves, or the cache is full.
LEMMA MoveFine ==
    ASSUME NEW d, Sound(d), Clock, NEW i \in Used(d), NEW n \in 1..2,
           NEW new, new = Move(d, i, n)
    PROVE Fine(new, d)
<1>1. CASE ~uc.bitmap
  <2>1. new = d
    BY <1>1 DEF Move
  <2> QED BY <2>1 DEF Fine, Scans
<1>2. CASE uc.bitmap
  <2>1. PICK first : first = FindFreeBlocks(d, n)
    OBVIOUS
  <2>2. new = MoveTo(d, i, n, first)
    BY <1>2, <2>1 DEF Move
  <2>3. CASE first = None
    <3>1. new = CacheFull(d)
      BY <2>2, <2>3 DEF MoveTo
    <3>2. Evicted(new, d)
      BY <3>1, CacheFullEvicts
    <3> QED BY <3>2, EvictedFine
  <2>4. CASE first # None
    <3>1. first \in Bits /\ Free(d, first, n)
      BY <2>1, <2>4, FreeBlocksFound DEF Sound
    <3>2. Reduced(new, d)
      BY <1>2, <2>2, <2>4, <3>1, MoveToReduces
    <3> QED BY <3>2, ReducedFine
  <2> QED BY <2>3, <2>4
<1> QED BY <1>1, <1>2

\* uwsgi_cache_set2.
LEMMA SetFine ==
    ASSUME Sound(c), Clock, NEW k \in Key, NEW n \in 1..2, NEW e, NEW fl, Lifetime(e, fl),
           NEW new, new = Set2(k, n, e, fl)
    PROVE Fine(new, c)
<1>1. PICK found : found = Lookup(c, k)
  OBVIOUS
<1>2. PICK a, i : a = found.c /\ i = found.slot
  OBVIOUS
<1>3. new = IF i = 0 THEN SetNew(a, k, n, e, fl) ELSE SetOld(a, i, n, e, fl)
  BY <1>1, <1>2 DEF Set2, SetFound
<1>4. FoundIn(found, c, k)
  BY <1>1, LookupFinds
<1>5. /\ Reduced(a, c) /\ i \in Used(a) \cup {0}
      /\ i = 0 => \A j \in Used(a) : a.items[j].key # k
  BY <1>2, <1>4 DEF FoundIn
<1>6. Sound(a) /\ Fine(a, c)
  BY <1>5, ReducedFine DEF Reduced
<1>7. CASE i = 0
  <2>1. Fine(new, a)
    BY <1>3, <1>5, <1>6, <1>7, SetNewFine
  <2> QED BY <1>6, <2>1, FineTwice
<1>8. CASE i # 0
  <2>1. new = SetOld(a, i, n, e, fl) /\ i \in Used(a)
    BY <1>3, <1>5, <1>8
  <2>2. CASE "update" \notin fl
    <3>1. new = a
      BY <2>1, <2>2 DEF SetOld
    <3> QED BY <1>6, <3>1
  <2>3. CASE "update" \in fl
    <3>1. PICK b : b = Renew(a, i, e, fl)
      OBVIOUS
    <3>2. new = Move(b, i, n)
      BY <2>1, <2>3, <3>1 DEF SetOld
    <3>3. Fine(b, a) /\ i \in Used(b)
      BY <1>6, <2>1, <3>1, RenewFine
    <3>4. Sound(b)
      BY <3>3 DEF Fine
    <3>5. Fine(new, b)
      BY <3>2, <3>3, <3>4, MoveFine
    <3>6. Fine(new, a)
      BY <1>6, <3>3, <3>5, FineTwice
    <3> QED BY <1>6, <3>6, FineTwice
  <2> QED BY <2>2, <2>3
<1> QED BY <1>7, <1>8

------------------------------------------------------------------------------
(* The restart.                                                             *)

\* s is the stack of the unused items up to the m-th.
StackUpTo(s, d, m) ==
    /\ s \in Seq(Index)
    /\ \A x, y \in 1..Len(s) : s[x] = s[y] => x = y
    /\ \A x \in 1..Len(s) : s[x] \in (1..m) \ Used(d)
    /\ \A i \in (1..m) \ Used(d) : \E x \in 1..Len(s) : s[x] = i
    /\ Len(s) + Cardinality(Used(d) \cap 1..m) = m

\* The next item goes on the stack if it is not used.
LEMMA StackGrows ==
    ASSUME NEW d \in CacheSet, NEW m \in Nat, NEW l \in Index, l = m + 1, m = l - 1,
           NEW s, StackUpTo(s, d, m),
           NEW t, t = IF d.items[l].key = NoKey THEN Append(s, l) ELSE s
    PROVE StackUpTo(t, d, l)
<1>1. s \in Seq(Index) /\ Len(s) \in Nat /\ l \in Nat
  BY LenProperties DEF StackUpTo, Index
<1>2. 1..l = (1..m) \cup {l} /\ l \notin 1..m
  BY <1>1
<1>3. IsFiniteSet(Used(d) \cap 1..m)
  <2>1. IsFiniteSet(Used(d))
    BY ChainTypes
  <2> QED BY <2>1, FS_Subset
<1>4. CASE d.items[l].key = NoKey
  <2>1. t = Append(s, l) /\ l \notin Used(d)
    BY <1>4 DEF Used
  <2>2. /\ t \in Seq(Index) /\ Len(t) = Len(s) + 1 /\ t[Len(s) + 1] = l
        /\ \A x \in 1..Len(s) : t[x] = s[x]
    BY <1>1, <2>1, AppendProperties
  <2>3. \A x \in 1..Len(t) : x \in 1..Len(s) \/ x = Len(s) + 1
    BY <1>1, <2>2
  <2>4. Used(d) \cap 1..l = Used(d) \cap 1..m
    BY <1>2, <2>1
  <2>5. ASSUME NEW x \in 1..Len(t), NEW y \in 1..Len(t), t[x] = t[y] PROVE x = y
    <3>1. \A z \in 1..Len(s) : t[z] \in 1..m
      BY <2>2 DEF StackUpTo
    <3>2. \A z \in 1..Len(s) : t[z] # l
      BY <1>2, <3>1
    <3>3. CASE x \in 1..Len(s) /\ y \in 1..Len(s)
      BY <2>2, <2>5, <3>3 DEF StackUpTo
    <3>4. CASE x = Len(s) + 1 \/ y = Len(s) + 1
      BY <2>2, <2>3, <2>5, <3>2, <3>4
    <3> QED BY <2>3, <3>3, <3>4
  <2>6. \A x \in 1..Len(t) : t[x] \in (1..l) \ Used(d)
    BY <1>2, <2>1, <2>2, <2>3 DEF StackUpTo
  <2>7. ASSUME NEW i \in (1..l) \ Used(d) PROVE \E x \in 1..Len(t) : t[x] = i
    <3>1. CASE i = l
      BY <1>1, <2>2, <3>1
    <3>2. CASE i # l
      <4>1. i \in (1..m) \ Used(d)
        BY <1>2, <3>2
      <4>2. PICK x \in 1..Len(s) : s[x] = i
        BY <4>1 DEF StackUpTo
      <4> QED BY <1>1, <2>2, <4>2
    <3> QED BY <3>1, <3>2
  <2>8. Len(t) + Cardinality(Used(d) \cap 1..l) = l
    <3>1. PICK n \in Nat : n = Cardinality(Used(d) \cap 1..m)
      BY <1>3, FS_CardinalityType
    <3>2. Len(s) + n = m
      BY <3>1 DEF StackUpTo
    <3>3. Len(t) + n = l
      BY <1>1, <2>2, <3>2
    <3> QED BY <2>4, <3>1, <3>3
  <2> QED BY <2>2, <2>5, <2>6, <2>7, <2>8 DEF StackUpTo
<1>5. CASE d.items[l].key # NoKey
  <2>1. t = s /\ l \in Used(d)
    BY <1>5 DEF Used
  <2>2. Used(d) \cap 1..l = (Used(d) \cap 1..m) \cup {l} /\ l \notin Used(d) \cap 1..m
    BY <1>2, <2>1
  <2>3. /\ Cardinality((Used(d) \cap 1..m) \cup {l}) = Cardinality(Used(d) \cap 1..m) + 1
        /\ Cardinality(Used(d) \cap 1..m) \in Nat
    BY <1>3, <2>2, FS_AddElement, FS_CardinalityType
  <2>4. Len(t) + Cardinality(Used(d) \cap 1..l) = l
    <3>1. PICK n \in Nat : n = Cardinality(Used(d) \cap 1..m)
      BY <2>3
    <3>2. Len(s) + n = m
      BY <3>1 DEF StackUpTo
    <3>3. Cardinality(Used(d) \cap 1..l) = n + 1
      BY <2>2, <2>3, <3>1
    <3> QED BY <1>1, <2>1, <3>2, <3>3
  <2>5. (1..l) \ Used(d) = (1..m) \ Used(d)
    BY <1>2, <2>1
  <2> QED BY <2>1, <2>4, <2>5 DEF StackUpTo
<1> QED BY <1>4, <1>5

\* uwsgi_cache_fix finds the unused items.
LEMMA FixStackIs ==
    ASSUME NEW d \in CacheSet
    PROVE StackUpTo(FixStack(d), d, MaxItems - 1)
<1>1. MaxItems - 1 \in Nat /\ Index = 1..(MaxItems - 1)
  BY Constants DEF Index
<1>2. PICK m \in Nat : m = MaxItems - 1
  BY <1>1
<1>3. PICK g : g = [i \in 1..m |->
                      [s \in Seq(Index) |-> IF d.items[i].key = NoKey THEN Append(s, i) ELSE s]]
  OBVIOUS
<1>4. ASSUME NEW i \in 1..m, NEW s \in Seq(Index) PROVE Append(s, i) \in Seq(Index)
  BY <1>1, <1>2, AppendProperties
<1>5. /\ g \in Tables(Seq(Index), m)
      /\ \A i \in 1..m : \A s \in Seq(Index) :
            g[i][s] = IF d.items[i].key = NoKey THEN Append(s, i) ELSE s
  BY <1>3, <1>4 DEF Tables
<1>6. PICK x \in Seq(Index) : x = <<>>
  <2>1. <<>> \in Seq(Index)
    BY EmptySeq
  <2> QED BY <2>1
<1>7. Iterable(Seq(Index), x, g, m)
  BY <1>5, IterationExists
<1>8. PICK f \in [0..m -> Seq(Index)] : f[0] = x /\ \A i \in 1..m : f[i] = g[i][f[i - 1]]
  BY <1>7 DEF Iterable
<1>9. \A i \in 1..m : f[i] = IF d.items[i].key = NoKey THEN Append(f[i - 1], i) ELSE f[i - 1]
  <2> SUFFICES ASSUME NEW i \in 1..m
               PROVE f[i] = IF d.items[i].key = NoKey THEN Append(f[i - 1], i) ELSE f[i - 1]
    OBVIOUS
  <2>1. i - 1 \in 0..m
    OBVIOUS
  <2>2. f[i - 1] \in Seq(Index)
    BY <2>1
  <2> QED BY <1>5, <1>8, <2>2
<1> DEFINE P(stack) == stack = [i \in 0..(MaxItems - 1) |->
              IF i = 0 THEN <<>>
              ELSE IF d.items[i].key = NoKey THEN Append(stack[i - 1], i) ELSE stack[i - 1]]
<1>10. P(f)
  <2>1. ASSUME NEW i \in 0..m
        PROVE f[i] = IF i = 0 THEN <<>>
                     ELSE IF d.items[i].key = NoKey THEN Append(f[i - 1], i) ELSE f[i - 1]
    <3>1. CASE i = 0
      BY <1>6, <1>8, <3>1
    <3>2. CASE i # 0
      <4>1. i \in 1..m
        BY <3>2
      <4> QED BY <1>9, <3>2, <4>1
    <3> QED BY <3>1, <3>2
  <2>2. f = [i \in 0..m |-> f[i]]
    OBVIOUS
  <2> QED BY <1>2, <2>1, <2>2, Zenon
<1>11. FixStack(d) = (CHOOSE stack : P(stack))[MaxItems - 1]
  BY DEF FixStack
<1> HIDE DEF P
<1>12. PICK u : u = (CHOOSE stack : P(stack))
  OBVIOUS
<1>13. P(u)
  BY <1>10, <1>12
<1>14. /\ u[0] = <<>>
       /\ \A i \in 1..m : u[i] = IF d.items[i].key = NoKey THEN Append(u[i - 1], i) ELSE u[i - 1]
  <2>1. \A i \in 0..m : u[i] = IF i = 0 THEN <<>>
                               ELSE IF d.items[i].key = NoKey THEN Append(u[i - 1], i) ELSE u[i - 1]
    BY <1>2, <1>13, Zenon DEF P
  <2> QED BY <2>1
<1> DEFINE T == {i \in Nat : i =< m => StackUpTo(u[i], d, i)}
<1>15. 0 \in T
  <2>1. u[0] \in Seq(Index) /\ Len(u[0]) = 0
    BY <1>14, EmptySeq
  <2>2. 1..0 = {} /\ Used(d) \cap 1..0 = {} /\ Cardinality({}) = 0
    BY FS_EmptySet
  <2> QED BY <2>1, <2>2 DEF StackUpTo
<1>16. ASSUME NEW i \in Nat, i \in T PROVE i + 1 \in T
  <2> SUFFICES ASSUME i + 1 =< m PROVE StackUpTo(u[i + 1], d, i + 1)
    OBVIOUS
  <2>1. PICK l \in Index : l = i + 1 /\ i = l - 1 /\ l \in 1..m
    BY <1>1, <1>2
  <2>2. PICK s, t : s = u[i] /\ t = u[l]
    OBVIOUS
  <2>3. StackUpTo(s, d, i)
    BY <1>16, <2>2
  <2>4. t = IF d.items[l].key = NoKey THEN Append(s, l) ELSE s
    BY <1>14, <2>1, <2>2
  <2>5. StackUpTo(t, d, l)
    BY <2>1, <2>3, <2>4, StackGrows
  <2> QED BY <2>1, <2>2, <2>5
<1> HIDE DEF T
<1>17. \A i \in Nat : i \in T
  BY <1>15, <1>16, AllNumbers
<1>18. StackUpTo(u[m], d, m)
  BY <1>17 DEF T
<1> QED BY <1>2, <1>11, <1>12, <1>18

\* Sound and Rem with the options o, the events s and the sweeper at w.
SoundIn(o, s, d) ==
    /\ d \in CacheSet /\ Stacked(d) /\ Keyed(d) /\ Chained(d)
    /\ o.bitmap => Padded(d)
    /\ o.bitmap /\ "restarted" \notin s => Exact(d)
    /\ o.purge_lru /\ "restarted" \notin s => Listed(d)

\* The sweeper has forgotten none, with its options o, and now at item w.
RemIn(o, w, d) ==
    o.purge_lru \/ \A i \in Used(d) :
        \/ d.items[i].expires = 0 \/ d.items[i].abs
        \/ d.next_scan # 0 /\ d.next_scan =< d.items[i].expires
        \/ w # 0 /\ w =< i

\* The empty cache is sound.
LEMMA EmptySound == ASSUME NEW o, NEW s, NEW w PROVE SoundIn(o, s, EmptyCache) /\ RemIn(o, w, EmptyCache)
<1>1. PICK d : d = EmptyCache
  OBVIOUS
<1>2. /\ d.items = [i \in Index |-> Unused] /\ d.hashtable = [h \in Slot |-> 0]
      /\ d.unused = [i \in Index |-> i] /\ d.n_items = 0 /\ d.bitmap = Padding /\ d.pos = 0
      /\ d.lru_head = 0 /\ d.lru_tail = 0 /\ d.next_scan = 0
  BY <1>1 DEF EmptyCache, Slot, Padding
<1>3. PICK u \in Seq(Index) : u = [i \in Index |-> i]
  <2>1. [i \in Index |-> i] \in Seq(Index)
    BY Constants, IsASeq DEF Index
  <2> QED BY <2>1
<1>4. d \in CacheSet
  <2>1. d.items \in [Index -> ItemSet] /\ d.hashtable \in [Slot -> Items0]
    BY <1>2, UnusedItem, Constants
  <2>2. d.bitmap \in SUBSET Bits /\ d.pos \in 0..(Blocks - 1) /\ d.next_scan \in 0..(2 * MaxTime)
    BY <1>2, Constants DEF Padding
  <2>3. d.unused \in Seq(Index) /\ d.n_items \in Int /\ d.lru_head \in Items0 /\ d.lru_tail \in Items0
    BY <1>2, <1>3, Constants
  <2>4. d = [items |-> d.items, hashtable |-> d.hashtable, unused |-> d.unused,
             n_items |-> d.n_items, bitmap |-> d.bitmap, pos |-> d.pos,
             lru_head |-> d.lru_head, lru_tail |-> d.lru_tail, next_scan |-> d.next_scan]
    BY <1>1 DEF EmptyCache
  <2> QED BY <2>1, <2>2, <2>3, <2>4 DEF CacheSet
<1>5. Used(d) = {} /\ \A h : InChain(d, h) = {}
  <2>1. \A i \in Index : d.items[i].key = NoKey
    BY <1>2, UnusedItem
  <2> QED BY <2>1 DEF Used, InChain
<1>6. Stacked(d)
  <2>1. Len(u) = MaxItems - 1 /\ \A x \in 1..Len(u) : u[x] = x /\ x \in Index
    <3>1. DOMAIN u = 1..Len(u) /\ Len(u) \in Nat /\ DOMAIN u = 1..(MaxItems - 1)
      BY <1>3, LenProperties DEF Index
    <3>2. Len(u) = MaxItems - 1
      BY <3>1, Constants
    <3> QED BY <1>3, <3>1, <3>2 DEF Index
  <2>2. Cardinality(Used(d)) = 0
    BY <1>5, FS_EmptySet
  <2>3. \A i \in Index : i \in 1..Len(u)
    BY <2>1 DEF Index
  <2>4. u = d.unused
    BY <1>2, <1>3
  <2>5. \A x, y \in 1..Len(u) : u[x] = u[y] => x = y
    BY <2>1
  <2>6. \A i \in Index \ Used(d) : \E x \in 1..Len(u) : u[x] = i
    BY <2>1, <2>3
  <2> QED BY <1>2, <1>5, <2>1, <2>2, <2>4, <2>5, <2>6, Constants DEF Stacked
<1>7. Keyed(d)
  BY <1>5 DEF Keyed
<1>8. Chained(d)
  <2> SUFFICES ASSUME NEW h \in Slot PROVE ChainIs(d, h, 0)
    BY DEF Chained
  <2>1. d.hashtable[h] = 0
    BY <1>2
  <2>2. PICK nx, pv : nx = Nexts(d) /\ pv = Prevs(d)
    OBVIOUS
  <2>3. Linked({}, nx, pv, 0, 0)
    BY ListEmpty
  <2> QED BY <1>5, <2>1, <2>2, <2>3 DEF ChainIs
<1>9. Padded(d)
  <2>1. \A i \in Index : d.items[i].size = 0
    BY <1>2, UnusedItem
  <2> QED BY <1>2, <1>5, <2>1 DEF Padded
<1>10. Exact(d)
  BY <1>2, <1>5 DEF Exact
<1>11. Listed(d)
  <2>1. PICK nx, pv : nx = LruNexts(d) /\ pv = LruPrevs(d)
    OBVIOUS
  <2>2. Linked({}, nx, pv, 0, 0)
    BY ListEmpty
  <2> QED BY <1>2, <1>5, <2>1, <2>2 DEF Listed
<1> QED BY <1>1, <1>4, <1>5, <1>6, <1>7, <1>8, <1>9, <1>10, <1>11 DEF SoundIn, RemIn

\* The hash table that uwsgi_cache_fix makes is the one that was there.
HeadsOf(d, h) == {i \in Used(d) : d.items[i].hash = h /\ d.items[i].prev = 0}

\* The used item without prev is the head of its chain, and the only one.
LEMMA HeadIs ==
    ASSUME NEW d \in CacheSet, Chained(d), NEW h \in Slot
    PROVE d.hashtable[h] = (IF HeadsOf(d, h) = {} THEN 0
                            ELSE CHOOSE i \in HeadsOf(d, h) : \A j \in HeadsOf(d, h) : j =< i)
<1>1. PICK S, nx, pv, head : S = InChain(d, h) /\ nx = Nexts(d) /\ pv = Prevs(d) /\ head = d.hashtable[h]
  OBVIOUS
<1>2. PICK t : Linked(S, nx, pv, head, t)
  BY <1>1 DEF Chained, ChainIs
<1>3. S \in SUBSET Index
  BY <1>1, ChainTypes
<1>4. Knotted(S, nx, pv, head, t)
  BY <1>2, <1>3, ListFacts
<1>5. HeadsOf(d, h) = {i \in S : pv[i] = 0}
  <2>1. \A i \in S : pv[i] = d.items[i].prev
    BY <1>1, <1>3, ChainTypes
  <2> QED BY <1>1, <2>1 DEF HeadsOf, InChain
<1>6. head \in S \cup {0} /\ (head = 0 <=> S = {}) /\ \A i \in S : pv[i] = 0 <=> i = head
  BY <1>4 DEF Knotted
<1>7. CASE S = {}
  BY <1>1, <1>5, <1>6, <1>7
<1>8. CASE S # {}
  <2>1. head \in S /\ HeadsOf(d, h) = {head}
    BY <1>5, <1>6, <1>8
  <2>2. head \in Nat
    BY <1>3, <2>1 DEF Index
  <2>3. (CHOOSE i \in {head} : \A j \in {head} : j =< i) = head
    BY <2>2
  <2> QED BY <1>1, <2>1, <2>3
<1> QED BY <1>7, <1>8

\* The cache that a restart makes of d.
Refit(d) ==
    [EmptyCache EXCEPT
        !.items = d.items, !.unused = FixStack(d), !.n_items = Cardinality(Used(d)),
        !.hashtable = [h \in 0..(HashSize - 1) |->
            LET heads == {i \in Used(d) : d.items[i].hash = h /\ d.items[i].prev = 0}
            IN IF heads = {} THEN 0 ELSE CHOOSE i \in heads : \A j \in heads : j =< i],
        !.next_scan = LET E == {d.items[i].expires : i \in Used(d)} \ {0}
                      IN IF E = {} THEN 0 ELSE Least(E)]

\* The items that the store file holds make a sound cache again.
LEMMA RefitSound ==
    ASSUME NEW d \in CacheSet, Stacked(d), Keyed(d), Chained(d), NEW o, o.bitmap => Padded(d),
           NEW s, "restarted" \in s, NEW new, new = Refit(d)
    PROVE SoundIn(o, s, new) /\ RemIn(o, 0, new)
<1>1. PICK u : u = FixStack(d)
  OBVIOUS
<1>2. StackUpTo(u, d, MaxItems - 1) /\ Index = 1..(MaxItems - 1)
  BY <1>1, FixStackIs DEF Index
<1>3. PICK n \in Nat : n = Cardinality(Used(d))
  BY ChainTypes, FS_CardinalityType
<1>4. PICK table : table = [h \in 0..(HashSize - 1) |->
                       IF HeadsOf(d, h) = {} THEN 0
                       ELSE CHOOSE i \in HeadsOf(d, h) : \A j \in HeadsOf(d, h) : j =< i]
  OBVIOUS
<1>5. table = d.hashtable
  <2>1. \A h \in 0..(HashSize - 1) : table[h] = d.hashtable[h]
    BY <1>4, HeadIs DEF Slot
  <2>2. d.hashtable \in [0..(HashSize - 1) -> Items0]
    BY DEF CacheSet, Slot
  <2> QED BY <1>4, <2>1, <2>2
<1>6. PICK E : E = {d.items[i].expires : i \in Used(d)} \ {0}
  OBVIOUS
<1>7. PICK t : t = IF E = {} THEN 0 ELSE Least(E)
  OBVIOUS
<1>8. new = [EmptyCache EXCEPT !.items = d.items, !.unused = u, !.n_items = n,
                               !.hashtable = table, !.next_scan = t]
  BY <1>1, <1>3, <1>4, <1>6, <1>7 DEF Refit, HeadsOf
<1>9. /\ new.items = d.items /\ new.unused = u /\ new.n_items = n /\ new.hashtable = d.hashtable
      /\ new.next_scan = t /\ new.bitmap = Padding /\ new.pos = 0
      /\ new.lru_head = 0 /\ new.lru_tail = 0
      /\ new = [items |-> d.items, hashtable |-> d.hashtable, unused |-> u,
                n_items |-> n, bitmap |-> Padding, pos |-> 0,
                lru_head |-> 0, lru_tail |-> 0, next_scan |-> t]
  BY <1>5, <1>8 DEF EmptyCache, Padding
<1>10. \A i \in Used(d) : d.items[i].expires \in 0..(2 * MaxTime)
  BY ChainTypes DEF ItemSet
<1>11. /\ t \in 0..(2 * MaxTime)
       /\ \A i \in Used(d) : d.items[i].expires = 0 \/ (t # 0 /\ t =< d.items[i].expires)
  <2>1. CASE E = {}
    <3>1. t = 0 /\ \A i \in Used(d) : d.items[i].expires = 0
      BY <1>6, <1>7, <2>1
    <3> QED BY <3>1, Constants
  <2>2. CASE E # {}
    <3>1. E \in SUBSET Nat
      BY <1>6, <1>10, Constants
    <3>2. t \in E /\ \A y \in E : t =< y
      BY <1>7, <2>2, <3>1, LeastNumber
    <3> QED BY <1>6, <1>10, <3>2
  <2> QED BY <2>1, <2>2
<1>12. new \in CacheSet
  <2>1. d.items \in [Index -> ItemSet] /\ d.hashtable \in [Slot -> Items0]
    BY DEF CacheSet
  <2>2. u \in Seq(Index) /\ n \in Int /\ Padding \in SUBSET Bits /\ 0 \in 0..(Blocks - 1) /\ 0 \in Items0
    BY <1>2, Constants DEF StackUpTo, Padding
  <2> QED BY <1>9, <1>11, <2>1, <2>2 DEF CacheSet
<1>13. Used(new) = Used(d) /\ \A h : InChain(new, h) = InChain(d, h)
  BY <1>9 DEF Used, InChain
<1>14. Stacked(new)
  <2>1. Used(d) \cap 1..(MaxItems - 1) = Used(d)
    BY <1>2 DEF Used
  <2>2. \A x \in 1..Len(u) : u[x] \notin Used(d)
    BY <1>2 DEF StackUpTo
  <2>3. \A x, y \in 1..Len(u) : u[x] = u[y] => x = y
    BY <1>2 DEF StackUpTo
  <2>4. \A i \in Index \ Used(d) : \E x \in 1..Len(u) : u[x] = i
    BY <1>2 DEF StackUpTo
  <2>5. Len(u) + Cardinality(Used(d)) = MaxItems - 1
    BY <1>2, <2>1 DEF StackUpTo
  <2> QED BY <1>3, <1>9, <1>13, <2>2, <2>3, <2>4, <2>5 DEF Stacked
<1>15. Keyed(new)
  BY <1>9, <1>13 DEF Keyed
<1>16. Chained(new)
  <2>1. Nexts(new) = Nexts(d) /\ Prevs(new) = Prevs(d)
    BY <1>9 DEF Nexts, Prevs
  <2> QED BY <1>9, <1>13, <2>1 DEF Chained, ChainIs
<1>17. Padded(d) => Padded(new)
  <2>1. \A i : RunOf(new, i) = RunOf(d, i)
    BY <1>9 DEF RunOf
  <2> QED BY <1>9, <1>13, <2>1 DEF Padded
<1>18. RemIn(o, 0, new)
  BY <1>9, <1>11, <1>13 DEF RemIn
<1> QED BY <1>12, <1>14, <1>15, <1>16, <1>17, <1>18 DEF SoundIn

------------------------------------------------------------------------------
(* The sweeper.                                                             *)

\* What the sweeper does to d at item w; b is d with next_scan reset by the first.
SweptAt(new, d, w) ==
    \E b : /\ b = IF w = 1 THEN [d EXCEPT !.next_scan = 0] ELSE d
           /\ new = SweepAt(b, w)

\* The sweeper deletes what has expired and tells the next scan of the rest.
LEMMA SweepKeeps ==
    ASSUME NEW d, Sound(d), NEW w \in Index, Clock, NEW new, SweptAt(new, d, w)
    PROVE Sound(new) /\ (RemIn(uc, w, d) => RemIn(uc, (w + 1) % MaxItems, new))
<1>1. PICK b : /\ b = IF w = 1 THEN [d EXCEPT !.next_scan = 0] ELSE d
               /\ new = LET e == b.items[w].expires IN
                        IF e = 0 THEN b
                        ELSE IF e =< now THEN Del(b, w)
                        ELSE IF b.next_scan = 0 \/ b.next_scan > e
                             THEN [b EXCEPT !.next_scan = e] ELSE b
  BY DEF SweptAt, SweepAt
<1>2. PICK e \in 0..(2 * MaxTime) : e = d.items[w].expires
  BY ChainTypes DEF Sound, ItemSet
<1>3. /\ Sound(b) /\ Used(b) = Used(d) /\ b.items = d.items
      /\ b.next_scan = IF w = 1 THEN 0 ELSE d.next_scan
  <2>1. CASE w = 1
    <3>1. 0 \in 0..(2 * MaxTime) /\ b = [d EXCEPT !.next_scan = 0]
      BY <1>1, <2>1, Constants
    <3>2. PICK t \in 0..(2 * MaxTime) : t = 0
      BY <3>1
    <3>3. b = [d EXCEPT !.next_scan = t]
      BY <3>1, <3>2
    <3>4. /\ Sound(b) /\ Fewer(b, d) /\ b.next_scan = t
          /\ Used(b) = Used(d) /\ b.items = d.items
          /\ SameStack(b, d) /\ SameBlocks(b, d)
      BY <3>3, ScanSet
    <3> QED BY <2>1, <3>2, <3>4
  <2>2. CASE w # 1
    BY <1>1, <2>2
  <2> QED BY <2>1, <2>2
<1>4. new = IF e = 0 THEN b
            ELSE IF e =< now THEN Del(b, w)
            ELSE IF b.next_scan = 0 \/ b.next_scan > e THEN [b EXCEPT !.next_scan = e] ELSE b
  BY <1>1, <1>2, <1>3
<1>5. b.next_scan \in Nat /\ d.next_scan \in Nat /\ now \in Nat /\ e \in Nat
      /\ w \in Nat /\ w >= 1 /\ w < MaxItems /\ MaxItems \in Nat
  BY <1>3, Constants DEF Sound, CacheSet, Clock, Index
<1>6. \A i \in Index : i \in Nat /\ i >= 1 /\ i < MaxItems /\ d.items[i].expires \in Nat
  BY Constants, ChainTypes DEF Sound, ItemSet, Index
<1> DEFINE v == (w + 1) % MaxItems
<1>7. \A i \in Index : w < i => v = w + 1 /\ v # 0 /\ v =< i
  BY <1>5, <1>6
\* What is kept of the items that are not at w, with the next scan t.
<1>8. ASSUME RemIn(uc, w, d), ~uc.purge_lru, NEW i \in Used(d), i # w,
             NEW t \in Nat, t = b.next_scan \/ (t # 0 /\ (b.next_scan = 0 \/ t < b.next_scan))
      PROVE \/ d.items[i].expires = 0 \/ d.items[i].abs
            \/ t # 0 /\ t =< d.items[i].expires
            \/ v # 0 /\ v =< i
  <2>1. i \in Index
    BY DEF Used
  <2>2. \/ d.items[i].expires = 0 \/ d.items[i].abs
        \/ d.next_scan # 0 /\ d.next_scan =< d.items[i].expires
        \/ w # 0 /\ w =< i
    BY <1>8 DEF RemIn
  <2>3. CASE w < i
    BY <1>7, <2>1, <2>3
  <2>4. CASE ~(w < i)
    <3>1. i < w /\ b.next_scan = d.next_scan
      BY <1>3, <1>5, <1>6, <1>8, <2>1, <2>4
    <3>2. d.items[i].expires = 0 \/ d.items[i].abs
          \/ (d.next_scan # 0 /\ d.next_scan =< d.items[i].expires)
      BY <1>5, <1>6, <2>1, <2>2, <3>1
    <3>3. (d.next_scan # 0 /\ d.next_scan =< d.items[i].expires)
          => t # 0 /\ t =< d.items[i].expires
      BY <1>5, <1>6, <1>8, <2>1, <3>1
    <3> HIDE DEF v
    <3> QED BY <3>2, <3>3
  <2> QED BY <2>3, <2>4
<1>9. CASE e = 0
  <2>1. new = b
    BY <1>4, <1>9
  <2>2. ASSUME RemIn(uc, w, d), ~uc.purge_lru, NEW i \in Used(new)
        PROVE \/ new.items[i].expires = 0 \/ new.items[i].abs
              \/ new.next_scan # 0 /\ new.next_scan =< new.items[i].expires
              \/ v # 0 /\ v =< i
    <3>1. i \in Used(d) /\ new.items = d.items
      BY <1>3, <2>1
    <3>2. CASE i = w
      BY <1>2, <1>9, <3>1, <3>2
    <3>3. CASE i # w
      BY <1>5, <1>8, <2>1, <2>2, <3>1, <3>3
    <3> QED BY <3>2, <3>3
  <2> QED BY <1>3, <2>1, <2>2 DEF RemIn
<1>10. CASE e # 0 /\ e =< now
  <2>1. new = Del(b, w)
    BY <1>4, <1>10
  <2>2. Reduced(new, b) /\ Used(new) = Used(b) \ {w}
    BY <1>3, <2>1, DelReduces
  <2>3. ASSUME RemIn(uc, w, d), ~uc.purge_lru, NEW i \in Used(new)
        PROVE \/ new.items[i].expires = 0 \/ new.items[i].abs
              \/ new.next_scan # 0 /\ new.next_scan =< new.items[i].expires
              \/ v # 0 /\ v =< i
    <3>1. /\ i \in Used(d) /\ i # w /\ new.items[i].expires = d.items[i].expires
          /\ new.items[i].abs = d.items[i].abs /\ new.next_scan = b.next_scan
      BY <1>3, <2>2 DEF Reduced, Fewer
    <3> QED BY <1>5, <1>8, <2>3, <3>1
  <2> QED BY <2>2, <2>3 DEF RemIn, Reduced
<1>11. CASE e # 0 /\ ~(e =< now)
  <2>1. PICK t \in Nat : t = IF b.next_scan = 0 \/ b.next_scan > e THEN e ELSE b.next_scan
    BY <1>5
  <2>2. Sound(new) /\ Used(new) = Used(d) /\ new.items = d.items /\ new.next_scan = t
    <3>1. CASE b.next_scan = 0 \/ b.next_scan > e
      <4>1. new = [b EXCEPT !.next_scan = e]
        BY <1>4, <1>11, <3>1
      <4>2. /\ Sound(new) /\ Fewer(new, b) /\ new.next_scan = e
            /\ Used(new) = Used(b) /\ new.items = b.items
            /\ SameStack(new, b) /\ SameBlocks(new, b)
        BY <1>3, <4>1, ScanSet
      <4> QED BY <1>3, <2>1, <3>1, <4>2
    <3>2. CASE ~(b.next_scan = 0 \/ b.next_scan > e)
      <4>1. new = b
        BY <1>4, <1>11, <3>2
      <4> QED BY <1>3, <2>1, <3>2, <4>1
    <3> QED BY <3>1, <3>2
  <2>3. t = b.next_scan \/ (t # 0 /\ (b.next_scan = 0 \/ t < b.next_scan))
    BY <1>5, <1>11, <2>1
  <2>4. t # 0 /\ t =< e
    BY <1>5, <1>11, <2>1
  <2>5. ASSUME RemIn(uc, w, d), ~uc.purge_lru, NEW i \in Used(new)
        PROVE \/ new.items[i].expires = 0 \/ new.items[i].abs
              \/ new.next_scan # 0 /\ new.next_scan =< new.items[i].expires
              \/ v # 0 /\ v =< i
    <3>1. i \in Used(d)
      BY <2>2
    <3>2. CASE i = w
      BY <1>2, <2>2, <2>4, <3>2
    <3>3. CASE i # w
      BY <1>8, <2>2, <2>3, <2>5, <3>1, <3>3
    <3> QED BY <3>2, <3>3
  <2> QED BY <2>2, <2>5 DEF RemIn
<1> QED BY <1>9, <1>10, <1>11

------------------------------------------------------------------------------
(* What a sound cache shows.                                                *)

\* The scan misses only runs that straddle its start.
LEMMA OnlyStraddling ==
    ASSUME NEW d \in CacheSet, NEW n, NEW b \in Bits, n \in Nat, n >= 1,
           Free(d, b, n), FindFreeBlocks(d, n) = None
    PROVE /\ b < d.pos
          /\ b + n - 1 >= (d.pos \div ByteSize) * ByteSize
                          + (IF d.pos % ByteSize > 0 THEN ByteSize ELSE 0)
<1>1. PICK ahead : ahead = {x \in Bits : x >= d.pos /\ Free(d, x, n)}
  OBVIOUS
<1>2. PICK behind : behind = {x \in Bits : Free(d, x, n) /\ x + n =< ScanEnd(d)}
  OBVIOUS
<1>3. None = IF ahead # {} THEN Least(ahead) ELSE IF behind # {} THEN Least(behind) ELSE None
  BY <1>1, <1>2 DEF FindFreeBlocks
<1>4. ahead \in SUBSET Nat /\ behind \in SUBSET Nat
  BY <1>1, <1>2 DEF Bits
<1>5. ahead = {}
  <2> SUFFICES ASSUME ahead # {} PROVE FALSE
    OBVIOUS
  <2>1. Least(ahead) \in ahead
    BY <1>4, LeastNumber
  <2> QED BY <1>3, <1>4, <2>1 DEF None
<1>6. behind = {}
  <2> SUFFICES ASSUME behind # {} PROVE FALSE
    OBVIOUS
  <2>1. Least(behind) \in behind
    BY <1>4, LeastNumber
  <2> QED BY <1>3, <1>4, <1>5, <2>1 DEF None
<1>7. b \in Nat /\ d.pos \in Nat /\ ByteSize \in Nat /\ ByteSize >= 1
  BY Constants DEF Bits, CacheSet
<1>8. b < d.pos /\ ~(b + n =< ScanEnd(d))
  BY <1>1, <1>2, <1>5, <1>6, <1>7
<1>9. PICK q \in Nat : q = d.pos \div ByteSize
  BY <1>7
<1>10. PICK p \in Nat : p = q * ByteSize
  BY <1>7
<1>11. (q + 1) * ByteSize = p + ByteSize /\ (q + 0) * ByteSize = p
  BY <1>7, <1>9, <1>10
<1>12. CASE d.pos % ByteSize > 0
  <2>1. ScanEnd(d) = p + ByteSize
    BY <1>9, <1>11, <1>12 DEF ScanEnd
  <2>2. b + n - 1 >= p + ByteSize
    BY <1>7, <1>8, <1>10, <2>1
  <2> QED BY <1>8, <1>9, <1>10, <1>12, <2>2
<1>13. CASE ~(d.pos % ByteSize > 0)
  <2>1. ScanEnd(d) = p
    BY <1>9, <1>11, <1>13 DEF ScanEnd
  <2>2. b + n - 1 >= p + 0
    BY <1>7, <1>8, <1>10, <2>1
  <2> QED BY <1>8, <1>9, <1>10, <1>13, <2>2
<1> QED BY <1>12, <1>13

\* A walk along the LRU list.
LruWalk(d) ==
    CHOOSE walk : walk = [n \in 0..MaxItems |->
        IF n = 0 THEN d.lru_head
        ELSE IF walk[n - 1] = 0 THEN 0 ELSE d.items[walk[n - 1]].lru_next]

\* It meets the items in use, and ends after them.
Completes(u, d) ==
    /\ {u[n] : n \in 0..MaxItems} \ {0} = Used(d)
    /\ u[Cardinality(Used(d))] = 0
    /\ Used(d) # {} => u[Cardinality(Used(d)) - 1] = d.lru_tail

\* The walk along the LRU list is complete.
LEMMA LruWalkCompletes ==
    ASSUME NEW d \in CacheSet, Listed(d)
    PROVE Completes(LruWalk(d), d)
<1>1. MaxItems \in Nat /\ MaxItems >= 1
  BY Constants
<1>2. PICK S, nx, pv, head, tail :
         S = Used(d) /\ nx = LruNexts(d) /\ pv = LruPrevs(d) /\ head = d.lru_head /\ tail = d.lru_tail
  OBVIOUS
<1>3. PICK n, s : IsList(S, nx, pv, head, tail, n, s)
  BY <1>2 DEF Listed, Linked
<1>4. S \in SUBSET Index
  BY <1>2, ChainTypes
<1>5. n \in Nat /\ n =< MaxItems - 1 /\ n = Cardinality(S)
  BY <1>3, <1>4, ListLength
<1>6. /\ s \in [0..(n + 1) -> Items0] /\ s[n + 1] = 0 /\ s[1] = head /\ s[n] = tail
      /\ \A k \in 1..n : s[k] \in S /\ nx[s[k]] = s[k + 1]
      /\ \A i \in S : \E k \in 1..n : s[k] = i
  BY <1>3 DEF IsList
<1>7. PICK g : g = [a \in Items0 |-> IF a = 0 THEN 0 ELSE d.items[a].lru_next]
  OBVIOUS
<1>8. ASSUME NEW a \in Items0 PROVE (IF a = 0 THEN 0 ELSE d.items[a].lru_next) \in Items0
  <2>1. a = 0 \/ a \in Index
    BY Constants
  <2> QED BY <2>1, ChainTypes, Constants DEF ItemSet
<1>9. g \in [Items0 -> Items0] /\ \A a \in Items0 : g[a] = IF a = 0 THEN 0 ELSE d.items[a].lru_next
  BY <1>7, <1>8
<1>10. PICK gg : gg = [i \in 1..MaxItems |-> g]
  OBVIOUS
<1>11. gg \in Tables(Items0, MaxItems) /\ \A i \in 1..MaxItems : gg[i] = g
  BY <1>9, <1>10 DEF Tables
<1>12. PICK x \in Items0 : x = head
  BY <1>2 DEF CacheSet
<1>13. Iterable(Items0, x, gg, MaxItems)
  BY <1>1, <1>11, IterationExists
<1>14. PICK f \in [0..MaxItems -> Items0] :
          f[0] = x /\ \A i \in 1..MaxItems : f[i] = gg[i][f[i - 1]]
  BY <1>13 DEF Iterable
<1> DEFINE P(walk) == walk = [m \in 0..MaxItems |->
        IF m = 0 THEN d.lru_head
        ELSE IF walk[m - 1] = 0 THEN 0 ELSE d.items[walk[m - 1]].lru_next]
<1>15. P(f)
  <2>1. ASSUME NEW m \in 0..MaxItems
        PROVE f[m] = IF m = 0 THEN d.lru_head
                     ELSE IF f[m - 1] = 0 THEN 0 ELSE d.items[f[m - 1]].lru_next
    <3>1. CASE m = 0
      BY <1>2, <1>12, <1>14, <3>1
    <3>2. CASE m # 0
      <4>1. m \in 1..MaxItems /\ m - 1 \in 0..MaxItems
        BY <1>1, <3>2
      <4>2. f[m] = g[f[m - 1]] /\ f[m - 1] \in Items0
        BY <1>11, <1>14, <4>1
      <4>3. f[m] = IF f[m - 1] = 0 THEN 0 ELSE d.items[f[m - 1]].lru_next
        BY <1>9, <4>2
      <4> QED BY <3>2, <4>3
    <3> QED BY <3>1, <3>2
  <2>2. f = [m \in 0..MaxItems |-> f[m]]
    OBVIOUS
  <2> QED BY <2>1, <2>2, Zenon
<1>16. LruWalk(d) = (CHOOSE walk : P(walk))
  BY DEF LruWalk
<1> HIDE DEF P
<1>17. PICK u : u = LruWalk(d)
  OBVIOUS
<1>18. P(u)
  BY <1>15, <1>16, <1>17
<1>19. \A m \in 0..MaxItems : u[m] = IF m = 0 THEN d.lru_head
                                     ELSE IF u[m - 1] = 0 THEN 0 ELSE d.items[u[m - 1]].lru_next
  BY <1>18, Zenon DEF P
<1>20. u[0] = s[1]
  BY <1>1, <1>2, <1>6, <1>19
<1> DEFINE T == {m \in Nat : m =< MaxItems => u[m] \in Items0}
<1>21. \A m \in Nat : m \in T
  <2>1. 0 \in T
    BY <1>2, <1>12, <1>19
  <2>2. ASSUME NEW m \in Nat, m \in T PROVE m + 1 \in T
    <3> SUFFICES ASSUME m + 1 =< MaxItems PROVE u[m + 1] \in Items0
      OBVIOUS
    <3>1. PICK l : l = m + 1 /\ m = l - 1 /\ l \in 0..MaxItems /\ l # 0
      BY <1>1
    <3>2. u[m] \in Items0
      BY <1>1, <2>2, <3>1
    <3>3. u[l] = IF u[m] = 0 THEN 0 ELSE d.items[u[m]].lru_next
      BY <1>19, <3>1
    <3> QED BY <1>8, <3>1, <3>2, <3>3
  <2> HIDE DEF T
  <2> QED BY <2>1, <2>2, AllNumbers
<1>22. \A m \in 1..MaxItems : u[m] = g[u[m - 1]]
  <2> SUFFICES ASSUME NEW m \in 1..MaxItems PROVE u[m] = g[u[m - 1]]
    OBVIOUS
  <2>1. m \in 0..MaxItems /\ m # 0 /\ m - 1 \in Nat /\ m - 1 =< MaxItems
    BY <1>1
  <2>2. u[m - 1] \in Items0
    BY <1>21, <2>1
  <2>3. u[m] = IF u[m - 1] = 0 THEN 0 ELSE d.items[u[m - 1]].lru_next
    BY <1>19, <2>1
  <2> QED BY <1>9, <2>2, <2>3
<1>23. PICK t \in Nat : t = n + 1 /\ n = t - 1 /\ t >= 1
  BY <1>5
<1>24. Walks(u, MaxItems, g, s, t)
  <2>1. ASSUME NEW j \in 1..(t - 1) PROVE g[s[j]] = s[j + 1]
    <3>1. j \in 1..n
      BY <1>23
    <3>2. s[j] \in Index /\ nx[s[j]] = s[j + 1]
      BY <1>4, <1>6, <3>1
    <3>3. s[j] \in Items0 /\ s[j] # 0
      BY <3>2, Constants
    <3> QED BY <1>2, <1>9, <3>2, <3>3, ChainTypes
  <2>2. g[s[t]] = s[t]
    BY <1>6, <1>9, <1>23, Constants
  <2> QED BY <1>20, <1>22, <2>1, <2>2 DEF Walks
<1>25. Arrives(u, MaxItems, s, t)
  BY <1>1, <1>23, <1>24, WalkAlong
<1>26. \A m \in 0..MaxItems : u[m] = s[IF m + 1 < t THEN m + 1 ELSE t]
  BY <1>25 DEF Arrives
<1>27. u[n] = 0
  BY <1>1, <1>5, <1>6, <1>23, <1>26
<1>28. S # {} => u[n - 1] = tail
  <2> SUFFICES ASSUME S # {} PROVE u[n - 1] = tail
    OBVIOUS
  <2>1. n >= 1
    BY <1>5, <1>6
  <2>2. PICK m \in Nat : m = n - 1 /\ n = m + 1
    BY <1>5, <2>1
  <2>3. m \in 0..MaxItems /\ m + 1 < t
    BY <1>1, <1>5, <1>23, <2>2
  <2>4. u[m] = s[m + 1]
    BY <1>26, <2>3
  <2> QED BY <1>6, <2>2, <2>4
<1>29. ASSUME NEW i PROVE i \in {u[m] : m \in 0..MaxItems} \ {0} <=> i \in S
  <2>1. ASSUME i \in S PROVE i \in {u[m] : m \in 0..MaxItems} \ {0}
    <3>1. PICK k \in 1..n : s[k] = i
      BY <1>6, <2>1
    <3>2. PICK m \in Nat : m = k - 1 /\ k = m + 1
      BY <1>5
    <3>5. m \in 0..MaxItems /\ m + 1 < t
      BY <1>1, <1>5, <1>23, <3>2
    <3>3. u[m] = i
      BY <1>26, <3>1, <3>2, <3>5
    <3>4. i # 0
      BY <1>4, <2>1, Constants
    <3> QED BY <3>3, <3>4, <3>5
  <2>2. ASSUME i \in {u[m] : m \in 0..MaxItems} \ {0} PROVE i \in S
    <3>1. PICK m \in 0..MaxItems : u[m] = i /\ i # 0
      BY <2>2
    <3>2. u[m] = s[IF m + 1 < t THEN m + 1 ELSE t] /\ s[t] = 0
      BY <1>6, <1>23, <1>26
    <3>3. m + 1 < t
      BY <3>1, <3>2
    <3>4. u[m] = s[m + 1]
      BY <3>2, <3>3
    <3>5. m + 1 \in 1..n
      BY <1>1, <1>5, <1>23, <3>3
    <3> QED BY <1>6, <3>1, <3>4, <3>5
  <2> QED BY <2>1, <2>2
<1> QED BY <1>2, <1>5, <1>17, <1>27, <1>28, <1>29 DEF Completes

\* A stored key is found, and its links lead back.
LEMMA FoundStored ==
    ASSUME NEW d \in CacheSet, Keyed(d), Chained(d), NEW i \in Used(d)
    PROVE /\ Find(d, d.items[i].key) = i
          /\ d.items[i].prev # 0 => d.items[d.items[i].prev].next = i
          /\ d.items[i].next # 0 => d.items[d.items[i].next].prev = i
<1>1. i \in Index
  BY DEF Used
<1>2. PICK k \in Key : k = d.items[i].key
  BY DEF Keyed
<1>3. Find(d, k) = i
  <2>1. \A j \in Used(d) : d.items[j].key = k => Find(d, k) = j
    BY FindIs
  <2> QED BY <1>2, <2>1
<1>4. PICK h \in Slot : h = d.items[i].hash
  BY <1>1, ChainTypes
<1>5. PICK S, nx, pv, head : S = InChain(d, h) /\ nx = Nexts(d) /\ pv = Prevs(d) /\ head = d.hashtable[h]
  OBVIOUS
<1>6. PICK t : Linked(S, nx, pv, head, t)
  BY <1>5 DEF Chained, ChainIs
<1>7. S \in SUBSET Index /\ i \in S
  BY <1>4, <1>5, ChainTypes DEF InChain
<1>8. Knotted(S, nx, pv, head, t)
  BY <1>6, <1>7, ListFacts
<1>9. /\ nx[i] \in S \cup {0} /\ pv[i] \in S \cup {0}
      /\ nx[i] # 0 => pv[nx[i]] = i
      /\ pv[i] # 0 => nx[pv[i]] = i
  BY <1>7, <1>8 DEF Knotted
<1>10. \A j \in Index : nx[j] = d.items[j].next /\ pv[j] = d.items[j].prev
  BY <1>5, ChainTypes
<1> QED BY <1>2, <1>3, <1>7, <1>9, <1>10

------------------------------------------------------------------------------
(* The invariant.                                                           *)

\* The types of what is not in the cache; only with lazy_expire do readers
\* delete.
Typed ==
    /\ uc \in CacheConfigs /\ now \in 1..MaxTime /\ sweep \in Items0
    /\ seen \subseteq {"raced", "restarted", "swept"}
    /\ rd \in [Reader -> [at: {"idle", "test", "drop"}, slot: Items0]]
    /\ \A r \in Reader : rd[r].at # "idle" => rd[r].slot \in Index /\ uc.lazy_expire

\* One reader at most is in uwsgi_cache_del2, and its item is in use.
Alone ==
    Step => \A r, s \in Reader : rd[r].at = "drop" =>
                /\ rd[r].slot \in Used(c)
                /\ rd[s].at = "drop" => s = r

\* The inductive invariant of the cache.
CacheInv ==
    /\ Typed /\ Alone
    /\ SoundIn(uc, seen, c)
    /\ "swept" \notin seen => RemIn(uc, sweep, c)

\* The cache, the clock and the sweeper as the lemmas above name them.
LEMMA InvSound ==
    ASSUME CacheInv
    PROVE /\ Sound(c) /\ Clock /\ Typed
          /\ "swept" \notin seen => Rem(c)
<1>1. uc.sweep_on_full \in 0..MaxTime
  BY CacheAssumption DEF CacheInv, Typed, CacheConfig
<1> QED BY <1>1 DEF CacheInv, Sound, SoundIn, Clock, Typed, Rem, RemIn, Recalled

\* A step to a sound cache.
LEMMA Settles ==
    ASSUME Typed', Alone', uc' = uc, NEW new, c' = new, SoundIn(uc, seen', new),
           "swept" \notin seen' => RemIn(uc, sweep', new)
    PROVE CacheInv'
BY DEF CacheInv

\* No reader is in uwsgi_cache_del2 while a writer has the lock.
LEMMA WritableAlone ==
    ASSUME Writable, rd' = rd
    PROVE Alone'
BY DEF Writable, Alone

\* A step that only writes the cache.
LEMMA WriteKeeps ==
    ASSUME CacheInv, Writable, UNCHANGED <<uc, now, rd, sweep>>,
           NEW new, c' = new, Fine(new, c), seen' = Noted
    PROVE CacheInv'
<1>1. Sound(c) /\ Clock /\ Typed /\ ("swept" \notin seen => Rem(c))
  BY InvSound
<1>2. Alone'
  BY WritableAlone
<1>3. Typed'
  <2>1. seen' \subseteq {"raced", "restarted", "swept"}
    BY <1>1 DEF Typed, Noted
  <2> QED BY <1>1, <2>1 DEF Typed
<1>4. SoundIn(uc, seen', new)
  <2>1. "restarted" \in seen' <=> "restarted" \in seen
    BY DEF Noted
  <2> QED BY <2>1 DEF Fine, Sound, SoundIn
<1>5. ASSUME "swept" \notin seen' PROVE RemIn(uc, sweep', new)
  <2>1. "swept" \notin seen /\ ~(new.next_scan > c.next_scan /\ c.next_scan > 0)
    BY <1>5 DEF Noted
  <2>2. c.next_scan \in Nat /\ new.next_scan \in Nat /\ now \in Nat
    BY <1>1, Constants DEF Fine, Sound, CacheSet, Clock
  <2>3. Rem(new)
    BY <1>1, <2>1, <2>2 DEF Fine, Scans, PutOff
  <2> QED BY <2>3 DEF Rem, RemIn, Recalled
<1> QED BY <1>2, <1>3, <1>4, <1>5, Settles

\* A step that only deletes, or looks at an item.
LEMMA ReduceKeeps ==
    ASSUME CacheInv, Writable, UNCHANGED <<uc, now, rd, sweep, seen>>,
           NEW new, c' = new, Reduced(new, c)
    PROVE CacheInv'
<1>1. Sound(c) /\ Clock /\ Typed /\ ("swept" \notin seen => Rem(c))
  BY InvSound
<1>2. Fine(new, c)
  BY <1>1, ReducedFine
<1>3. seen' = Noted
  <2>1. c.next_scan \in Nat
    BY <1>1, Constants DEF Sound, CacheSet
  <2>2. ~(c'.next_scan > c.next_scan)
    BY <2>1 DEF Reduced
  <2> QED BY <2>2 DEF Noted
<1> QED BY <1>2, <1>3, WriteKeeps

\* A set, from here or from another node, keeps the invariant.
LEMMA SetsKeep ==
    ASSUME CacheInv, MagicSet \/ UdpSet
    PROVE CacheInv'
<1>1. Writable /\ UNCHANGED <<uc, now, rd, sweep>> /\ seen' = Noted
  BY DEF MagicSet, UdpSet
<1>2. Sound(c) /\ Clock /\ Typed
  BY InvSound
<1>3. uc.lifetimes \subseteq 0..MaxTime
  BY <1>2, CacheAssumption DEF Typed
<1>4. Sizes \subseteq 1..2
  BY DEF Sizes
<1>5. \E k \in Key, n \in 1..2 : \E e, fl : Lifetime(e, fl) /\ c' = Set2(k, n, e, fl)
  <2>1. CASE MagicSet
    <3>1. PICK k \in Key, n \in Sizes, e \in uc.lifetimes, fl \in Flags : c' = Set2(k, n, e, fl)
      BY <2>1 DEF MagicSet
    <3>2. Lifetime(e, fl)
      BY <1>3 DEF Lifetime
    <3> QED BY <1>4, <3>1, <3>2
  <2>2. CASE UdpSet
    <3>1. PICK k \in Key, n \in Sizes, e \in {0, now, now + 1}, fl \in {{"update", "abs"}} :
             c' = Set2(k, n, e, fl)
      BY <2>2 DEF UdpSet
    <3>2. Lifetime(e, fl)
      BY <1>2, Constants DEF Lifetime, Clock
    <3> QED BY <1>4, <3>1, <3>2
  <2> QED BY <2>1, <2>2
<1>6. PICK k \in Key, n \in 1..2 : \E e, fl : Lifetime(e, fl) /\ c' = Set2(k, n, e, fl)
  BY <1>5
<1>7. PICK e, fl : Lifetime(e, fl) /\ c' = Set2(k, n, e, fl)
  BY <1>6
<1>8. PICK new : new = Set2(k, n, e, fl)
  OBVIOUS
<1>9. Fine(new, c)
  BY <1>2, <1>7, <1>8, SetFine
<1> QED BY <1>1, <1>7, <1>8, <1>9, WriteKeeps

\* A delete, a clear or a get keeps the invariant.
LEMMA DeletesKeep ==
    ASSUME CacheInv, MagicDel \/ MagicClear \/ MagicGet
    PROVE CacheInv'
<1>1. Writable /\ UNCHANGED <<uc, now, rd, sweep, seen>>
  BY DEF MagicDel, MagicClear, MagicGet
<1>2. Sound(c)
  BY InvSound
<1>3. \E new : c' = new /\ Reduced(new, c)
  <2>1. CASE MagicClear
    <3>1. PICK new : new = DelEach(c, Index)
      OBVIOUS
    <3>2. Reduced(new, c)
      BY <1>2, <3>1, DelEachReduces
    <3> QED BY <2>1, <3>1, <3>2 DEF MagicClear
  <2>2. CASE MagicDel \/ MagicGet
    <3>1. PICK k \in Key : \E found :
             /\ found = Lookup(c, k)
             /\ \/ found.slot = 0 /\ c' = found.c
                \/ found.slot # 0 /\ c' = Del(found.c, found.slot)
                \/ found.slot # 0 /\ c' = Touch(found.c, found.slot)
      BY <2>2 DEF MagicDel, MagicGet
    <3>2. PICK found : /\ found = Lookup(c, k)
                       /\ \/ found.slot = 0 /\ c' = found.c
                          \/ found.slot # 0 /\ c' = Del(found.c, found.slot)
                          \/ found.slot # 0 /\ c' = Touch(found.c, found.slot)
      BY <3>1
    <3>3. FoundIn(found, c, k)
      BY <1>2, <3>2, LookupFinds
    <3>4. PICK a, i : a = found.c /\ i = found.slot
      OBVIOUS
    <3>5. Reduced(a, c) /\ i \in Used(a) \cup {0} /\ Sound(a)
      BY <3>3, <3>4 DEF FoundIn, Reduced
    <3>6. CASE i = 0
      BY <3>2, <3>4, <3>5, <3>6
    <3>7. CASE i # 0 /\ c' = Del(a, i)
      <4>1. PICK new : new = Del(a, i)
        OBVIOUS
      <4>2. i \in Index
        BY <3>5, <3>7 DEF Used
      <4>3. Reduced(new, a)
        BY <3>5, <4>1, <4>2, DelReduces
      <4>4. Reduced(new, c)
        BY <3>5, <4>3, ReducedTwice
      <4> QED BY <3>7, <4>1, <4>4
    <3>8. CASE i # 0 /\ c' = Touch(a, i)
      <4>1. PICK new : new = Touch(a, i)
        OBVIOUS
      <4>2. Reduced(new, a)
        BY <3>5, <3>8, <4>1, TouchReduces
      <4>3. Reduced(new, c)
        BY <3>5, <4>2, ReducedTwice
      <4> QED BY <3>8, <4>1, <4>3
    <3> QED BY <3>2, <3>4, <3>6, <3>7, <3>8
  <2> QED BY <2>1, <2>2
<1> QED BY <1>1, <1>3, ReduceKeeps

\* The next thing that a reader does.
Doing == [at: {"idle", "test", "drop"}, slot: Items0]

\* A reader goes on, with an item of the array unless it is done.
LEMMA ReaderGoesOn ==
    ASSUME Typed, NEW r \in Reader, NEW x \in Doing, rd' = [rd EXCEPT ![r] = x],
           x.at # "idle" => x.slot \in Index /\ uc.lazy_expire,
           UNCHANGED <<uc, now, sweep>>, seen' \subseteq seen \cup {"raced"}
    PROVE Typed'
<1>1. rd' \in [Reader -> Doing]
  BY DEF Typed, Doing
<1>2. \A q \in Reader : rd'[q].at # "idle" => rd'[q].slot \in Index /\ uc.lazy_expire
  BY DEF Typed
<1> QED BY <1>1, <1>2 DEF Typed, Doing

\* A reader finds an expired item.
LEMMA LazyFoundKeeps ==
    ASSUME CacheInv, NEW r \in Reader, LazyFound(r)
    PROVE CacheInv'
<1>1. Step /\ UNCHANGED <<uc, c, now, sweep, seen>> /\ uc.lazy_expire
  BY DEF LazyFound
<1>2. Sound(c) /\ Typed
  BY InvSound
<1>3. PICK k \in Key : /\ Find(c, k) # 0
                       /\ rd' = [rd EXCEPT ![r] = [at |-> "test", slot |-> Find(c, k)]]
  BY DEF LazyFound
<1>4. PICK i \in Index : i = Find(c, k)
  <2>1. Find(c, k) \in Used(c) \cup {0}
    BY <1>2, FindIs DEF Sound
  <2> QED BY <1>3, <2>1 DEF Used
<1>5. PICK x \in Doing : x = [at |-> "test", slot |-> i]
  BY Constants DEF Doing
<1>6. rd' = [rd EXCEPT ![r] = x] /\ x.at = "test" /\ x.slot = i
  BY <1>3, <1>4, <1>5
<1>7. Typed'
  BY <1>1, <1>2, <1>6, ReaderGoesOn
<1>8. Alone'
  <2>1. \A q \in Reader : rd'[q].at = "drop" => rd[q].at = "drop" /\ rd'[q] = rd[q]
    BY <1>2, <1>6 DEF Typed
  <2> QED BY <1>1, <2>1 DEF CacheInv, Alone, Step
<1> QED BY <1>1, <1>7, <1>8 DEF CacheInv

\* A reader enters uwsgi_cache_del2, or finds the item deleted.
LEMMA LazyTestKeeps ==
    ASSUME CacheInv, NEW r \in Reader, LazyTest(r)
    PROVE CacheInv'
<1>1. Step /\ UNCHANGED <<uc, c, now, sweep>> /\ rd[r].at = "test"
  BY DEF LazyTest
<1>2. Sound(c) /\ Typed
  BY InvSound
<1>3. rd[r].slot \in Index /\ uc.lazy_expire
  BY <1>1, <1>2 DEF Typed
<1>4. CASE c.items[rd[r].slot].key = NoKey
  <2>1. PICK x \in Doing : x = [at |-> "idle", slot |-> 0]
    BY Constants DEF Doing
  <2>2. rd' = [rd EXCEPT ![r] = x] /\ x.at = "idle" /\ seen' = seen
    BY <1>4, <2>1 DEF LazyTest
  <2>3. Typed'
    BY <1>1, <1>2, <2>2, ReaderGoesOn
  <2>4. Alone'
    <3>1. \A q \in Reader : rd'[q].at = "drop" => rd[q].at = "drop" /\ rd'[q] = rd[q]
      BY <1>2, <2>2 DEF Typed
    <3> QED BY <1>1, <3>1 DEF CacheInv, Alone, Step
  <2> QED BY <1>1, <2>2, <2>3, <2>4 DEF CacheInv
<1>5. CASE c.items[rd[r].slot].key # NoKey
  <2>1. PICK x \in Doing : x = [at |-> "drop", slot |-> rd[r].slot]
    BY <1>2, <1>3, Constants DEF Doing
  <2>2. rd' = [rd EXCEPT ![r] = x]
    BY <1>2, <1>5, <2>1 DEF LazyTest, Typed
  <2>3. seen' = IF \E s \in Reader : rd[s].at = "drop" THEN seen \cup {"raced"} ELSE seen
    BY <1>5 DEF LazyTest
  <2>4. Typed'
    BY <1>1, <1>2, <1>3, <2>1, <2>2, <2>3, ReaderGoesOn
  <2>5. Alone'
    <3>1. CASE \E s \in Reader : rd[s].at = "drop"
      BY <2>3, <3>1 DEF Alone, Step
    <3>2. CASE \A s \in Reader : rd[s].at # "drop"
      <4>1. \A q \in Reader : rd'[q].at = "drop" => q = r
        BY <1>2, <2>2, <3>2 DEF Typed
      <4>2. rd'[r].slot \in Used(c)
        BY <1>2, <1>3, <1>5, <2>1, <2>2 DEF Typed, Used
      <4> QED BY <1>1, <4>1, <4>2 DEF Alone
    <3> QED BY <3>1, <3>2
  <2>6. SoundIn(uc, seen', c) /\ ("swept" \notin seen' => RemIn(uc, sweep, c))
    <3>1. ("restarted" \in seen' <=> "restarted" \in seen) /\ ("swept" \in seen' <=> "swept" \in seen)
      BY <2>3
    <3> QED BY <3>1 DEF CacheInv, SoundIn
  <2> QED BY <1>1, <2>4, <2>5, <2>6 DEF CacheInv
<1> QED BY <1>4, <1>5

\* The reader that is alone in uwsgi_cache_del2 deletes its item.
LEMMA LazyDropKeeps ==
    ASSUME CacheInv, NEW r \in Reader, LazyDrop(r)
    PROVE CacheInv'
<1>1. Step /\ UNCHANGED <<uc, now, sweep, seen>> /\ rd[r].at = "drop"
  BY DEF LazyDrop
<1>2. Sound(c) /\ Clock /\ Typed /\ ("swept" \notin seen => Rem(c))
  BY InvSound
<1>3. rd[r].slot \in Used(c) /\ \A s \in Reader : rd[s].at = "drop" => s = r
  BY <1>1 DEF CacheInv, Alone
<1>4. PICK i \in Index : i = rd[r].slot /\ i \in Used(c)
  BY <1>3 DEF Used
<1>5. PICK new : new = Del(c, i)
  OBVIOUS
<1>6. c' = new
  BY <1>4, <1>5 DEF LazyDrop, Del, Used
<1>7. PICK x \in Doing : x = [at |-> "idle", slot |-> 0]
  BY Constants DEF Doing
<1>8. rd' = [rd EXCEPT ![r] = x] /\ x.at = "idle"
  BY <1>7 DEF LazyDrop
<1>9. Typed'
  BY <1>1, <1>2, <1>8, ReaderGoesOn
<1>10. Alone'
  <2>1. \A q \in Reader : rd'[q].at # "drop"
    BY <1>2, <1>3, <1>8 DEF Typed
  <2> QED BY <2>1 DEF Alone
<1>11. Reduced(new, c)
  BY <1>2, <1>4, <1>5, DelReduces
<1>12. Sound(new) /\ Fine(new, c)
  BY <1>2, <1>11, ReducedFine DEF Reduced
<1>13. SoundIn(uc, seen', new)
  BY <1>1, <1>12 DEF Sound, SoundIn
<1>14. ASSUME "swept" \notin seen' PROVE RemIn(uc, sweep', new)
  <2>1. c.next_scan \in Nat /\ now \in Nat /\ new.next_scan = c.next_scan
    BY <1>2, <1>11, Constants DEF Sound, CacheSet, Clock, Reduced
  <2>2. Rem(new)
    BY <1>1, <1>2, <1>12, <1>14, <2>1 DEF Fine, Scans, PutOff
  <2> QED BY <1>1, <2>2 DEF Rem, RemIn, Recalled
<1> QED BY <1>1, <1>6, <1>9, <1>10, <1>13, <1>14, Settles

\* The sweeper.
LEMMA SweepsKeep ==
    ASSUME CacheInv, SweepStart \/ SweepItem
    PROVE CacheInv'
<1>1. UNCHANGED <<uc, now, rd, seen>>
  BY DEF SweepStart, SweepItem
<1>2. Sound(c) /\ Clock /\ Typed /\ ("swept" \notin seen => Rem(c))
  BY InvSound
<1>3. "swept" \notin seen => RemIn(uc, sweep, c)
  BY DEF CacheInv
<1>4. CASE SweepStart
  <2>1. c' = c /\ sweep' = 1 /\ Index # {}
    BY <1>4 DEF SweepStart
  <2>2. 1 \in Index /\ \A i \in Index : 1 =< i
    BY <2>1, Constants DEF Index
  <2>3. Typed'
    BY <1>1, <1>2, <2>1, <2>2, Constants DEF Typed
  <2>4. PICK new : new = c
    OBVIOUS
  <2>5. SoundIn(uc, seen', new)
    BY <1>1, <1>2, <2>4 DEF Sound, SoundIn
  <2>6. RemIn(uc, sweep', new)
    <3>1. \A i \in Used(new) : 1 =< i
      BY <2>2 DEF Used
    <3> QED BY <2>1, <3>1 DEF RemIn
  <2>7. Alone'
    BY <1>1, <2>1 DEF CacheInv, Alone, Step
  <2> QED BY <1>1, <2>1, <2>3, <2>4, <2>5, <2>6, <2>7, Settles
<1>5. CASE SweepItem
  <2>1. sweep # 0 /\ sweep' = (sweep + 1) % MaxItems
    BY <1>5 DEF SweepItem
  <2>2. PICK w \in Index : w = sweep
    BY <1>2, <2>1, Constants DEF Typed
  <2>3. PICK b : b = IF w = 1 THEN [c EXCEPT !.next_scan = 0] ELSE c
    OBVIOUS
  <2>4. PICK new : c' = new /\ SweptAt(new, c, w)
    <3>1. PICK new : new = SweepAt(b, w)
      OBVIOUS
    <3>2. c' = new
      BY <1>5, <2>2, <2>3, <3>1 DEF SweepItem
    <3> QED BY <2>3, <3>1, <3>2 DEF SweptAt
  <2>5. Sound(new) /\ (RemIn(uc, w, c) => RemIn(uc, (w + 1) % MaxItems, new))
    BY <1>2, <2>4, SweepKeeps
  <2>6. Typed'
    <3>1. (w + 1) % MaxItems \in Items0
      <4>1. MaxItems \in Nat \ {0} /\ w \in Nat /\ w < MaxItems
        BY Constants DEF Index
      <4>2. (w + 1) % MaxItems = IF w + 1 = MaxItems THEN 0 ELSE w + 1
        BY <4>1
      <4> QED BY <4>1, <4>2 DEF Items0
    <3> QED BY <1>1, <1>2, <2>1, <2>2, <3>1 DEF Typed
  <2>7. SoundIn(uc, seen', new)
    BY <1>1, <2>5 DEF Sound, SoundIn
  <2>8. "swept" \notin seen' => RemIn(uc, sweep', new)
    BY <1>1, <1>3, <2>1, <2>2, <2>5
  <2>9. Alone'
    BY <1>1, <1>5, WritableAlone DEF SweepItem
  <2> QED BY <1>1, <2>4, <2>6, <2>7, <2>8, <2>9, Settles
<1> QED BY <1>4, <1>5

\* The restart.
LEMMA RestartKeeps ==
    ASSUME CacheInv, Restart
    PROVE CacheInv'
<1>1. Step /\ UNCHANGED <<uc, now>> /\ sweep' = 0 /\ seen' = seen \cup {"restarted"}
      /\ rd' = [r \in Reader |-> [at |-> "idle", slot |-> 0]]
  BY DEF Restart
<1>2. Sound(c) /\ Clock /\ Typed
  BY InvSound
<1>3. PICK new : new = Refit(c)
  OBVIOUS
<1>4. c' = new
  BY <1>3 DEF Restart, Refit
<1>5. SoundIn(uc, seen', new) /\ RemIn(uc, 0, new)
  <2>1. PICK o, s : o = uc /\ s = seen'
    OBVIOUS
  <2>2. SoundIn(o, s, new) /\ RemIn(o, 0, new)
    BY <1>1, <1>2, <1>3, <2>1, RefitSound DEF Sound
  <2> QED BY <2>1, <2>2
<1>6. Typed'
  BY <1>1, <1>2, Constants DEF Typed, Step
<1>7. Alone'
  BY <1>1 DEF Alone
<1> QED BY <1>1, <1>4, <1>5, <1>6, <1>7, Settles

\* Time passes, or nothing happens.
LEMMA TickKeeps ==
    ASSUME CacheInv, Tick \/ UNCHANGED vars
    PROVE CacheInv'
<1>1. UNCHANGED <<uc, c, rd, sweep, seen>> /\ now' \in 1..MaxTime
  <2>1. now \in 1..MaxTime /\ MaxTime \in Nat
    BY Constants DEF CacheInv, Typed
  <2>2. CASE Tick
    BY <2>1, <2>2 DEF Tick
  <2>3. CASE UNCHANGED vars
    BY <2>1, <2>3 DEF vars
  <2> QED BY <2>2, <2>3
<1>2. Typed'
  BY <1>1 DEF CacheInv, Typed
<1>3. Alone'
  BY <1>1 DEF CacheInv, Alone, Step
<1> QED BY <1>1, <1>2, <1>3 DEF CacheInv

\* CacheInv holds in every reachable state: the cache that the operations of
\* core/cache.c leave is sound, and the sweeper informed, until two readers
\* are in uwsgi_cache_del2 at once, where the model stops.
THEOREM CacheStaysSound == Spec => []CacheInv
<1>1. Init => CacheInv
  <2> SUFFICES ASSUME Init PROVE CacheInv
    OBVIOUS
  <2>1. SoundIn(uc, seen, EmptyCache) /\ RemIn(uc, sweep, EmptyCache)
    <3>1. PICK o, s, w : o = uc /\ s = seen /\ w = sweep
      OBVIOUS
    <3>2. SoundIn(o, s, EmptyCache) /\ RemIn(o, w, EmptyCache)
      BY EmptySound
    <3> QED BY <3>1, <3>2
  <2>2. c = EmptyCache
    BY DEF Init
  <2>3. SoundIn(uc, seen, c) /\ RemIn(uc, sweep, c)
    BY <2>1, <2>2
  <2>4. Alone
    BY DEF Init, Alone
  <2>5. Typed
    BY Constants DEF Init, Typed
  <2> QED BY <2>3, <2>4, <2>5 DEF CacheInv
<1>2. CacheInv /\ [Next]_vars => CacheInv'
  <2> SUFFICES ASSUME CacheInv, [Next]_vars PROVE CacheInv'
    OBVIOUS
  <2>1. CASE MagicSet \/ UdpSet
    BY <2>1, SetsKeep
  <2>2. CASE MagicDel \/ MagicClear \/ MagicGet
    BY <2>2, DeletesKeep
  <2>3. ASSUME NEW r \in Reader, LazyFound(r) \/ LazyTest(r) PROVE CacheInv'
    BY <2>3, LazyFoundKeeps, LazyTestKeeps
  <2>4. ASSUME NEW r \in Reader, LazyDrop(r) PROVE CacheInv'
    BY <2>4, LazyDropKeeps
  <2>5. CASE SweepStart \/ SweepItem
    BY <2>5, SweepsKeep
  <2>6. CASE Restart
    BY <2>6, RestartKeeps
  <2>7. CASE Tick \/ UNCHANGED vars
    BY <2>7, TickKeeps
  <2> QED BY <2>1, <2>2, <2>3, <2>4, <2>5, <2>6, <2>7 DEF Next, Corrupted
<1> QED BY <1>1, <1>2, PTL DEF Spec

\* ItemsAreSound in every reachable state: an item is in use or on the stack of
\* unused items, a stored key is found by its hash chain, and the LRU list
\* holds what is in use, after any sequence of cache operations in which no
\* two readers delete at once (and no worker is killed in the middle of one).
THEOREM ItemsStaySound == Spec => []ItemsAreSound
<1>1. CacheInv => ItemsAreSound
  <2> SUFFICES ASSUME CacheInv PROVE ItemsAreSound
    OBVIOUS
  <2>1. TypeOK
    <3>1. Typed /\ c \in CacheSet /\ c.n_items \in 0..(MaxItems - 1)
      BY ChainTypes DEF CacheInv, SoundIn, Stacked
    <3>2. /\ c.items \in [Index -> ItemSet] /\ c.hashtable \in [Slot -> Items0]
          /\ c.unused \in Seq(Index) /\ c.bitmap \subseteq Bits /\ c.pos \in 0..(Blocks - 1)
          /\ c.lru_head \in Items0 /\ c.lru_tail \in Items0 /\ c.next_scan \in 0..(2 * MaxTime)
      BY <3>1 DEF CacheSet
    <3> QED BY <3>1, <3>2 DEF TypeOK, Typed, ItemSet, Slot
  <2>2. SlotsAccountedFor
    <3> SUFFICES ASSUME "raced" \notin seen
                 PROVE /\ {c.unused[i] : i \in 1..Len(c.unused)} = Index \ Used(c)
                       /\ Len(c.unused) + Cardinality(Used(c)) = MaxItems - 1
                       /\ c.n_items = Cardinality(Used(c))
      BY DEF SlotsAccountedFor
    <3>1. Stacked(c) /\ c \in CacheSet
      BY DEF CacheInv, SoundIn
    <3>2. \A x \in 1..Len(c.unused) : c.unused[x] \in Index
      BY <3>1, ElementOfSeq DEF CacheSet
    <3>3. {c.unused[i] : i \in 1..Len(c.unused)} = Index \ Used(c)
      BY <3>1, <3>2 DEF Stacked
    <3> QED BY <3>1, <3>3 DEF Stacked
  <2>3. LookupFindsStored
    <3> SUFFICES ASSUME "raced" \notin seen, NEW i \in Used(c)
                 PROVE /\ Find(c, c.items[i].key) = i
                       /\ c.items[i].prev # 0 => c.items[c.items[i].prev].next = i
                       /\ c.items[i].next # 0 => c.items[c.items[i].next].prev = i
      BY DEF LookupFindsStored
    <3>1. Keyed(c) /\ Chained(c) /\ c \in CacheSet
      BY DEF CacheInv, SoundIn
    <3> QED BY <3>1, FoundStored
  <2>4. LruListIsComplete
    <3>1. ASSUME uc.purge_lru, seen \cap {"raced", "restarted"} = {}
          PROVE Completes(LruWalk(c), c)
      <4>1. Listed(c) /\ c \in CacheSet
        BY <3>1 DEF CacheInv, SoundIn
      <4> QED BY <4>1, LruWalkCompletes
    <3> QED BY <3>1 DEF LruListIsComplete, Completes, LruWalk
  <2> QED BY <2>1, <2>2, <2>3, <2>4 DEF ItemsAreSound
<1> QED BY <1>1, CacheStaysSound, PTL

\* BlocksAreSound in every reachable state: items share no block, and the bitmap
\* marks exactly their blocks, until a restart or two readers that delete at
\* once; the scan for free blocks misses only runs that straddle the byte where
\* it began.
THEOREM BlocksStaySound == Spec => []BlocksAreSound
<1>1. CacheInv => BlocksAreSound
  <2> SUFFICES ASSUME CacheInv PROVE BlocksAreSound
    OBVIOUS
  <2>1. BlocksOverlapOnlyAfterRestart
    <3> SUFFICES ASSUME uc.bitmap, "restarted" \notin seen
                 PROVE /\ \A i, j \in Used(c) : i # j =>
                             Run(c.items[i].first, c.items[i].size)
                               \cap Run(c.items[j].first, c.items[j].size) = {}
                       /\ c.bitmap = {b \in Bits : b >= Blocks} \cup
                             UNION {Run(c.items[i].first, c.items[i].size) : i \in Used(c)}
      BY DEF BlocksOverlapOnlyAfterRestart
    <3>1. Exact(c)
      BY DEF CacheInv, SoundIn
    <3> QED BY <3>1 DEF Exact, RunOf, Padding
  <2>2. FullOnlyIfRunsStraddle
    <3> SUFFICES ASSUME NEW n \in Sizes, NEW b \in Bits, Free(c, b, n), FindFreeBlocks(c, n) = None
                 PROVE b < c.pos /\ b + n - 1 >= (c.pos \div ByteSize) * ByteSize
                                       + (IF c.pos % ByteSize > 0 THEN ByteSize ELSE 0)
      BY DEF FullOnlyIfRunsStraddle
    <3>1. c \in CacheSet
      BY DEF CacheInv, SoundIn
    <3>2. n \in Nat /\ n >= 1
      BY DEF Sizes
    <3> QED BY <3>1, <3>2, OnlyStraddling
  <2> QED BY <2>1, <2>2 DEF BlocksAreSound
<1> QED BY <1>1, CacheStaysSound, PTL

\* ExpiryIsRemembered in every reachable state: next_scan is not after the
\* expiry of any item that a set on this node let expire, or the scan of
\* cache_sweeper_free_items has yet to reach it, unless cache_full put it off.
THEOREM ExpiriesStayRemembered == Spec => []ExpiryIsRemembered
<1>1. CacheInv => ExpiryIsRemembered
  <2> SUFFICES ASSUME CacheInv, ~uc.purge_lru, ~uc.lazy_expire, "swept" \notin seen, NEW i \in Used(c)
               PROVE \/ c.items[i].expires = 0 \/ c.items[i].abs
                     \/ c.next_scan # 0 /\ c.next_scan =< c.items[i].expires
                     \/ sweep # 0 /\ sweep =< i
    BY DEF ExpiryIsRemembered
  <2>1. RemIn(uc, sweep, c)
    BY DEF CacheInv
  <2> QED BY <2>1 DEF RemIn
<1> QED BY <1>1, CacheStaysSound, PTL
==============================================================================
