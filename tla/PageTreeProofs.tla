-------------------------- MODULE PageTreeProofs --------------------------
(***************************************************************************)
(* What edits make of a page, for any page: a lemma for each operator of   *)
(* PageTree.                                                               *)
(*                                                                         *)
(* Pages are reasoned about as outlines, which forget the order of         *)
(* siblings: an edit on the page and the same edit on its outline agree,   *)
(* edits keep outlines sound, and the inverses a commit captured, run in   *)
(* its order, mend the outline whole.  From that: what commit, undo and    *)
(* redo make of the document and of its rings.                             *)
(***************************************************************************)
EXTENDS PageShape, SequenceTheorems, FiniteSetTheorems, WellFoundedInduction, TLAPS

\* A set of numbers that is not empty has a smallest member.
LEMMA SmallestOf ==
    ASSUME NEW T, T \subseteq Nat, T # {}
    PROVE  \E x \in T : \A y \in T : x <= y
<1> DEFINE R == OpToRel(<, Nat)
<1>1. IsWellFoundedOn(R, Nat)
  BY NatLessThanWellFounded
<1>2. \A x, y \in Nat : <<y, x>> \in R <=> y < x
  BY DEF OpToRel
<1> HIDE DEF R
<1>3. PICK x \in T : \A y \in T : ~ (<<y, x>> \in R)
  BY <1>1, WFMin
<1>4. \A y \in T : ~ (y < x)
  <2> TAKE y \in T
  <2>1. x \in Nat /\ y \in Nat
    OBVIOUS
  <2> QED
    BY <2>1, <1>2, <1>3
<1> QED
  BY <1>4

\* Induction over the numbers, stated of a set.
LEMMA InductionSet ==
    ASSUME NEW S, 0 \in S, \A n \in Nat : n \in S => n + 1 \in S
    PROVE  Nat \subseteq S
<1> SUFFICES ASSUME Nat \ S # {} PROVE FALSE
  OBVIOUS
<1>1. PICK x \in Nat \ S : \A y \in Nat \ S : x <= y
  <2> DEFINE T == Nat \ S
  <2>1. T \subseteq Nat /\ T # {}
    OBVIOUS
  <2> HIDE DEF T
  <2>2. \E x \in T : \A y \in T : x <= y
    BY <2>1, SmallestOf
  <2> QED
    BY <2>2 DEF T
<1>2. x # 0 /\ x - 1 \in Nat /\ x - 1 < x
  OBVIOUS
<1>3. x - 1 \in S
  BY <1>1, <1>2
<1>4. x - 1 + 1 \in S
  BY <1>2, <1>3
<1> QED
  BY <1>4

\* InsertAt makes room for one element at k (std::vector::insert).
LEMMA InsertAtIs ==
  ASSUME NEW S, NEW t \in Seq(S), NEW k \in 1..(Len(t) + 1), NEW x \in S
  PROVE  LET u == InsertAt(t, k, x)
         IN  /\ u \in Seq(S) /\ Len(u) = Len(t) + 1 /\ DOMAIN u = 1..(Len(t) + 1)
             /\ \A i \in 1..(Len(t) + 1) :
                   u[i] = IF i < k THEN t[i] ELSE IF i = k THEN x ELSE t[i - 1]
<1> DEFINE n == Len(t)
           p == SubSeq(t, 1, k - 1)
           q == SubSeq(t, k, n)
           u == InsertAt(t, k, x)
<1>1. n \in Nat /\ k \in Nat /\ k >= 1 /\ k <= n + 1 /\ DOMAIN t = 1..n
  OBVIOUS
<1>2. p \in Seq(S) /\ Len(p) = k - 1 /\ \A i \in 1..(k - 1) : p[i] = t[i]
  <2>1. \A i \in 1..(k - 1) : t[i] \in S
    BY <1>1
  <2>2. /\ p \in Seq(S) /\ Len(p) = IF 1 <= k - 1 THEN k - 1 - 1 + 1 ELSE 0
        /\ \A i \in 1..(k - 1 - 1 + 1) : p[i] = t[1 + i - 1]
    BY <1>1, <2>1, SubSeqProperties
  <2>3. k - 1 - 1 + 1 = k - 1 /\ (~(1 <= k - 1) => k - 1 = 0) /\ \A i \in 1..(k - 1) : 1 + i - 1 = i
    BY <1>1
  <2> HIDE DEF p
  <2> QED
    BY <2>2, <2>3
<1>3. q \in Seq(S) /\ Len(q) = n - k + 1 /\ \A i \in 1..(n - k + 1) : q[i] = t[k + i - 1]
  <2>1. \A i \in k..n : t[i] \in S
    BY <1>1
  <2>2. /\ q \in Seq(S) /\ Len(q) = IF k <= n THEN n - k + 1 ELSE 0
        /\ \A i \in 1..(n - k + 1) : q[i] = t[k + i - 1]
    BY <1>1, <2>1, SubSeqProperties
  <2>3. ~(k <= n) => n - k + 1 = 0
    BY <1>1
  <2> HIDE DEF q
  <2> QED
    BY <2>2, <2>3
<1> DEFINE m == p \o <<x>>
<1> HIDE DEF p, q
<1>4. /\ m \in Seq(S) /\ Len(m) = k
      /\ \A i \in 1..k : m[i] = IF i < k THEN p[i] ELSE x
  <2>1. <<x>> \in Seq(S) /\ Len(<<x>>) = 1 /\ <<x>>[1] = x
    OBVIOUS
  <2>2. /\ m \in Seq(S) /\ Len(m) = Len(p) + 1
        /\ \A i \in 1..(Len(p) + 1) : m[i] = IF i <= Len(p) THEN p[i] ELSE <<x>>[i - Len(p)]
    BY <1>2, <2>1, ConcatProperties
  <2>3. Len(p) + 1 = k /\ \A i \in 1..k : (i <= Len(p) <=> i < k) /\ (~(i < k) => i - Len(p) = 1)
    BY <1>1, <1>2
  <2> HIDE DEF m
  <2> QED
    BY <2>1, <2>2, <2>3
<1> HIDE DEF m
<1>5. u = m \o q
  BY DEF InsertAt, m, p, q
<1> HIDE DEF u
<1>6. /\ u \in Seq(S) /\ Len(u) = Len(m) + Len(q)
      /\ \A i \in 1..(Len(m) + Len(q)) : u[i] = IF i <= Len(m) THEN m[i] ELSE q[i - Len(m)]
  BY <1>3, <1>4, <1>5, ConcatProperties
<1>7. Len(m) + Len(q) = n + 1
  BY <1>1, <1>3, <1>4
<1>8. \A i \in 1..(n + 1) : u[i] = IF i < k THEN t[i] ELSE IF i = k THEN x ELSE t[i - 1]
  <2> TAKE i \in 1..(n + 1)
  <2>1. CASE i < k
    <3>1. i \in 1..k /\ i \in 1..(k - 1) /\ i <= Len(m)
      BY <1>1, <1>4, <2>1
    <3> QED
      BY <1>2, <1>4, <1>6, <1>7, <2>1, <3>1
  <2>2. CASE i = k
    <3>1. i \in 1..k /\ i <= Len(m) /\ ~(i < k)
      BY <1>1, <1>4, <2>2
    <3> QED
      BY <1>4, <1>6, <1>7, <2>2, <3>1
  <2>3. CASE i > k
    <3>1. i - k \in 1..(n - k + 1) /\ ~(i <= Len(m)) /\ i - Len(m) = i - k /\ k + (i - k) - 1 = i - 1
          /\ ~(i < k) /\ i # k
      BY <1>1, <1>4, <2>3
    <3> QED
      BY <1>3, <1>6, <1>7, <3>1
  <2> QED
    BY <1>1, <2>1, <2>2, <2>3
<1>9. Len(u) = n + 1 /\ DOMAIN u = 1..(n + 1)
  BY <1>6, <1>7
<1> HIDE DEF n
<1> QED
  BY <1>6, <1>8, <1>9 DEF u, n

KeepStep(r, x, S) == IF x \in S THEN Append(r, x) ELSE r

\* The sequences Kept goes through.
KeptRun(f, s, S) ==
    /\ f[0] = << >>
    /\ \A i \in 1..Len(s) : f[i] = KeepStep(f[i - 1], s[i], S)
    /\ Kept(s, S) = f[Len(s)]

\* The recursion of Kept, step by step.
LEMMA KeptUnfold ==
  ASSUME NEW s, NEW S, Len(s) \in Nat
  PROVE  \E f : KeptRun(f, s, S)
<1> DEFINE n == Len(s)
           Eq(f, m) == f = [i \in 0..m |-> IF i = 0 THEN << >> ELSE KeepStep(f[i - 1], s[i], S)]
           Reached == {m \in Nat : \E f : Eq(f, m)}
<1>1. 0 \in Reached
  <2>1. Eq([i \in 0..0 |-> << >>], 0)
    OBVIOUS
  <2> HIDE DEF Eq
  <2> QED
    BY <2>1
<1>2. ASSUME NEW m \in Nat, m \in Reached PROVE m + 1 \in Reached
  <2>1. PICK f : Eq(f, m)
    BY <1>2
  <2> DEFINE g == [i \in 0..(m + 1) |-> IF i = m + 1 THEN KeepStep(f[m], s[m + 1], S) ELSE f[i]]
             w == [i \in 0..(m + 1) |-> IF i = 0 THEN << >> ELSE KeepStep(g[i - 1], s[i], S)]
  <2>2. \A i \in 0..(m + 1) : g[i] = w[i]
    <3> TAKE i \in 0..(m + 1)
    <3>1. CASE i = 0
      BY <2>1, <3>1
    <3>2. CASE i = m + 1
      <4>1. g[i] = KeepStep(f[m], s[m + 1], S) /\ i - 1 = m /\ i # 0 /\ m \in 0..(m + 1) /\ m # m + 1
        BY <3>2
      <4>2. g[m] = f[m]
        BY <4>1
      <4> QED
        BY <3>2, <4>1, <4>2
    <3>3. CASE i \in 1..m
      <4>1. i \in 0..m /\ i # 0 /\ i # m + 1 /\ i - 1 \in 0..m /\ i - 1 # m + 1 /\ i - 1 \in 0..(m + 1)
        BY <3>3
      <4>2. g[i] = f[i] /\ g[i - 1] = f[i - 1]
        BY <4>1
      <4>3. f[i] = KeepStep(f[i - 1], s[i], S)
        BY <2>1, <4>1
      <4> QED
        BY <4>1, <4>2, <4>3
    <3> QED
      BY <3>1, <3>2, <3>3
  <2>3. g = w
    BY <2>2
  <2> HIDE DEF g
  <2>4. Eq(g, m + 1)
    BY <2>3
  <2> HIDE DEF Eq
  <2> QED
    BY <2>4
<1> HIDE DEF Reached
<1>3. n \in Reached
  BY <1>1, <1>2, InductionSet
<1>4. PICK f : Eq(f, n)
  BY <1>3 DEF Reached
<1> DEFINE a == CHOOSE h : Eq(h, n)
<1>5. Eq(a, n)
  <2> HIDE DEF Eq
  <2> QED
    BY <1>4
<1>6. Kept(s, S) = a[n]
  BY DEF Kept, KeepStep
<1> HIDE DEF a
<1>7. a[0] = << >> /\ \A i \in 1..n : a[i] = KeepStep(a[i - 1], s[i], S)
  BY <1>5
<1> QED
  BY <1>6, <1>7 DEF KeptRun

\* What Append does to length, places, range and distinctness.
LEMMA AppendIs ==
  ASSUME NEW T, NEW s \in Seq(T), NEW x \in T
  PROVE  LET t == Append(s, x)
         IN  /\ t \in Seq(T) /\ Len(t) = Len(s) + 1 /\ DOMAIN t = 1..(Len(s) + 1)
             /\ \A i \in 1..Len(s) : t[i] = s[i]
             /\ t[Len(s) + 1] = x
             /\ Range(t) = Range(s) \cup {x}
             /\ OneOnly(s) /\ x \notin Range(s) => OneOnly(t)
<1> DEFINE t == Append(s, x)
           n == Len(s)
<1>1. /\ t \in Seq(T) /\ Len(t) = n + 1
      /\ \A i \in 1..n : t[i] = s[i]
      /\ t[n + 1] = x /\ n \in Nat /\ DOMAIN s = 1..n
  BY AppendProperties
<1>2. DOMAIN t = 1..(n + 1)
  BY <1>1
<1> HIDE DEF t, n
<1>3. \A i \in 1..(n + 1) : i \in 1..n \/ i = n + 1
  BY <1>1
<1>4. Range(t) = Range(s) \cup {x}
  BY <1>1, <1>2, <1>3 DEF Range
<1>5. OneOnly(s) /\ x \notin Range(s) => OneOnly(t)
  BY <1>1, <1>2, <1>3 DEF OneOnly, Range
<1> QED
  BY <1>1, <1>2, <1>4, <1>5 DEF t, n

\* What Kept keeps.
LEMMA KeptIs ==
  ASSUME NEW T, NEW s \in Seq(T), NEW S
  PROVE  /\ Kept(s, S) \in Seq(T)
         /\ Range(Kept(s, S)) = Range(s) \cap S
         /\ OneOnly(s) => OneOnly(Kept(s, S))
         /\ Range(s) \subseteq S => Kept(s, S) = s
<1> DEFINE n == Len(s)
<1>1. n \in Nat /\ DOMAIN s = 1..n /\ \A i \in 1..n : s[i] \in T
  OBVIOUS
<1>2. PICK f : KeptRun(f, s, S)
  BY <1>1, KeptUnfold
<1> DEFINE Upto(i) == {s[k] : k \in 1..i}
           Good(i) == /\ f[i] \in Seq(T)
                      /\ Range(f[i]) = Upto(i) \cap S
                      /\ OneOnly(s) => OneOnly(f[i])
                      /\ Range(s) \subseteq S => Len(f[i]) = i /\ \A k \in 1..i : f[i][k] = s[k]
           Q == {i \in Nat : i <= n => Good(i)}
<1>3. 0 \in Q
  <2>1. f[0] = << >> /\ << >> \in Seq(T) /\ Range(<< >>) = {} /\ OneOnly(<< >>) /\ Len(<< >>) = 0
    BY <1>2 DEF KeptRun, Range, OneOnly
  <2>2. Upto(0) = {} /\ 1..0 = {}
    OBVIOUS
  <2> QED
    BY <2>1, <2>2
<1>4. ASSUME NEW i \in Nat, i \in Q PROVE i + 1 \in Q
  <2> SUFFICES ASSUME i + 1 <= n PROVE Good(i + 1)
    OBVIOUS
  <2>1. Good(i) /\ i + 1 \in 1..n /\ s[i + 1] \in T /\ i + 1 - 1 = i
    BY <1>1, <1>4
  <2>2. f[i + 1] = KeepStep(f[i], s[i + 1], S)
    BY <1>2, <2>1 DEF KeptRun
  <2>3. Upto(i + 1) = Upto(i) \cup {s[i + 1]}
    <3>1. \A k \in 1..(i + 1) : k \in 1..i \/ k = i + 1
      OBVIOUS
    <3>2. \A k \in 1..i : k \in 1..(i + 1)
      OBVIOUS
    <3> QED
      BY <3>1, <3>2
  <2>4. OneOnly(s) => s[i + 1] \notin Upto(i)
    BY <1>1, <2>1 DEF OneOnly
  <2>5. CASE s[i + 1] \in S
    <3>1. f[i + 1] = Append(f[i], s[i + 1])
      BY <2>2, <2>5 DEF KeepStep
    <3>2. /\ f[i + 1] \in Seq(T) /\ Len(f[i + 1]) = Len(f[i]) + 1
          /\ \A k \in 1..Len(f[i]) : f[i + 1][k] = f[i][k]
          /\ f[i + 1][Len(f[i]) + 1] = s[i + 1]
          /\ Range(f[i + 1]) = Range(f[i]) \cup {s[i + 1]}
          /\ OneOnly(f[i]) /\ s[i + 1] \notin Range(f[i]) => OneOnly(f[i + 1])
      BY <2>1, <3>1, AppendIs
    <3>3. Range(f[i + 1]) = Upto(i + 1) \cap S
      <4> HIDE DEF Upto
      <4> QED
        BY <2>1, <2>3, <2>5, <3>2
    <3>4. OneOnly(s) => OneOnly(f[i + 1])
      <4> HIDE DEF Upto
      <4> QED
        BY <2>1, <2>4, <3>2
    <3>5. Range(s) \subseteq S => Len(f[i + 1]) = i + 1 /\ \A k \in 1..(i + 1) : f[i + 1][k] = s[k]
      <4> SUFFICES ASSUME Range(s) \subseteq S PROVE Len(f[i + 1]) = i + 1
                              /\ \A k \in 1..(i + 1) : f[i + 1][k] = s[k]
        OBVIOUS
      <4>1. Len(f[i]) = i /\ \A k \in 1..i : f[i][k] = s[k]
        BY <2>1
      <4>2. \A k \in 1..(i + 1) : k \in 1..i \/ k = i + 1
        OBVIOUS
      <4> QED
        BY <3>2, <4>1, <4>2
    <3> QED
      BY <3>2, <3>3, <3>4, <3>5
  <2>6. CASE s[i + 1] \notin S
    <3>1. f[i + 1] = f[i]
      BY <2>2, <2>6 DEF KeepStep
    <3>2. ~(Range(s) \subseteq S)
      BY <1>1, <2>1, <2>6 DEF Range
    <3>3. Upto(i + 1) \cap S = Upto(i) \cap S
      <4> HIDE DEF Upto
      <4> QED
        BY <2>3, <2>6
    <3> QED
      BY <2>1, <3>1, <3>2, <3>3
  <2> QED
    BY <2>5, <2>6
<1> HIDE DEF Q
<1>5. Nat \subseteq Q
  BY <1>3, <1>4, InductionSet
<1>6. Good(n)
  <2>1. n \in Q
    BY <1>1, <1>5
  <2> HIDE DEF Good
  <2> QED
    BY <1>1, <2>1 DEF Q
<1>7. Upto(n) = Range(s) /\ Kept(s, S) = f[n]
  BY <1>1, <1>2 DEF Range, KeptRun
<1>8. Range(s) \subseteq S => f[n] = s
  <2> SUFFICES ASSUME Range(s) \subseteq S PROVE f[n] = s
    OBVIOUS
  <2>1. f[n] \in Seq(T) /\ Len(f[n]) = Len(s) /\ \A k \in 1..Len(f[n]) : f[n][k] = s[k]
    BY <1>6
  <2> QED
    BY <2>1, SeqEqual
<1> HIDE DEF Upto
<1> QED
  BY <1>6, <1>7, <1>8

\* What an insertion adds to a sequence.
LEMMA InsertAtRange ==
  ASSUME NEW S, NEW t \in Seq(S), NEW k \in 1..(Len(t) + 1), NEW x \in S
  PROVE  LET u == InsertAt(t, k, x)
         IN  /\ u \in Seq(S)
             /\ Range(u) = Range(t) \cup {x}
             /\ OneOnly(t) /\ x \notin Range(t) => OneOnly(u)
<1> DEFINE u == InsertAt(t, k, x)
           n == Len(t)
<1> HIDE DEF n
<1>1. /\ u \in Seq(S) /\ Len(u) = n + 1 /\ DOMAIN u = 1..(n + 1)
      /\ \A i \in 1..(n + 1) :
            u[i] = IF i < k THEN t[i] ELSE IF i = k THEN x ELSE t[i - 1]
  <2>1. LET u0 == InsertAt(t, k, x)
        IN  /\ u0 \in Seq(S) /\ Len(u0) = Len(t) + 1 /\ DOMAIN u0 = 1..(Len(t) + 1)
            /\ \A i \in 1..(Len(t) + 1) :
                  u0[i] = IF i < k THEN t[i] ELSE IF i = k THEN x ELSE t[i - 1]
    BY InsertAtIs
  <2> QED
    BY <2>1 DEF n
<1>2. n \in Nat /\ DOMAIN t = 1..n /\ k \in 1..(n + 1) /\ k \in Nat
  BY DEF n
<1> HIDE DEF u
<1>3. \A i \in 1..(n + 1) : \/ i < k /\ i \in 1..n /\ u[i] = t[i]
                            \/ i = k /\ u[i] = x
                            \/ i > k /\ i - 1 \in 1..n /\ u[i] = t[i - 1]
  BY <1>1, <1>2
<1>4. \A i \in 1..n : \/ i < k /\ i \in 1..(n + 1) /\ u[i] = t[i]
                      \/ i >= k /\ i + 1 \in 1..(n + 1) /\ u[i + 1] = t[i]
  <2> TAKE i \in 1..n
  <2>1. CASE i < k
    BY <1>1, <1>2, <2>1
  <2>2. CASE i >= k
    <3>1. i + 1 \in 1..(n + 1) /\ ~(i + 1 < k) /\ i + 1 # k /\ i + 1 - 1 = i
      BY <1>2, <2>2
    <3> QED
      BY <1>1, <2>2, <3>1
  <2> QED
    BY <1>2, <2>1, <2>2
<1>5. Range(u) = Range(t) \cup {x}
  <2>1. ASSUME NEW y \in Range(u) PROVE y \in Range(t) \cup {x}
    <3>1. PICK i \in 1..(n + 1) : y = u[i]
      BY <1>1, <2>1 DEF Range
    <3> QED
      BY <1>2, <1>3, <3>1 DEF Range
  <2>2. ASSUME NEW y \in Range(t) PROVE y \in Range(u)
    <3>1. PICK i \in 1..n : y = t[i]
      BY <1>2, <2>2 DEF Range
    <3> QED
      BY <1>1, <1>4, <3>1 DEF Range
  <2>3. x \in Range(u)
    BY <1>1, <1>2, <1>3 DEF Range
  <2> QED
    BY <2>1, <2>2, <2>3
<1>6. ASSUME OneOnly(t), x \notin Range(t) PROVE OneOnly(u)
  <2> SUFFICES ASSUME NEW i \in 1..(n + 1), NEW j \in 1..(n + 1), u[i] = u[j] PROVE i = j
    BY <1>1 DEF OneOnly
  <2>1. \A m \in 1..n : t[m] # x
    BY <1>2, <1>6 DEF Range
  <2>2. \A a, b \in 1..n : t[a] = t[b] => a = b
    BY <1>2, <1>6 DEF OneOnly
  <2>3. \/ i < k /\ i \in 1..n /\ u[i] = t[i]
        \/ i = k /\ u[i] = x
        \/ i > k /\ i - 1 \in 1..n /\ u[i] = t[i - 1]
    BY <1>3
  <2>4. \/ j < k /\ j \in 1..n /\ u[j] = t[j]
        \/ j = k /\ u[j] = x
        \/ j > k /\ j - 1 \in 1..n /\ u[j] = t[j - 1]
    BY <1>3
  <2> QED
    BY <1>2, <2>1, <2>2, <2>3, <2>4
<1> QED
  BY <1>1, <1>5, <1>6 DEF u

\* A list made from another, of the same length.
LEMMA ListIs ==
  ASSUME NEW n \in Nat, NEW s, DOMAIN s = 1..n, s = [i \in 1..n |-> s[i]]
  PROVE  /\ Len(s) = n /\ s \in Seq(Range(s)) /\ (n = 0 => s = << >>)
         /\ \A T : (\A i \in 1..n : s[i] \in T) => s \in Seq(T)
<1>1. ASSUME NEW T, \A i \in 1..n : s[i] \in T PROVE s \in Seq(T) /\ Len(s) = n
  BY <1>1
<1>2. \A i \in 1..n : s[i] \in Range(s)
  BY DEF Range
<1>3. s \in Seq(Range(s)) /\ Len(s) = n
  BY <1>1, <1>2
<1>4. n = 0 => s = << >>
  BY <1>3
<1> QED
  BY <1>1, <1>3, <1>4

-----------------------------------------------------------------------------
(***************************************************************************)
(* A page as a tree.  Placed says where the ids stand: every id in one     *)
(* place.  An outline is a page without the order of siblings: the nodes,  *)
(* and for every id its parent; Sound says what an outline of a page is.   *)
(***************************************************************************)
\* The least set with S that has the children of its members.
Below(up, S) ==
    {y \in DOMAIN up : \A T \in SUBSET DOMAIN up :
        S \cap DOMAIN up \subseteq T /\ (\A z \in DOMAIN up : up[z] \in T => z \in T) => y \in T}

\* Below is closed downwards, and what is in it hangs under S.
LEMMA BelowIs ==
  ASSUME NEW up, NEW S
  PROVE  /\ Below(up, S) \subseteq DOMAIN up
         /\ S \cap DOMAIN up \subseteq Below(up, S)
         /\ \A z \in DOMAIN up : up[z] \in Below(up, S) => z \in Below(up, S)
         /\ \A y \in Below(up, S) : y \notin S => up[y] \in Below(up, S)
<1> DEFINE D == DOMAIN up
           B == Below(up, S)
<1> HIDE DEF D
<1>1. B \subseteq D /\ S \cap D \subseteq B
  BY DEF Below, D
<1>2. ASSUME NEW T \in SUBSET D, S \cap D \subseteq T, \A z \in D : up[z] \in T => z \in T
      PROVE  B \subseteq T
  BY <1>2 DEF Below, D
<1>3. ASSUME NEW z \in D, up[z] \in B PROVE z \in B
  <2> SUFFICES ASSUME NEW T \in SUBSET D, S \cap D \subseteq T,
                      \A w \in D : up[w] \in T => w \in T
               PROVE  z \in T
    BY <1>3 DEF Below, D
  <2>1. up[z] \in T
    BY <1>2, <1>3
  <2> QED
    BY <1>3, <2>1
<1>4. ASSUME NEW y \in B, y \notin S, up[y] \notin B PROVE FALSE
  <2> DEFINE T == B \ {y}
  <2>1. T \in SUBSET D /\ S \cap D \subseteq T
    BY <1>1, <1>4
  <2>2. ASSUME NEW z \in D, up[z] \in T PROVE z \in T
    <3>1. z \in B
      BY <1>3, <2>2
    <3>2. z # y
      BY <1>4, <2>2
    <3> QED
      BY <3>1, <3>2
  <2>3. B \subseteq T
    BY <1>2, <2>1, <2>2
  <2> QED
    BY <1>4, <2>3
<1> QED
  BY <1>1, <1>3, <1>4 DEF D

\* It is the least such set.
LEMMA BelowLeast ==
  ASSUME NEW up, NEW S, NEW T, S \cap DOMAIN up \subseteq T,
         \A z \in DOMAIN up : up[z] \in T => z \in T
  PROVE  Below(up, S) \subseteq T
<1> DEFINE U == T \cap DOMAIN up
<1>1. U \in SUBSET DOMAIN up /\ S \cap DOMAIN up \subseteq U
  OBVIOUS
<1>2. \A z \in DOMAIN up : up[z] \in U => z \in U
  OBVIOUS
<1> HIDE DEF U
<1>3. Below(up, S) \subseteq U
  BY <1>1, <1>2 DEF Below
<1> QED
  BY <1>3 DEF U

\* The place of an id, from the parent's side.
LEMMA PlaceOf ==
  ASSUME NEW page, Placed(page), NEW x \in Ids(page)
  PROVE  /\ ParentOf(page, x) \in Ids(page) \cup {Root}
         /\ x \in Range(page.kids[ParentOf(page, x)])
         /\ \A q \in Ids(page) \cup {Root} : x \in Range(page.kids[q]) => q = ParentOf(page, x)
         /\ Up(page)[x] = ParentOf(page, x)
<1>1. PICK q \in DOMAIN page.kids : x \in Range(page.kids[q])
  BY DEF Placed
<1>2. ParentOf(page, x) \in DOMAIN page.kids /\ x \in Range(page.kids[ParentOf(page, x)])
  BY <1>1 DEF ParentOf
<1>3. \A r \in DOMAIN page.kids : x \in Range(page.kids[r]) => r = ParentOf(page, x)
  BY <1>2 DEF Placed
<1> QED
  BY <1>2, <1>3 DEF Placed, Up

\* A page is placed as soon as some function says where each id is.
LEMMA PlacedBy ==
  ASSUME NEW page, NEW up,
         page = [node |-> page.node, kids |-> page.kids],
         DOMAIN page.kids = Ids(page) \cup {Root},
         \A q \in Ids(page) \cup {Root} : page.kids[q] \in Seq(Ids(page)) /\ OneOnly(page.kids[q]),
         up \in [Ids(page) -> Ids(page) \cup {Root}],
         \A q \in Ids(page) \cup {Root}, x \in Ids(page) : x \in Range(page.kids[q]) <=> up[x] = q
  PROVE  Placed(page) /\ Up(page) = up
<1>1. \A q \in Ids(page) \cup {Root} : Range(page.kids[q]) \subseteq Ids(page)
  BY RangeOfSeq
<1>2. \A x \in Ids(page) : up[x] \in Ids(page) \cup {Root} /\ x \in Range(page.kids[up[x]])
  OBVIOUS
<1>3. Placed(page)
  <2>1. \A x \in Ids(page) : \E q \in DOMAIN page.kids : x \in Range(page.kids[q])
    BY <1>2
  <2>2. ASSUME NEW q \in DOMAIN page.kids, NEW r \in DOMAIN page.kids,
               NEW x, x \in Range(page.kids[q]), x \in Range(page.kids[r])
        PROVE  q = r
    <3>1. q \in Ids(page) \cup {Root} /\ r \in Ids(page) \cup {Root} /\ x \in Ids(page)
      BY <1>1, <2>2
    <3>2. up[x] = q /\ up[x] = r
      BY <2>2, <3>1
    <3> QED
      BY <3>2
  <2>3. \A q, r \in DOMAIN page.kids :
           Range(page.kids[q]) \cap Range(page.kids[r]) # {} => q = r
    BY <2>2
  <2> QED
    BY <2>1, <2>3 DEF Placed
<1>4. \A x \in Ids(page) : ParentOf(page, x) = up[x]
  BY <1>2, <1>3, PlaceOf
<1>5. Up(page) = up
  BY <1>4 DEF Up
<1> QED
  BY <1>3, <1>5

-----------------------------------------------------------------------------
\* More places than values: a value comes twice.
LEMMA Pigeons ==
  ASSUME NEW n \in Nat, NEW D, IsFiniteSet(D), Cardinality(D) < n, NEW g \in [1..n -> D]
  PROVE  \E i, j \in 1..n : i < j /\ g[i] = g[j]
<1>1. IsFiniteSet(1..n) /\ Cardinality(1..n) = n
  <2>1. n \in Int /\ 1 \in Int
    OBVIOUS
  <2>2. IsFiniteSet(1..n) /\ Cardinality(1..n) = IF 1 > n THEN 0 ELSE n - 1 + 1
    BY <2>1, FS_Interval, Zenon
  <2> QED
    BY <2>2
<1>2. Cardinality(D) < Cardinality(1..n)
  BY <1>1
<1>3. \E x, y \in 1..n : x # y /\ g[x] = g[y]
  BY <1>1, <1>2, FS_PigeonHole
<1>4. PICK x, y \in 1..n : x # y /\ g[x] = g[y]
  BY <1>3
<1>5. x < y \/ y < x
  BY <1>4
<1> QED
  BY <1>4, <1>5

ChainStep(up, page) == IF Last(up) = Root THEN up ELSE Append(up, ParentOf(page, Last(up)))

\* The paths Chain goes through.
ChainRun(f, page, x) ==
    /\ f[0] = <<x>>
    /\ \A i \in 1..Cardinality(Ids(page)) : f[i] = ChainStep(f[i - 1], page)
    /\ Chain(page, x) = f[Cardinality(Ids(page))]

\* The recursion of Chain, step by step.
LEMMA ChainUnfold ==
  ASSUME NEW page, NEW x, Cardinality(Ids(page)) \in Nat
  PROVE  \E f : ChainRun(f, page, x)
<1> DEFINE n == Cardinality(Ids(page))
           Eq(f, m) == f = [i \in 0..m |-> IF i = 0 THEN <<x>> ELSE ChainStep(f[i - 1], page)]
           Reached == {m \in Nat : \E f : Eq(f, m)}
<1>1. 0 \in Reached
  <2>1. Eq([i \in 0..0 |-> <<x>>], 0)
    OBVIOUS
  <2> HIDE DEF Eq
  <2> QED
    BY <2>1
<1>2. ASSUME NEW m \in Nat, m \in Reached PROVE m + 1 \in Reached
  <2>1. PICK f : Eq(f, m)
    BY <1>2
  <2> DEFINE g == [i \in 0..(m + 1) |-> IF i = m + 1 THEN ChainStep(f[m], page) ELSE f[i]]
             w == [i \in 0..(m + 1) |-> IF i = 0 THEN <<x>> ELSE ChainStep(g[i - 1], page)]
  <2>2. \A i \in 0..(m + 1) : g[i] = w[i]
    <3> TAKE i \in 0..(m + 1)
    <3>1. CASE i = 0
      BY <2>1, <3>1
    <3>2. CASE i = m + 1
      <4>1. g[i] = ChainStep(f[m], page) /\ i - 1 = m /\ i # 0 /\ m \in 0..(m + 1) /\ m # m + 1
        BY <3>2
      <4>2. g[m] = f[m]
        BY <4>1
      <4> QED
        BY <3>2, <4>1, <4>2
    <3>3. CASE i \in 1..m
      <4>1. i \in 0..m /\ i # 0 /\ i # m + 1 /\ i - 1 \in 0..m /\ i - 1 # m + 1 /\ i - 1 \in 0..(m + 1)
        BY <3>3
      <4>2. g[i] = f[i] /\ g[i - 1] = f[i - 1]
        BY <4>1
      <4>3. f[i] = ChainStep(f[i - 1], page)
        BY <2>1, <4>1
      <4> QED
        BY <4>1, <4>2, <4>3
    <3> QED
      BY <3>1, <3>2, <3>3
  <2>3. g = w
    BY <2>2
  <2> HIDE DEF g
  <2>4. Eq(g, m + 1)
    BY <2>3
  <2> HIDE DEF Eq
  <2> QED
    BY <2>4
<1> HIDE DEF Reached
<1>3. n \in Reached
  BY <1>1, <1>2, InductionSet
<1>4. PICK f : Eq(f, n)
  BY <1>3 DEF Reached
<1> DEFINE a == CHOOSE h : Eq(h, n)
<1>5. Eq(a, n)
  <2> HIDE DEF Eq
  <2> QED
    BY <1>4
<1>6. Chain(page, x) = a[n]
  BY DEF Chain, ChainStep
<1> HIDE DEF a
<1>7. a[0] = <<x>> /\ \A i \in 1..n : a[i] = ChainStep(a[i - 1], page)
  BY <1>5
<1> QED
  BY <1>6, <1>7 DEF ChainRun

\* What the way up from an id is.
WayUp(c, page, x) ==
    /\ c \in Seq(Ids(page) \cup {Root}) /\ Len(c) > 1
    /\ c[1] = x /\ c[Len(c)] = Root
    /\ \A k \in 1..(Len(c) - 1) : c[k] \in Ids(page) /\ c[k + 1] = Up(page)[c[k]]

\* The chain of a node leads from it, parent by parent, to the root:
\* with as many steps as there are ids a cycle would repeat one.
LEMMA ChainIs ==
  ASSUME NEW page, Tree(page), NEW x \in Ids(page)
  PROVE  WayUp(Chain(page, x), page, x)
<1> DEFINE D == Ids(page)
           N == Cardinality(D)
           T == D \cup {Root}
<1>1. N \in Nat /\ IsFiniteSet(D) /\ Root \notin D /\ \A y \in D : ParentOf(page, y) = Up(page)[y]
          /\ ParentOf(page, y) \in T
  <2>1. IsFiniteSet(D) /\ D \subseteq Nat \ {Root}
    BY DEF Tree, Sound, Outline, Ids
  <2>2. N \in Nat
    BY <2>1, FS_CardinalityType
  <2> QED
    BY <2>1, <2>2, PlaceOf DEF Tree
<1>2. PICK f : ChainRun(f, page, x)
  BY <1>1, ChainUnfold
<1> DEFINE Way(c) == /\ c \in Seq(T) /\ Len(c) >= 1 /\ c[1] = x
                     /\ \A k \in 1..(Len(c) - 1) : c[k] \in D /\ c[k + 1] = Up(page)[c[k]]
           Good(i) == Way(f[i]) /\ (Last(f[i]) = Root \/ Len(f[i]) = i + 1)
           Q == {i \in Nat : i <= N => Good(i)}
<1>3. 0 \in Q
  <2>1. f[0] = <<x>> /\ x \in T
    BY <1>2 DEF ChainRun
  <2>2. <<x>> \in Seq(T) /\ Len(<<x>>) = 1 /\ <<x>>[1] = x /\ 1..(1 - 1) = {}
    BY <2>1
  <2> DEFINE c == <<x>>
  <2> HIDE DEF c
  <2>3. Way(c) /\ Len(c) = 0 + 1
    BY <2>2 DEF c
  <2>4. Good(0)
    <3> HIDE DEF Way
    <3> QED
      BY <2>1, <2>3 DEF c
  <2> HIDE DEF Good
  <2> QED
    BY <2>4
<1>4. ASSUME NEW i \in Nat, i \in Q PROVE i + 1 \in Q
  <2> SUFFICES ASSUME i + 1 <= N PROVE Good(i + 1)
    <3>1. i + 1 \in Nat
      OBVIOUS
    <3> HIDE DEF Good
    <3> QED
      BY <3>1
  <2>1. Good(i) /\ i + 1 \in 1..N /\ i + 1 - 1 = i
    BY <1>1, <1>4
  <2> DEFINE c == f[i]
             n == Len(c)
  <2>2. f[i + 1] = ChainStep(c, page)
    BY <1>2, <2>1 DEF ChainRun
  <2>3. n \in Nat /\ n >= 1 /\ c \in Seq(T) /\ Last(c) = c[n] /\ c[n] \in T
    BY <2>1 DEF Last
  <2>4. CASE Last(c) = Root
    BY <2>1, <2>2, <2>4 DEF ChainStep
  <2>5. CASE Last(c) # Root
    <3>1. c[n] \in D /\ ParentOf(page, c[n]) \in T /\ ParentOf(page, c[n]) = Up(page)[c[n]]
      BY <1>1, <2>3, <2>5
    <3>2. f[i + 1] = Append(c, ParentOf(page, c[n]))
      BY <2>2, <2>3, <2>5 DEF ChainStep
    <3> DEFINE d == f[i + 1]
    <3>3. /\ d \in Seq(T) /\ Len(d) = n + 1 /\ d[n + 1] = Up(page)[c[n]]
          /\ \A k \in 1..n : d[k] = c[k]
      BY <2>3, <3>1, <3>2, AppendProperties
    <3>4. Len(c) = i + 1
      BY <2>1, <2>5
    <3>5. \A k \in 1..(n + 1 - 1) : d[k] \in D /\ d[k + 1] = Up(page)[d[k]]
      <4> TAKE k \in 1..(n + 1 - 1)
      <4>1. k \in 1..n /\ ((k \in 1..(n - 1) /\ k + 1 \in 1..n) \/ k = n)
        BY <2>3
      <4>2. CASE k = n
        BY <3>1, <3>3, <4>1, <4>2
      <4>3. CASE k \in 1..(n - 1) /\ k + 1 \in 1..n
        BY <2>1, <3>3, <4>1, <4>3
      <4> QED
        BY <4>1, <4>2, <4>3
    <3>6. d[1] = x
      BY <2>1, <2>3, <3>3
    <3> HIDE DEF d
    <3> QED
      BY <2>3, <3>3, <3>4, <3>5, <3>6 DEF d
  <2> QED
    BY <2>4, <2>5
<1> HIDE DEF Q
<1>5. N \in Q
  BY <1>1, <1>3, <1>4, InductionSet
<1>6. PICK c, n : c = f[N] /\ n = Len(c) /\ Way(c) /\ (Last(c) = Root \/ n = N + 1)
  <2> HIDE DEF Way
  <2> QED
    BY <1>1, <1>5 DEF Q
<1>7. n \in Nat /\ n >= 1 /\ Last(c) = c[n] /\ c[n] \in T /\ \A k \in 1..n : c[k] \in T
  BY <1>6 DEF Last
<1>8. ASSUME c[n] # Root PROVE FALSE
  <2>0. n = N + 1
    BY <1>6, <1>7, <1>8
  <2>1. n = N + 1 /\ \A k \in 1..n : c[k] \in D
    <3> SUFFICES ASSUME NEW k \in 1..n PROVE c[k] \in D
      BY <2>0
    <3>1. k \in 1..(n - 1) \/ k = n
      BY <1>7
    <3> QED
      BY <1>6, <1>7, <1>8, <3>1
  <2>4. PICK i, j \in 1..n : i < j /\ c[i] = c[j]
    <3> DEFINE g == [k \in 1..n |-> c[k]]
    <3>1. g \in [1..n -> D] /\ N < n
      BY <1>1, <2>1
    <3> HIDE DEF g
    <3>2. \E i, j \in 1..n : i < j /\ g[i] = g[j]
      BY <1>1, <1>7, <3>1, Pigeons
    <3> QED
      BY <3>2 DEF g
  <2> DEFINE S == {c[k] : k \in i..(j - 1)}
  <2>5. S \subseteq D /\ c[i] \in S
    <3>1. i \in i..(j - 1) /\ \A k \in i..(j - 1) : k \in 1..n
      BY <1>7, <2>4
    <3> QED
      BY <2>1, <3>1
  <2>6. \A y \in S : Up(page)[y] \in S
    <3> TAKE y \in S
    <3>1. PICK k \in i..(j - 1) : y = c[k]
      OBVIOUS
    <3>2. k \in 1..(n - 1) /\ (k + 1 \in i..(j - 1) \/ k + 1 = j)
      BY <1>7, <2>4
    <3>3. Up(page)[y] = c[k + 1]
      BY <1>6, <3>1, <3>2
    <3> QED
      BY <2>4, <2>5, <3>2, <3>3
  <2>7. DOMAIN Up(page) = D /\ Founded(Up(page))
    BY DEF Up, Tree, Sound, Outline, D
  <2> HIDE DEF S
  <2> QED
    BY <2>5, <2>6, <2>7 DEF Founded
<1>9. n # 1
  BY <1>1, <1>6, <1>8
<1>10. Chain(page, x) = c
  BY <1>2, <1>6 DEF ChainRun
<1>11. n > 1 /\ c[n] = Root
  BY <1>7, <1>8, <1>9
<1> QED
  BY <1>6, <1>10, <1>11 DEF WayUp

\* The way up leads nowhere else.
LEMMA ChainWithin ==
  ASSUME NEW page, Tree(page), NEW x \in Ids(page), NEW W, x \in W,
         \A y \in W \cap Ids(page) : Up(page)[y] \in W
  PROVE  Range(Chain(page, x)) \subseteq W
<1>0. PICK c, n : c = Chain(page, x) /\ n = Len(c)
  OBVIOUS
<1> DEFINE Out == {k \in 1..n : c[k] \notin W}
<1>1. /\ c \in Seq(Ids(page) \cup {Root}) /\ n > 1 /\ c[1] = x
      /\ \A k \in 1..(n - 1) : c[k] \in Ids(page) /\ c[k + 1] = Up(page)[c[k]]
  <2>1. WayUp(c, page, x)
    BY <1>0, ChainIs
  <2> QED
    BY <1>0, <2>1 DEF WayUp
<1>2. n \in Nat /\ DOMAIN c = 1..n
  BY <1>0, <1>1
<1>3. ASSUME Out # {} PROVE FALSE
  <2>1. Out \subseteq Nat
    OBVIOUS
  <2> HIDE DEF Out
  <2>2. PICK k \in Out : \A m \in Out : k <= m
    BY <1>3, <2>1, SmallestOf
  <2> USE DEF Out
  <2>3. k # 1 /\ k \in 1..n
    BY <1>1
  <2>4. k - 1 \in 1..(n - 1) /\ k - 1 \in 1..n /\ k - 1 + 1 = k /\ ~(k <= k - 1)
    BY <1>2, <2>3
  <2>5. c[k - 1] \in W
    BY <2>2, <2>4
  <2> QED
    BY <1>1, <2>3, <2>4, <2>5
<1> QED
  BY <1>0, <1>2, <1>3 DEF Range

\* Under, found by walking up from every id, is what hangs below the id.
LEMMA UnderIsBelow ==
  ASSUME NEW page, Tree(page), NEW x \in Ids(page)
  PROVE  Under(page, x) = Below(Up(page), {x})
<1> DEFINE D == Ids(page)
           up == Up(page)
           U == Under(page, x)
<1>1. DOMAIN up = D /\ U = {y \in D : x \in Range(Chain(page, y))}
  BY DEF Up, Under
<1> HIDE DEF up, U
<1>2. ASSUME NEW y \in U PROVE y \in Below(up, {x})
  <2> SUFFICES ASSUME NEW T \in SUBSET D, x \in T, \A z \in D : up[z] \in T => z \in T, y \notin T
               PROVE  FALSE
    BY <1>1, <1>2 DEF Below
  <2> DEFINE W == (D \cup {Root}) \ T
  <2>1. y \in D /\ x \in Range(Chain(page, y)) /\ y \in W
    BY <1>1, <1>2
  <2>2. \A z \in W \cap D : up[z] \in W
    <3> TAKE z \in W \cap D
    <3>1. up[z] \in D \cup {Root}
      BY PlaceOf DEF up, Tree
    <3> QED
      BY <3>1
  <2> HIDE DEF W
  <2>3. Range(Chain(page, y)) \subseteq W
    BY <2>1, <2>2, ChainWithin DEF up
  <2> QED
    BY <2>1, <2>3 DEF W
<1>3. {x} \cap D \subseteq U
  <2>0. PICK c : c = Chain(page, x)
    OBVIOUS
  <2>1. c \in Seq(D \cup {Root}) /\ Len(c) > 1 /\ c[1] = x
    BY <2>0, ChainIs DEF WayUp
  <2>2. x \in Range(Chain(page, x))
    BY <2>0, <2>1 DEF Range
  <2> QED
    BY <1>1, <2>2
<1>4. ASSUME NEW z \in D, up[z] \in U PROVE z \in U
  <2>0. PICK c, n : c = Chain(page, z) /\ n = Len(c)
    OBVIOUS
  <2> DEFINE W == Range(c)
  <2>1. /\ c \in Seq(D \cup {Root}) /\ n > 1 /\ c[1] = z /\ c[n] = Root
        /\ \A k \in 1..(n - 1) : c[k] \in D /\ c[k + 1] = up[c[k]]
    <3>1. WayUp(c, page, z)
      BY <2>0, ChainIs
    <3> QED
      BY <2>0, <3>1 DEF up, WayUp
  <2>2. n \in Nat /\ DOMAIN c = 1..n
    BY <2>0, <2>1
  <2>3. Root \notin D
    BY DEF Tree, Sound, Outline, Ids
  <2>4. \A y \in W \cap D : up[y] \in W
    <3> TAKE y \in W \cap D
    <3>1. PICK k \in 1..n : y = c[k]
      BY <2>2 DEF Range
    <3>2. k \in 1..(n - 1) /\ k + 1 \in 1..n
      BY <2>1, <2>2, <2>3, <3>1
    <3> QED
      BY <2>1, <2>2, <3>1, <3>2 DEF Range
  <2>5. up[z] \in W
    <3>1. 1 \in 1..(n - 1) /\ 1 + 1 \in 1..n
      BY <2>1, <2>2
    <3> QED
      BY <2>1, <2>2, <3>1 DEF Range
  <2> HIDE DEF W
  <2>6. Range(Chain(page, up[z])) \subseteq W
    BY <1>1, <1>4, <2>4, <2>5, ChainWithin DEF up
  <2>7. x \in W
    BY <1>1, <1>4, <2>6
  <2> QED
    BY <1>1, <2>0, <2>7 DEF W
<1>5. Below(up, {x}) \subseteq U
  BY <1>1, <1>3, <1>4, BelowLeast
<1> QED
  BY <1>2, <1>5 DEF U, up

-----------------------------------------------------------------------------
\* Outlines: what is left without the ids below S, and with another outline
\* hung under `parent'.
Pruned(a, S) ==
    [node |-> Restrict(a.node, DOMAIN a.node \ Below(a.up, S)),
     up |-> Restrict(a.up, DOMAIN a.node \ Below(a.up, S))]
Hung(b, parent, x) == IF b.up[x] = Root THEN parent ELSE b.up[x]
Planted(a, b, parent) ==
    [node |-> [x \in DOMAIN a.node \cup DOMAIN b.node |->
                  IF x \in DOMAIN b.node THEN b.node[x] ELSE a.node[x]],
     up |-> [x \in DOMAIN a.node \cup DOMAIN b.node |->
                  IF x \in DOMAIN b.node THEN Hung(b, parent, x) ELSE a.up[x]]]
\* The outline of an id with all that hangs below it.
Part(a, x) ==
    [node |-> Restrict(a.node, Below(a.up, {x})),
     up |-> [y \in Below(a.up, {x}) |-> IF y = x THEN Root ELSE a.up[y]]]

Plan(body) == Outline(AsPage(body))
BodyOK(body) ==
    /\ body = [top |-> body.top, node |-> body.node, kids |-> body.kids]
    /\ DOMAIN body.kids = DOMAIN body.node
    /\ Tree(AsPage(body))

\* What Sound says of every node.
LEMMA SoundIs ==
  ASSUME NEW a, Sound(a)
  PROVE  /\ DOMAIN a.up = DOMAIN a.node /\ Root \notin DOMAIN a.node
         /\ \A S : Below(a.up, S) \subseteq DOMAIN a.node
         /\ \A x \in DOMAIN a.node : a.up[x] \in DOMAIN a.node \cup {Root} /\ a.node[x] \in Node
<1>1. DOMAIN a.up = DOMAIN a.node /\ Root \notin DOMAIN a.node
  BY DEF Sound
<1>2. \A x \in DOMAIN a.node : a.up[x] \in DOMAIN a.node \cup {Root} /\ a.node[x] \in Node
  BY DEF Sound
<1>3. \A S : Below(a.up, S) \subseteq DOMAIN a.node
  BY <1>1, BelowIs
<1> QED
  BY <1>1, <1>2, <1>3

\* Taking out what is below a set keeps an outline sound.
LEMMA PrunedSound ==
  ASSUME NEW a, Sound(a), NEW S
  PROVE  Sound(Pruned(a, S))
<1> DEFINE D == DOMAIN a.node
           K == D \ Below(a.up, S)
           c == Pruned(a, S)
<1>1. DOMAIN c.node = K /\ DOMAIN c.up = K /\ c = [node |-> c.node, up |-> c.up]
      /\ \A x \in K : c.node[x] = a.node[x] /\ c.up[x] = a.up[x]
  BY DEF Pruned, Restrict
<1>2. /\ K \subseteq D /\ DOMAIN a.up = D
      /\ \A x \in K : a.up[x] \in K \cup {Root}
  <2>1. DOMAIN a.up = D /\ \A x \in D : a.up[x] \in D \cup {Root}
    BY SoundIs
  <2>2. \A x \in K : a.up[x] \notin Below(a.up, S)
    BY <2>1, BelowIs
  <2> QED
    BY <2>1, <2>2
<1> HIDE DEF c, K
<1>3. IsFiniteSet(K) /\ K \subseteq Nat \ {Root}
  BY <1>2, FS_Subset DEF Sound
<1>4. c.node \in [K -> Node]
  <2>1. c.node = [x \in K |-> a.node[x]]
    BY DEF c, K, Pruned, Restrict
  <2> QED
    BY <1>2, <2>1, SoundIs
<1>5. c.up \in [K -> K \cup {Root}]
  <2>1. c.up = [x \in K |-> a.up[x]]
    BY DEF c, K, Pruned, Restrict
  <2> QED
    BY <1>2, <2>1
<1>6. Founded(c.up)
  <2> SUFFICES ASSUME NEW T \in SUBSET K, T # {} PROVE \E x \in T : c.up[x] \notin T
    BY <1>1 DEF Founded
  <2>1. T \in SUBSET DOMAIN a.up /\ Founded(a.up)
    BY <1>2 DEF Sound
  <2>2. PICK x \in T : a.up[x] \notin T
    BY <2>1 DEF Founded
  <2> QED
    BY <1>1, <2>2
<1>7. \A x \in K : c.up[x] # Root => Holds(c.node[c.up[x]].kind, c.node[x].kind)
  <2> TAKE x \in K
  <2>1. c.up[x] = a.up[x] /\ c.node[x] = a.node[x] /\ a.up[x] \in K \cup {Root} /\ x \in D
    BY <1>1, <1>2
  <2>2. a.up[x] \in K => c.node[a.up[x]] = a.node[a.up[x]]
    BY <1>1
  <2> QED
    BY <2>1, <2>2 DEF Sound
<1> QED
  BY <1>1, <1>3, <1>4, <1>5, <1>6, <1>7 DEF Sound, c

\* So does putting one in, under a parent that may hold it.
LEMMA PlantedSound ==
  ASSUME NEW a, Sound(a), NEW b, Sound(b), DOMAIN a.node \cap DOMAIN b.node = {},
         NEW parent \in DOMAIN a.node \cup {Root},
         \A x \in DOMAIN b.node :
            b.up[x] = Root /\ parent # Root => Holds(a.node[parent].kind, b.node[x].kind)
  PROVE  Sound(Planted(a, b, parent))
<1> DEFINE A == DOMAIN a.node
           B == DOMAIN b.node
           c == Planted(a, b, parent)
<1>1. /\ DOMAIN c.node = A \cup B /\ DOMAIN c.up = A \cup B /\ c = [node |-> c.node, up |-> c.up]
      /\ \A x \in B : c.node[x] = b.node[x] /\ c.up[x] = Hung(b, parent, x)
      /\ \A x \in A : c.node[x] = a.node[x] /\ c.up[x] = a.up[x]
  BY DEF Planted
<1>2. /\ DOMAIN a.up = A /\ DOMAIN b.up = B /\ Root \notin A /\ Root \notin B
      /\ \A x \in A : a.up[x] \in A \cup {Root} /\ a.node[x] \in Node
      /\ \A x \in B : b.up[x] \in B \cup {Root} /\ b.node[x] \in Node
  BY SoundIs
<1>3. c.node = [x \in A \cup B |-> c.node[x]] /\ c.up = [x \in A \cup B |-> c.up[x]]
  BY DEF Planted
<1>4. \A x \in B : Hung(b, parent, x) \in A \cup B \cup {Root}
  BY <1>2 DEF Hung
<1> HIDE DEF c, A, B
<1>5. IsFiniteSet(A \cup B) /\ A \cup B \subseteq Nat \ {Root}
  <2>1. IsFiniteSet(A) /\ IsFiniteSet(B) /\ A \subseteq Nat \ {Root} /\ B \subseteq Nat \ {Root}
    BY DEF Sound, A, B
  <2> QED
    BY <2>1, FS_Union
<1>6. c.node \in [A \cup B -> Node]
  BY <1>1, <1>2, <1>3
<1>7. c.up \in [A \cup B -> A \cup B \cup {Root}]
  BY <1>1, <1>2, <1>3, <1>4
<1>8. Founded(c.up)
  <2> SUFFICES ASSUME NEW T \in SUBSET (A \cup B), T # {} PROVE \E x \in T : c.up[x] \notin T
    BY <1>1 DEF Founded
  <2>1. CASE T \cap A # {}
    <3>1. PICK x \in T \cap A : a.up[x] \notin T \cap A
      BY <1>2, <2>1 DEF Founded, Sound
    <3>2. a.up[x] \notin T
      BY <1>2, <1>5, <3>1
    <3> QED
      BY <1>1, <3>1, <3>2
  <2>2. CASE T \cap A = {}
    <3>1. PICK x \in T : b.up[x] \notin T
      BY <1>2, <2>2 DEF Founded, Sound
    <3>2. parent \notin T
      BY <1>5, <2>2 DEF A
    <3>3. x \in B
      BY <2>2
    <3> QED
      BY <1>1, <3>1, <3>2, <3>3 DEF Hung
  <2> QED
    BY <2>1, <2>2
<1>9. \A x \in A \cup B : c.up[x] # Root => Holds(c.node[c.up[x]].kind, c.node[x].kind)
  <2> TAKE x \in A \cup B
  <2>1. CASE x \in A
    <3>1. c.up[x] = a.up[x] /\ c.node[x] = a.node[x] /\ a.up[x] \in A \cup {Root}
      BY <1>1, <1>2, <2>1
    <3>2. a.up[x] # Root => c.node[a.up[x]] = a.node[a.up[x]] /\ Holds(a.node[a.up[x]].kind, a.node[x].kind)
      BY <1>1, <2>1, <3>1 DEF Sound, A
    <3> QED
      BY <3>1, <3>2
  <2>2. CASE x \in B /\ b.up[x] = Root
    <3>1. c.up[x] = parent /\ c.node[x] = b.node[x]
      BY <1>1, <2>2 DEF Hung
    <3>2. parent # Root => c.node[parent] = a.node[parent]
      BY <1>1 DEF A
    <3> QED
      BY <2>2, <3>1, <3>2 DEF B
  <2>3. CASE x \in B /\ b.up[x] # Root
    <3>1. c.up[x] = b.up[x] /\ c.node[x] = b.node[x] /\ b.up[x] \in B
      BY <1>1, <1>2, <2>3 DEF Hung
    <3>2. c.node[b.up[x]] = b.node[b.up[x]] /\ Holds(b.node[b.up[x]].kind, b.node[x].kind)
      BY <1>1, <2>3, <3>1 DEF Sound, B
    <3> QED
      BY <3>1, <3>2
  <2> QED
    BY <2>1, <2>2, <2>3
<1> QED
  BY <1>1, <1>5, <1>6, <1>7, <1>8, <1>9 DEF Sound, c

-----------------------------------------------------------------------------
\* A sequence is one over any set that has its values.
LEMMA SeqInto ==
  ASSUME NEW T, NEW s \in Seq(T), NEW K, Range(s) \subseteq K
  PROVE  s \in Seq(K)
BY SeqOfRange, SeqMonotonic

\* Several ids hold what each of them holds.
LEMMA BelowUnion ==
  ASSUME NEW up, NEW S
  PROVE  UNION {Below(up, {x}) : x \in S \cap DOMAIN up} = Below(up, S)
<1> DEFINE U == UNION {Below(up, {x}) : x \in S \cap DOMAIN up}
<1>1. ASSUME NEW x \in S \cap DOMAIN up PROVE Below(up, {x}) \subseteq Below(up, S)
  <2>1. {x} \cap DOMAIN up \subseteq Below(up, S) /\ \A z \in DOMAIN up : up[z] \in Below(up, S)
            => z \in Below(up, S)
    BY BelowIs
  <2> QED
    BY <2>1, BelowLeast
<1>2. S \cap DOMAIN up \subseteq U
  <2>1. \A x \in S \cap DOMAIN up : x \in Below(up, {x})
    BY BelowIs
  <2> QED
    BY <2>1
<1>3. ASSUME NEW z \in DOMAIN up, up[z] \in U PROVE z \in U
  <2>1. PICK x \in S \cap DOMAIN up : up[z] \in Below(up, {x})
    BY <1>3
  <2>2. z \in Below(up, {x})
    BY <2>1, BelowIs
  <2> QED
    BY <2>1, <2>2
<1>4. U \subseteq Below(up, S)
  BY <1>1
<1> HIDE DEF U
<1>5. Below(up, S) \subseteq U
  BY <1>2, <1>3, BelowLeast
<1> QED
  BY <1>4, <1>5 DEF U

\* The fields of a page and of its outline.
LEMMA TreeIs ==
  ASSUME NEW page, Tree(page)
  PROVE  /\ Placed(page) /\ Sound(Outline(page))
         /\ page = [node |-> page.node, kids |-> page.kids]
         /\ Outline(page).node = page.node /\ Outline(page).up = Up(page)
         /\ DOMAIN Up(page) = Ids(page) /\ DOMAIN page.node = Ids(page)
         /\ Root \notin Ids(page) /\ Ids(page) \subseteq Nat
         /\ DOMAIN page.kids = Ids(page) \cup {Root}
         /\ \A x \in Ids(page) : page.node[x] \in Node
<1>1. /\ Outline(page).node = page.node /\ Outline(page).up = Up(page)
      /\ DOMAIN Up(page) = Ids(page) /\ DOMAIN page.node = Ids(page)
  BY DEF Outline, Up, Ids
<1>2. Placed(page) /\ Sound(Outline(page))
  BY DEF Tree
<1>3. page = [node |-> page.node, kids |-> page.kids] /\ DOMAIN page.kids = Ids(page) \cup {Root}
  BY <1>2 DEF Placed
<1>4. \A x \in Ids(page) : page.node[x] \in Node
  BY <1>1, <1>2, SoundIs
<1>5. Root \notin Ids(page) /\ Ids(page) \subseteq Nat
  BY <1>1, <1>2 DEF Sound
<1> QED
  BY <1>1, <1>2, <1>3, <1>4, <1>5

\* Where an id hangs, read off its parent's children.
LEMMA KidsUp ==
  ASSUME NEW page, Placed(page), NEW q \in Ids(page) \cup {Root}
  PROVE  /\ page.kids[q] \in Seq(Ids(page)) /\ OneOnly(page.kids[q])
         /\ Range(page.kids[q]) = {x \in Ids(page) : Up(page)[x] = q}
<1>1. page.kids[q] \in Seq(Ids(page)) /\ OneOnly(page.kids[q])
  BY DEF Placed
<1>2. Range(page.kids[q]) \subseteq Ids(page)
  BY <1>1, RangeOfSeq
<1> QED
  BY <1>1, <1>2, PlaceOf

\* Forgetting ids and all below them leaves a tree.
LEMMA ForgetTree ==
  ASSUME NEW page, Tree(page), NEW S
  PROVE  Tree(Forget(page, S)) /\ Outline(Forget(page, S)) = Pruned(Outline(page), S)
<1> DEFINE D == Ids(page)
           out == Below(Up(page), S)
           K == D \ out
           new == Forget(page, S)
           up == Restrict(Up(page), K)
<1>1. Forget(page, S) = Without(page, out)
  <2>1. \A x \in S \cap D : Under(page, x) = Below(Up(page), {x})
    BY UnderIsBelow
  <2>2. {Under(page, x) : x \in S \cap D} = {Below(Up(page), {x}) : x \in S \cap D}
    BY <2>1
  <2>3. UNION {Below(Up(page), {x}) : x \in S \cap D} = out
    BY TreeIs, BelowUnion
  <2> QED
    BY <2>2, <2>3 DEF Forget
<1>2. /\ Placed(page) /\ DOMAIN Up(page) = D /\ Root \notin D /\ out \subseteq D
      /\ DOMAIN page.kids = D \cup {Root} /\ DOMAIN page.node = D
  BY TreeIs, BelowIs
<1> DEFINE kid(q) == Kept(page.kids[q], Range(page.kids[q]) \ out)
<1>3. /\ new = [node |-> new.node, kids |-> new.kids]
      /\ new.node = Restrict(page.node, K) /\ DOMAIN new.node = K /\ Ids(new) = K
      /\ DOMAIN new.kids = K \cup {Root}
      /\ \A q \in K \cup {Root} : new.kids[q] = kid(q)
  <2>1. new = [node |-> Restrict(page.node, K), kids |-> [q \in (D \cup {Root}) \ out |-> kid(q)]]
    BY <1>1, <1>2 DEF Without, Ids
  <2>2. (D \cup {Root}) \ out = K \cup {Root}
    BY <1>2
  <2> HIDE DEF new, K, D, out
  <2> QED
    BY <2>1, <2>2 DEF Restrict, Ids
<1> HIDE DEF new
<1>4. up \in [K -> K \cup {Root}] /\ \A x \in K : up[x] = Up(page)[x]
  <2>1. \A x \in K : Up(page)[x] \in D \cup {Root} /\ Up(page)[x] \notin out
    BY <1>2, PlaceOf, BelowIs
  <2> QED
    BY <1>2, <2>1 DEF Restrict
<1>5. ASSUME NEW q \in K \cup {Root}
      PROVE  /\ kid(q) \in Seq(K) /\ OneOnly(kid(q))
             /\ Range(kid(q)) = {x \in K : up[x] = q}
  <2>1. /\ page.kids[q] \in Seq(D) /\ OneOnly(page.kids[q])
        /\ Range(page.kids[q]) = {x \in D : Up(page)[x] = q}
    BY <1>2, KidsUp
  <2>2. /\ kid(q) \in Seq(D) /\ OneOnly(kid(q))
        /\ Range(kid(q)) = Range(page.kids[q]) \cap (Range(page.kids[q]) \ out)
    BY <2>1, KeptIs
  <2>3. Range(kid(q)) = {x \in K : up[x] = q}
    <3> HIDE DEF kid
    <3> QED
      BY <1>4, <2>1, <2>2
  <2> HIDE DEF kid, up, K
  <2> QED
    BY <2>2, <2>3, SeqInto
<1> HIDE DEF kid, up, K
<1>6. Placed(new) /\ Up(new) = up
  <2>1. \A q \in Ids(new) \cup {Root} : new.kids[q] \in Seq(Ids(new)) /\ OneOnly(new.kids[q])
    BY <1>3, <1>5
  <2>2. \A q \in Ids(new) \cup {Root}, x \in Ids(new) : x \in Range(new.kids[q]) <=> up[x] = q
    BY <1>3, <1>5
  <2>3. up \in [Ids(new) -> Ids(new) \cup {Root}]
    BY <1>3, <1>4
  <2> QED
    BY <1>3, <2>1, <2>2, <2>3, PlacedBy
<1>7. Outline(new) = Pruned(Outline(page), S)
  BY <1>2, <1>3, <1>6, TreeIs DEF Outline, Pruned, K, up
<1>8. Sound(Pruned(Outline(page), S))
  BY TreeIs, PrunedSound
<1> QED
  BY <1>6, <1>7, <1>8 DEF Tree, new

-----------------------------------------------------------------------------
\* A body, seen from the page it makes.
LEMMA BodyIs ==
  ASSUME NEW body, BodyOK(body)
  PROVE  /\ Tree(AsPage(body)) /\ Ids(AsPage(body)) = DOMAIN body.node
         /\ Plan(body).node = body.node /\ Plan(body).up = Up(AsPage(body))
         /\ DOMAIN Plan(body).up = DOMAIN body.node
         /\ Sound(Plan(body)) /\ Root \notin DOMAIN body.node
         /\ body.top \in DOMAIN body.node
         /\ \A x \in DOMAIN body.node : (Plan(body).up[x] = Root) <=> (x = body.top)
         /\ \A q \in DOMAIN body.node :
               /\ body.kids[q] \in Seq(DOMAIN body.node) /\ OneOnly(body.kids[q])
               /\ Range(body.kids[q]) = {x \in DOMAIN body.node : Plan(body).up[x] = q}
<1> DEFINE p == AsPage(body)
           B == DOMAIN body.node
<1>1. /\ Tree(p) /\ p.node = body.node /\ Ids(p) = B
      /\ p.kids = Over(body.kids, [y \in {Root} |-> <<body.top>>])
  BY DEF BodyOK, AsPage, Ids
<1>2. /\ Root \notin B /\ Placed(p) /\ Sound(Outline(p)) /\ Outline(p).up = Up(p)
      /\ DOMAIN Up(p) = B
  BY <1>1, TreeIs
<1>3. p.kids[Root] = <<body.top>> /\ \A q \in B : p.kids[q] = body.kids[q]
  <2>1. DOMAIN body.kids = B
    BY DEF BodyOK
  <2> DEFINE one == [y \in {Root} |-> <<body.top>>]
  <2>2. DOMAIN one = {Root} /\ one[Root] = <<body.top>>
    OBVIOUS
  <2> HIDE DEF one, p, B
  <2>3. /\ \A q \in B : Over(body.kids, one)[q] = body.kids[q]
        /\ Over(body.kids, one)[Root] = one[Root]
    BY <1>2, <2>1, <2>2 DEF Over
  <2>4. p.kids = Over(body.kids, one)
    BY <1>1 DEF one
  <2> QED
    BY <2>2, <2>3, <2>4
<1>4. \A q \in B \cup {Root} : /\ p.kids[q] \in Seq(B) /\ OneOnly(p.kids[q])
                               /\ Range(p.kids[q]) = {x \in B : Up(p)[x] = q}
  BY <1>1, <1>2, KidsUp
<1>5. Range(<<body.top>>) = {body.top}
  BY DEF Range
<1>6. {body.top} = {x \in B : Up(p)[x] = Root}
  BY <1>3, <1>4, <1>5
<1>7. Plan(body).node = body.node /\ Plan(body).up = Up(p) /\ Plan(body) = Outline(p)
  BY <1>1 DEF Plan, Outline
<1> HIDE DEF p
<1>8. /\ Tree(p) /\ Ids(p) = B /\ Plan(body).node = body.node /\ Plan(body).up = Up(p)
      /\ DOMAIN Plan(body).up = B /\ Sound(Plan(body)) /\ Root \notin B /\ body.top \in B
  BY <1>1, <1>2, <1>6, <1>7
<1>9. \A x \in B : (Up(p)[x] = Root) <=> (x = body.top)
  BY <1>6
<1>10. \A q \in B : /\ body.kids[q] \in Seq(B) /\ OneOnly(body.kids[q])
                     /\ Range(body.kids[q]) = {x \in B : Up(p)[x] = q}
  BY <1>3, <1>4
<1> QED
  BY <1>8, <1>9, <1>10 DEF p

\* A body grafted into a tree that has none of its ids.
LEMMA GraftTree ==
  ASSUME NEW page, Tree(page), NEW body, BodyOK(body), Ids(page) \cap DOMAIN body.node = {},
         NEW parent \in Ids(page) \cup {Root}, NEW index \in Nat \ {0},
         parent # Root => Holds(page.node[parent].kind, body.node[body.top].kind)
  PROVE  /\ Tree(Graft(page, body, parent, index))
         /\ Outline(Graft(page, body, parent, index)) = Planted(Outline(page), Plan(body), parent)
<1> DEFINE D == Ids(page)
           B == DOMAIN body.node
           b == Plan(body)
           new == Graft(page, body, parent, index)
           sibs == page.kids[parent]
           at == IF index > Len(sibs) THEN Len(sibs) + 1 ELSE index
           grown == InsertAt(sibs, at, body.top)
           kid(q) == IF q \in B THEN body.kids[q] ELSE IF q = parent THEN grown ELSE page.kids[q]
           up == [x \in D \cup B |-> IF x \in B THEN Hung(b, parent, x) ELSE Up(page)[x]]
<1>1. /\ Placed(page) /\ Root \notin D /\ DOMAIN page.kids = D \cup {Root}
      /\ DOMAIN page.node = D /\ DOMAIN Up(page) = D
      /\ \A x \in D : Up(page)[x] \in D \cup {Root}
  BY TreeIs, PlaceOf
<1>2. /\ Root \notin B /\ body.top \in B /\ DOMAIN body.kids = B /\ DOMAIN b.up = B
      /\ b.node = body.node /\ Sound(b)
      /\ \A x \in B : b.up[x] \in B \cup {Root}
      /\ \A x \in B : b.up[x] = Root <=> x = body.top
      /\ \A q \in B : /\ body.kids[q] \in Seq(B) /\ OneOnly(body.kids[q])
                      /\ Range(body.kids[q]) = {x \in B : b.up[x] = q}
  BY BodyIs, SoundIs DEF BodyOK
<1>3. /\ new = [node |-> new.node, kids |-> new.kids]
      /\ DOMAIN new.node = D \cup B /\ Ids(new) = D \cup B
      /\ new.node = [x \in D \cup B |-> IF x \in B THEN body.node[x] ELSE page.node[x]]
      /\ DOMAIN new.kids = (D \cup B) \cup {Root}
      /\ \A q \in (D \cup B) \cup {Root} : new.kids[q] = kid(q)
  <2>1. new = [node |-> Over(body.node, page.node),
               kids |-> Over(body.kids, [page.kids EXCEPT ![parent] = grown])]
    BY DEF Graft
  <2>2. Over(body.node, page.node) = [x \in B \cup D |-> IF x \in B THEN body.node[x] ELSE page.node[x]]
    BY <1>1 DEF Over
  <2>3. [x \in B \cup D |-> IF x \in B THEN body.node[x] ELSE page.node[x]]
          = [x \in D \cup B |-> IF x \in B THEN body.node[x] ELSE page.node[x]]
    <3>1. B \cup D = D \cup B
      OBVIOUS
    <3> HIDE DEF B, D
    <3> QED
      BY <3>1
  <2> DEFINE old == [page.kids EXCEPT ![parent] = grown]
  <2> HIDE DEF grown
  <2>4. DOMAIN old = D \cup {Root} /\ \A q \in D \cup {Root} : old[q] = IF q = parent THEN grown ELSE page.kids[q]
    BY <1>1
  <2> HIDE DEF old
  <2> DEFINE all == Over(body.kids, old)
  <2>5. DOMAIN all = (D \cup B) \cup {Root}
        /\ \A q \in (D \cup B) \cup {Root} : all[q] = IF q \in B THEN body.kids[q] ELSE old[q]
    <3> HIDE DEF B, D
    <3>1. DOMAIN body.kids = B
      BY <1>2
    <3>2. /\ DOMAIN all = B \cup (D \cup {Root})
          /\ \A q \in B : all[q] = body.kids[q]
          /\ \A q \in (D \cup {Root}) \ B : all[q] = old[q]
      BY <2>4, <3>1 DEF Over
    <3> HIDE DEF all
    <3> QED
      BY <3>2
  <2> HIDE DEF all
  <2>6. \A q \in (D \cup B) \cup {Root} : all[q] = kid(q)
    BY <2>4, <2>5
  <2> HIDE DEF kid
  <2>7. new = [node |-> [x \in D \cup B |-> IF x \in B THEN body.node[x] ELSE page.node[x]], kids |-> all]
    BY <2>1, <2>2, <2>3 DEF all, old
  <2> HIDE DEF new
  <2> QED
    BY <2>5, <2>6, <2>7 DEF Ids
<1> HIDE DEF new
<1>0. D \cap B = {}
  OBVIOUS
<1>4. up \in [D \cup B -> (D \cup B) \cup {Root}]
  BY <1>1, <1>2 DEF Hung
<1>5. /\ grown \in Seq(D \cup B) /\ OneOnly(grown) /\ Range(grown) = Range(sibs) \cup {body.top}
  <2>1. sibs \in Seq(D) /\ OneOnly(sibs) /\ Range(sibs) \subseteq D
    BY <1>1, KidsUp
  <2>2. sibs \in Seq(D \cup B) /\ body.top \in D \cup B /\ body.top \notin Range(sibs)
    BY <1>2, <2>1, SeqMonotonic
  <2>3. at \in 1..(Len(sibs) + 1)
    <3>1. Len(sibs) \in Nat
      BY <2>1
    <3> QED
      BY <3>1
  <2> HIDE DEF at, sibs
  <2> QED
    BY <2>1, <2>2, <2>3, InsertAtRange
<1>6. ASSUME NEW q \in (D \cup B) \cup {Root}
      PROVE  /\ kid(q) \in Seq(D \cup B) /\ OneOnly(kid(q))
             /\ Range(kid(q)) = {x \in D \cup B : up[x] = q}
  <2> DEFINE U == {x \in D \cup B : up[x] = q}
  <2>1. \A x \in D \cup B : up[x] = IF x \in B THEN Hung(b, parent, x) ELSE Up(page)[x]
    OBVIOUS
  <2> HIDE DEF up, D, B, b
  <2>2. CASE q \in B
    <3>1. Range(kid(q)) = {x \in B : b.up[x] = q} /\ kid(q) = body.kids[q]
      BY <1>2, <2>2
    <3>2. U = {x \in B : b.up[x] = q}
      <4>1. \A x \in D : x \notin B /\ Up(page)[x] # q
        BY <1>0, <1>1, <1>2, <2>2
      <4>2. \A x \in B : Hung(b, parent, x) = q <=> b.up[x] = q
        <5>1. parent \in D \cup {Root}
          BY DEF D
        <5> QED
          BY <1>0, <1>1, <1>2, <2>2, <5>1 DEF Hung
      <4> QED
        BY <2>1, <4>1, <4>2
    <3>3. kid(q) \in Seq(D \cup B)
      BY <1>2, <2>2, <3>1, SeqMonotonic
    <3> QED
      BY <1>2, <2>2, <3>1, <3>2, <3>3
  <2>3. CASE q \notin B /\ q = parent
    <3>1. kid(q) = grown /\ Range(sibs) = {x \in D : Up(page)[x] = q}
      BY <1>1, <2>3, KidsUp DEF D
    <3>2. U = {x \in D : Up(page)[x] = q} \cup {body.top}
      <4>1. \A x \in D : x \notin B
        BY <1>0
      <4>2. \A x \in B : Hung(b, parent, x) = q <=> x = body.top
        BY <1>2, <2>3 DEF Hung
      <4> QED
        BY <1>2, <2>1, <4>1, <4>2
    <3> HIDE DEF grown, kid, sibs
    <3> QED
      BY <1>5, <3>1, <3>2
  <2>4. CASE q \notin B /\ q # parent
    <3>1. kid(q) = page.kids[q] /\ q \in D \cup {Root}
      BY <2>4
    <3>2. page.kids[q] \in Seq(D) /\ OneOnly(page.kids[q]) /\ Range(page.kids[q]) = {x \in D : Up(page)[x] = q}
      BY <1>1, <3>1, KidsUp DEF D
    <3>3. U = {x \in D : Up(page)[x] = q}
      <4>1. \A x \in D : x \notin B
        BY <1>0
      <4>2. \A x \in B : Hung(b, parent, x) # q
        BY <1>2, <2>4 DEF Hung
      <4> QED
        BY <2>1, <4>1, <4>2
    <3>4. page.kids[q] \in Seq(D \cup B)
      BY <3>2, SeqMonotonic
    <3> QED
      BY <3>1, <3>2, <3>3, <3>4
  <2> QED
    BY <2>2, <2>3, <2>4
<1>7. Placed(new) /\ Up(new) = up
  <2> HIDE DEF up, kid, D, B
  <2>1. \A q \in Ids(new) \cup {Root} : new.kids[q] \in Seq(Ids(new)) /\ OneOnly(new.kids[q])
    BY <1>3, <1>6
  <2>2. \A q \in Ids(new) \cup {Root}, x \in Ids(new) : x \in Range(new.kids[q]) <=> up[x] = q
    BY <1>3, <1>6
  <2>3. up \in [Ids(new) -> Ids(new) \cup {Root}] /\ DOMAIN new.kids = Ids(new) \cup {Root}
    BY <1>3, <1>4
  <2> QED
    BY <1>3, <2>1, <2>2, <2>3, PlacedBy
<1>8. Outline(new) = Planted(Outline(page), b, parent)
  <2>1. Outline(page).node = page.node /\ Outline(page).up = Up(page)
    BY DEF Outline
  <2>2. DOMAIN Outline(page).node = D /\ DOMAIN b.node = B
    BY <1>1, <1>2, <2>1
  <2>3. Outline(new) = [node |-> new.node, up |-> up]
    BY <1>7 DEF Outline
  <2> HIDE DEF b, D, B
  <2> QED
    BY <1>2, <1>3, <2>1, <2>2, <2>3 DEF Planted
<1>9. Sound(Planted(Outline(page), b, parent))
  <2>1. Sound(Outline(page)) /\ Outline(page).node = page.node
    BY TreeIs
  <2>2. DOMAIN Outline(page).node = D /\ DOMAIN b.node = B
    BY <1>1, <1>2, <2>1
  <2>3. \A x \in B : b.up[x] = Root /\ parent # Root => Holds(page.node[parent].kind, b.node[x].kind)
    BY <1>2
  <2> HIDE DEF b
  <2> QED
    BY <1>2, <2>1, <2>2, <2>3, PlantedSound
<1> QED
  BY <1>7, <1>8, <1>9 DEF Tree, new

\* An id of a page, with all below it, is a body.
LEMMA BodyTree ==
  ASSUME NEW page, Tree(page), NEW x \in Ids(page)
  PROVE  /\ BodyOK(Body(page, x)) /\ Body(page, x).top = x
         /\ Plan(Body(page, x)) = Part(Outline(page), x)
         /\ DOMAIN Body(page, x).node = Below(Up(page), {x})
         /\ Body(page, x).node = Restrict(page.node, Below(Up(page), {x}))
<1> DEFINE D == Ids(page)
           B == Below(Up(page), {x})
           body == Body(page, x)
           new == AsPage(body)
           up == [y \in B |-> IF y = x THEN Root ELSE Up(page)[y]]
<1>1. /\ Placed(page) /\ Root \notin D /\ DOMAIN page.kids = D \cup {Root}
      /\ DOMAIN page.node = D /\ DOMAIN Up(page) = D
      /\ \A y \in D : Up(page)[y] \in D \cup {Root}
  BY TreeIs, PlaceOf
<1>2. /\ B \subseteq D /\ x \in B
      /\ \A z \in D : Up(page)[z] \in B => z \in B
      /\ \A y \in B : y # x => Up(page)[y] \in B
  BY <1>1, BelowIs
<1>3. body = [top |-> x, node |-> Restrict(page.node, B), kids |-> Restrict(page.kids, B)]
  BY UnderIsBelow DEF Body
<1> HIDE DEF B
<1>4. /\ body = [top |-> body.top, node |-> body.node, kids |-> body.kids] /\ body.top = x
      /\ body.node = Restrict(page.node, B) /\ DOMAIN body.node = B /\ DOMAIN body.kids = B
      /\ \A q \in B : body.kids[q] = page.kids[q]
  BY <1>3 DEF Restrict
<1> HIDE DEF body
<1>5. /\ new = [node |-> new.node, kids |-> new.kids] /\ new.node = body.node /\ Ids(new) = B
      /\ DOMAIN new.kids = B \cup {Root} /\ new.kids[Root] = <<x>>
      /\ \A q \in B : new.kids[q] = page.kids[q]
  <2>1. new = [node |-> body.node, kids |-> Over(body.kids, [y \in {Root} |-> <<x>>])]
    BY <1>4 DEF AsPage
  <2>2. DOMAIN Over(body.kids, [y \in {Root} |-> <<x>>]) = B \cup {Root}
        /\ Over(body.kids, [y \in {Root} |-> <<x>>])[Root] = <<x>>
        /\ \A q \in B : Over(body.kids, [y \in {Root} |-> <<x>>])[q] = body.kids[q]
    <3> DEFINE one == [y \in {Root} |-> <<x>>]
    <3>1. DOMAIN one = {Root} /\ one[Root] = <<x>> /\ Root \notin B /\ DOMAIN body.kids = B
      BY <1>1, <1>2, <1>4
    <3> HIDE DEF one, new, up
    <3>2. /\ DOMAIN Over(body.kids, one) = B \cup {Root}
          /\ \A q \in B : Over(body.kids, one)[q] = body.kids[q]
          /\ Over(body.kids, one)[Root] = one[Root]
      BY <3>1 DEF Over
    <3> QED
      BY <3>1, <3>2 DEF one
  <2> HIDE DEF new
  <2> QED
    BY <1>4, <2>1, <2>2 DEF Ids
<1> HIDE DEF new
<1>6. up \in [B -> B \cup {Root}]
  BY <1>2
<1>7. ASSUME NEW q \in B \cup {Root}
      PROVE  /\ new.kids[q] \in Seq(B) /\ OneOnly(new.kids[q])
             /\ Range(new.kids[q]) = {y \in B : up[y] = q}
  <2>1. CASE q = Root
    <3>1. <<x>> \in Seq(B) /\ OneOnly(<<x>>) /\ Range(<<x>>) = {x}
      BY <1>2 DEF OneOnly, Range
    <3>2. {y \in B : up[y] = Root} = {x}
      BY <1>1, <1>2
    <3> QED
      BY <1>5, <2>1, <3>1, <3>2
  <2>2. CASE q # Root
    <3>1. /\ page.kids[q] \in Seq(D) /\ OneOnly(page.kids[q])
          /\ Range(page.kids[q]) = {y \in D : Up(page)[y] = q}
      BY <1>1, <1>2, <2>2, KidsUp
    <3>2. Range(page.kids[q]) \subseteq B
      BY <1>2, <2>2, <3>1
    <3>3. page.kids[q] \in Seq(B)
      BY <3>1, <3>2, SeqInto
    <3>4. {y \in B : up[y] = q} = {y \in D : Up(page)[y] = q}
      <4>1. Up(page)[x] # q
        <5> SUFFICES ASSUME Up(page)[x] = q PROVE FALSE
          OBVIOUS
        <5>1. Founded(Up(page))
          BY TreeIs DEF Sound
        <5> DEFINE T == {y \in B : Up(page)[y] \in B}
        <5>2. T = B
          BY <1>2, <2>2
        <5>3. \E y \in B : Up(page)[y] \notin B
          BY <1>1, <1>2, <5>1 DEF Founded
        <5> HIDE DEF T
        <5> QED
          BY <5>2, <5>3 DEF T
      <4> QED
        BY <1>1, <1>2, <2>2, <4>1
    <3> QED
      BY <1>5, <2>2, <3>1, <3>3, <3>4
  <2> QED
    BY <2>1, <2>2
<1> HIDE DEF up
<1>8. Placed(new) /\ Up(new) = up
  <2>1. \A q \in Ids(new) \cup {Root} : new.kids[q] \in Seq(Ids(new)) /\ OneOnly(new.kids[q])
    BY <1>5, <1>7
  <2>2. \A q \in Ids(new) \cup {Root}, y \in Ids(new) : y \in Range(new.kids[q]) <=> up[y] = q
    BY <1>5, <1>7
  <2>3. up \in [Ids(new) -> Ids(new) \cup {Root}]
    BY <1>5, <1>6
  <2> QED
    BY <1>5, <2>1, <2>2, <2>3, PlacedBy
<1>9. Outline(new) = Part(Outline(page), x)
  BY <1>4, <1>5, <1>8 DEF Outline, Part, up, B
<1>10. Sound(Outline(new))
  <2>1. Sound(Outline(page)) /\ Outline(page).node = page.node /\ Outline(page).up = Up(page)
    BY TreeIs
  <2>2. Outline(new) = [node |-> new.node, up |-> up]
    BY <1>8 DEF Outline
  <2>3. IsFiniteSet(B) /\ B \subseteq Nat \ {Root} /\ D \subseteq Nat
    BY <1>1, <1>2, <2>1, FS_Subset DEF Sound
  <2>4. new.node \in [B -> Node] /\ \A y \in B : new.node[y] = page.node[y]
    <3>1. new.node = [y \in B |-> page.node[y]]
      BY <1>4, <1>5 DEF Restrict
    <3> QED
      BY <1>2, <3>1, TreeIs
  <2>5. Founded(up)
    <3> SUFFICES ASSUME NEW T \in SUBSET B, T # {} PROVE \E y \in T : up[y] \notin T
      BY <1>6 DEF Founded
    <3>1. PICK y \in T : Up(page)[y] \notin T
      BY <1>1, <1>2, <2>1 DEF Founded, Sound
    <3>2. Root \notin T
      BY <1>1, <1>2
    <3> QED
      BY <3>1, <3>2 DEF up
  <2>6. \A y \in B : up[y] # Root => Holds(new.node[up[y]].kind, new.node[y].kind)
    <3> SUFFICES ASSUME NEW y \in B, up[y] # Root
                 PROVE  Holds(new.node[up[y]].kind, new.node[y].kind)
      OBVIOUS
    <3>1. y # x /\ up[y] = Up(page)[y] /\ up[y] \in B
      BY <1>6 DEF up
    <3>2. Holds(page.node[up[y]].kind, page.node[y].kind)
      BY <1>1, <1>2, <2>1, <3>1 DEF Sound
    <3> QED
      BY <2>4, <3>1, <3>2
  <2> QED
    BY <1>6, <2>2, <2>3, <2>4, <2>5, <2>6 DEF Sound
<1>11. BodyOK(body)
  BY <1>4, <1>8, <1>10 DEF BodyOK, Tree, new
<1> QED
  BY <1>4, <1>9, <1>11 DEF B, body, new, Plan

\* A new node alone.
LEMMA LeafTree ==
  ASSUME NEW x \in Nat \ {0}, NEW rec \in Node
  PROVE  /\ BodyOK(Leaf(x, rec)) /\ Leaf(x, rec).top = x /\ DOMAIN Leaf(x, rec).node = {x}
         /\ Leaf(x, rec).node = [y \in {x} |-> rec]
         /\ Plan(Leaf(x, rec)) = [node |-> [y \in {x} |-> rec], up |-> [y \in {x} |-> Root]]
<1> DEFINE body == Leaf(x, rec)
           new == AsPage(body)
           up == [y \in {x} |-> Root]
<1>1. /\ body = [top |-> body.top, node |-> body.node, kids |-> body.kids] /\ body.top = x
      /\ body.node = [y \in {x} |-> rec] /\ DOMAIN body.node = {x} /\ DOMAIN body.kids = {x}
      /\ body.kids[x] = << >>
  BY DEF Leaf
<1> HIDE DEF body
<1>2. /\ new = [node |-> new.node, kids |-> new.kids] /\ new.node = body.node /\ Ids(new) = {x}
      /\ DOMAIN new.kids = {x} \cup {Root} /\ new.kids[Root] = <<x>> /\ new.kids[x] = << >>
  <2>1. new = [node |-> body.node, kids |-> Over(body.kids, [y \in {Root} |-> <<x>>])]
    BY <1>1 DEF AsPage
  <2>2. DOMAIN Over(body.kids, [y \in {Root} |-> <<x>>]) = {x} \cup {Root}
        /\ Over(body.kids, [y \in {Root} |-> <<x>>])[Root] = <<x>>
        /\ Over(body.kids, [y \in {Root} |-> <<x>>])[x] = << >>
    <3> DEFINE one == [y \in {Root} |-> <<x>>]
    <3>1. DOMAIN one = {Root} /\ one[Root] = <<x>> /\ Root \notin {x} /\ DOMAIN body.kids = {x}
      BY <1>1 DEF Root
    <3> HIDE DEF one, new, up
    <3>2. /\ DOMAIN Over(body.kids, one) = {x} \cup {Root}
          /\ Over(body.kids, one)[x] = body.kids[x]
          /\ Over(body.kids, one)[Root] = one[Root]
      BY <3>1 DEF Over
    <3> QED
      BY <1>1, <3>1, <3>2 DEF one
  <2> HIDE DEF new
  <2> QED
    BY <1>1, <2>1, <2>2 DEF Ids
<1> HIDE DEF new
<1>3. /\ <<x>> \in Seq({x}) /\ OneOnly(<<x>>) /\ Range(<<x>>) = {x}
      /\ << >> \in Seq({x}) /\ OneOnly(<< >>) /\ Range(<< >>) = {}
  BY DEF OneOnly, Range
<1>4. Placed(new) /\ Up(new) = up
  <2>1. \A q \in Ids(new) \cup {Root} : new.kids[q] \in Seq(Ids(new)) /\ OneOnly(new.kids[q])
    BY <1>2, <1>3
  <2>2. \A q \in Ids(new) \cup {Root}, y \in Ids(new) : y \in Range(new.kids[q]) <=> up[y] = q
    BY <1>2, <1>3 DEF Root
  <2>3. up \in [Ids(new) -> Ids(new) \cup {Root}]
    BY <1>2
  <2> QED
    BY <1>2, <2>1, <2>2, <2>3, PlacedBy
<1>5. Outline(new) = [node |-> [y \in {x} |-> rec], up |-> up]
  BY <1>1, <1>2, <1>4 DEF Outline
<1>6. Sound(Outline(new))
  <2>1. IsFiniteSet({x}) /\ {x} \subseteq Nat \ {Root}
    BY FS_Singleton DEF Root
  <2>2. Founded(up)
    BY DEF Founded, Root
  <2> HIDE DEF new
  <2> QED
    BY <1>5, <2>1, <2>2 DEF Sound
<1> QED
  BY <1>1, <1>4, <1>5, <1>6 DEF BodyOK, Tree, new, body, Plan

-----------------------------------------------------------------------------
\* The outlines of several bodies side by side.
Owner(bodies, x) == CHOOSE i \in DOMAIN bodies : x \in DOMAIN bodies[i].node
Spread(bodies, n) == UNION {DOMAIN bodies[k].node : k \in 1..n}
Bunch(bodies) ==
    [node |-> [x \in Spread(bodies, Len(bodies)) |-> bodies[Owner(bodies, x)].node[x]],
     up |-> [x \in Spread(bodies, Len(bodies)) |-> Plan(bodies[Owner(bodies, x)]).up[x]]]
\* Bodies that can go side by side into a page.
Bundle(bodies) ==
    /\ bodies \in Seq(Range(bodies))
    /\ \A i \in DOMAIN bodies : BodyOK(bodies[i])
    /\ \A i, j \in DOMAIN bodies : DOMAIN bodies[i].node \cap DOMAIN bodies[j].node # {} => i = j

\* Where the ids of a graft are.
LEMMA GraftIs ==
  ASSUME NEW page, Tree(page), NEW body, BodyOK(body), Ids(page) \cap DOMAIN body.node = {},
         NEW parent \in Ids(page) \cup {Root}, NEW index \in Nat \ {0},
         parent # Root => Holds(page.node[parent].kind, body.node[body.top].kind)
  PROVE  /\ Tree(Graft(page, body, parent, index))
         /\ Ids(Graft(page, body, parent, index)) = Ids(page) \cup DOMAIN body.node
         /\ \A x \in Ids(page) : /\ Graft(page, body, parent, index).node[x] = page.node[x]
                                 /\ Up(Graft(page, body, parent, index))[x] = Up(page)[x]
         /\ \A x \in DOMAIN body.node :
               /\ Graft(page, body, parent, index).node[x] = body.node[x]
               /\ Up(Graft(page, body, parent, index))[x] = Hung(Plan(body), parent, x)
<1> DEFINE D == Ids(page)
           B == DOMAIN body.node
<1>1. PICK new : new = Graft(page, body, parent, index)
  OBVIOUS
<1>2. Tree(new) /\ Outline(new) = Planted(Outline(page), Plan(body), parent)
  BY <1>1, GraftTree
<1>3. /\ Outline(new).node = new.node /\ Outline(new).up = Up(new) /\ Ids(new) = DOMAIN new.node
      /\ Outline(page).node = page.node /\ Outline(page).up = Up(page) /\ D = DOMAIN page.node
  BY DEF Outline, Ids
<1>4. Plan(body).node = body.node
  BY BodyIs
<1>5. PICK a, b : a = Outline(page) /\ b = Plan(body)
  OBVIOUS
<1>6. /\ DOMAIN a.node = D /\ DOMAIN b.node = B /\ D \cap B = {} /\ a.node = page.node
      /\ a.up = Up(page) /\ b.node = body.node
  BY <1>3, <1>4, <1>5
<1>7. new.node = Planted(a, b, parent).node /\ Up(new) = Planted(a, b, parent).up
  BY <1>2, <1>3, <1>5
<1> HIDE DEF D, B
<1>8. /\ DOMAIN new.node = D \cup B
      /\ \A x \in D : new.node[x] = page.node[x] /\ Up(new)[x] = Up(page)[x]
      /\ \A x \in B : new.node[x] = body.node[x] /\ Up(new)[x] = Hung(b, parent, x)
  BY <1>6, <1>7 DEF Planted
<1> QED
  BY <1>1, <1>2, <1>3, <1>5, <1>8 DEF D, B

\* The pages GraftAll goes through.
GraftAllRun(f, page, bodies, parent) ==
    /\ f[0] = page
    /\ \A i \in 1..Len(bodies) : f[i] = Graft(f[i - 1], bodies[i], parent, AtEnd)
    /\ GraftAll(page, bodies, parent) = f[Len(bodies)]

\* The recursion of GraftAll, step by step.
LEMMA GraftAllUnfold ==
  ASSUME NEW page, NEW bodies, NEW parent, Len(bodies) \in Nat
  PROVE  \E f : GraftAllRun(f, page, bodies, parent)
<1> DEFINE n == Len(bodies)
           Eq(f, m) == f = [i \in 0..m |-> IF i = 0 THEN page ELSE Graft(f[i - 1], bodies[i], parent, AtEnd)]
           Reached == {m \in Nat : \E f : Eq(f, m)}
<1>1. 0 \in Reached
  <2>1. Eq([i \in 0..0 |-> page], 0)
    OBVIOUS
  <2> HIDE DEF Eq
  <2> QED
    BY <2>1
<1>2. ASSUME NEW m \in Nat, m \in Reached PROVE m + 1 \in Reached
  <2>1. PICK f : Eq(f, m)
    BY <1>2
  <2> DEFINE g == [i \in 0..(m + 1) |-> IF i = m + 1 THEN Graft(f[m], bodies[m + 1], parent, AtEnd) ELSE f[i]]
             w == [i \in 0..(m + 1) |-> IF i = 0 THEN page ELSE Graft(g[i - 1], bodies[i], parent, AtEnd)]
  <2>2. \A i \in 0..(m + 1) : g[i] = w[i]
    <3> TAKE i \in 0..(m + 1)
    <3>1. CASE i = 0
      BY <2>1, <3>1
    <3>2. CASE i = m + 1
      <4>1. g[i] = Graft(f[m], bodies[m + 1], parent, AtEnd) /\ i - 1 = m /\ i # 0 /\ m \in 0..(m + 1) /\ m # m + 1
        BY <3>2
      <4>2. g[m] = f[m]
        BY <4>1
      <4> QED
        BY <3>2, <4>1, <4>2
    <3>3. CASE i \in 1..m
      <4>1. i \in 0..m /\ i # 0 /\ i # m + 1 /\ i - 1 \in 0..m /\ i - 1 # m + 1 /\ i - 1 \in 0..(m + 1)
        BY <3>3
      <4>2. g[i] = f[i] /\ g[i - 1] = f[i - 1]
        BY <4>1
      <4>3. f[i] = Graft(f[i - 1], bodies[i], parent, AtEnd)
        BY <2>1, <4>1
      <4> QED
        BY <4>1, <4>2, <4>3
    <3> QED
      BY <3>1, <3>2, <3>3
  <2>3. g = w
    BY <2>2
  <2> HIDE DEF g
  <2>4. Eq(g, m + 1)
    BY <2>3
  <2> HIDE DEF Eq
  <2> QED
    BY <2>4
<1> HIDE DEF Reached
<1>3. n \in Reached
  BY <1>1, <1>2, InductionSet
<1>4. PICK f : Eq(f, n)
  BY <1>3 DEF Reached
<1> DEFINE a == CHOOSE h : Eq(h, n)
<1>5. Eq(a, n)
  <2> HIDE DEF Eq
  <2> QED
    BY <1>4
<1>6. GraftAll(page, bodies, parent) = a[n]
  BY DEF GraftAll
<1> HIDE DEF a
<1>7. a[0] = page /\ \A i \in 1..n : a[i] = Graft(a[i - 1], bodies[i], parent, AtEnd)
  BY <1>5
<1> QED
  BY <1>6, <1>7 DEF GraftAllRun

\* Each body of a bundle is in the bunch as it was.
LEMMA BunchIs ==
  ASSUME NEW bodies, Bundle(bodies), NEW i \in DOMAIN bodies, NEW x \in DOMAIN bodies[i].node
  PROVE  /\ x \in Spread(bodies, Len(bodies))
         /\ Bunch(bodies).node[x] = bodies[i].node[x] /\ Bunch(bodies).up[x] = Plan(bodies[i]).up[x]
<1>1. DOMAIN bodies = 1..Len(bodies)
  BY DEF Bundle
<1>2. x \in Spread(bodies, Len(bodies))
  BY <1>1 DEF Spread
<1>3. Owner(bodies, x) = i
  BY DEF Owner, Bundle
<1> QED
  BY <1>2, <1>3 DEF Bunch

\* Several bodies grafted under an id that holds their tops.
LEMMA GraftAllTree ==
  ASSUME NEW page, Tree(page), NEW bodies, Bundle(bodies), NEW parent \in Ids(page),
         \A i \in DOMAIN bodies : /\ Ids(page) \cap DOMAIN bodies[i].node = {}
                                  /\ Holds(page.node[parent].kind, bodies[i].node[bodies[i].top].kind)
  PROVE  /\ Tree(GraftAll(page, bodies, parent))
         /\ Outline(GraftAll(page, bodies, parent)) = Planted(Outline(page), Bunch(bodies), parent)
<1> DEFINE D == Ids(page)
           B(i) == DOMAIN bodies[i].node
           n == Len(bodies)
<1>1. /\ n \in Nat /\ DOMAIN bodies = 1..n
      /\ \A i \in 1..n : /\ BodyOK(bodies[i]) /\ D \cap B(i) = {}
                         /\ Holds(page.node[parent].kind, bodies[i].node[bodies[i].top].kind)
      /\ \A i, j \in 1..n : B(i) \cap B(j) # {} => i = j
  BY DEF Bundle
<1>2. PICK f : GraftAllRun(f, page, bodies, parent)
  BY <1>1, GraftAllUnfold
<1> DEFINE Good(i) == /\ Tree(f[i]) /\ Ids(f[i]) = D \cup Spread(bodies, i)
                      /\ \A x \in D : f[i].node[x] = page.node[x] /\ Up(f[i])[x] = Up(page)[x]
                      /\ \A k \in 1..i : \A x \in B(k) :
                            /\ f[i].node[x] = bodies[k].node[x]
                            /\ Up(f[i])[x] = Hung(Plan(bodies[k]), parent, x)
           Q == {i \in Nat : i <= n => Good(i)}
<1>3. 0 \in Q
  <2>1. f[0] = page /\ Spread(bodies, 0) = {} /\ 1..0 = {}
    BY <1>2 DEF GraftAllRun, Spread
  <2> QED
    BY <2>1
<1>4. ASSUME NEW i \in Nat, i \in Q PROVE i + 1 \in Q
  <2> SUFFICES ASSUME i + 1 <= n PROVE Good(i + 1)
    OBVIOUS
  <2>1. PICK g, b : g = f[i] /\ b = bodies[i + 1]
    OBVIOUS
  <2>2. Good(i) /\ i + 1 \in 1..n /\ i + 1 - 1 = i
    BY <1>1, <1>4
  <2>3. f[i + 1] = Graft(g, b, parent, AtEnd)
    BY <1>2, <2>1, <2>2 DEF GraftAllRun
  <2>4. Tree(g) /\ BodyOK(b) /\ Ids(g) \cap DOMAIN b.node = {} /\ parent \in Ids(g) \cup {Root}
    <3>1. D \cap B(i + 1) = {} /\ \A k \in 1..i : B(k) \cap B(i + 1) = {}
      <4>1. \A k \in 1..i : k \in 1..n /\ k # i + 1
        BY <2>2
      <4> HIDE DEF B, D
      <4> QED
        BY <1>1, <2>2, <4>1
    <3>2. Spread(bodies, i) \cap B(i + 1) = {}
      BY <3>1 DEF Spread
    <3> QED
      BY <1>1, <2>1, <2>2, <3>1, <3>2
  <2>5. Holds(g.node[parent].kind, b.node[b.top].kind) /\ AtEnd \in Nat \ {0}
    BY <1>1, <2>1, <2>2 DEF AtEnd
  <2>6. /\ Tree(f[i + 1]) /\ Ids(f[i + 1]) = Ids(g) \cup B(i + 1)
        /\ \A x \in Ids(g) : f[i + 1].node[x] = g.node[x] /\ Up(f[i + 1])[x] = Up(g)[x]
        /\ \A x \in B(i + 1) : /\ f[i + 1].node[x] = b.node[x]
                               /\ Up(f[i + 1])[x] = Hung(Plan(b), parent, x)
    BY <2>1, <2>3, <2>4, <2>5, GraftIs
  <2>7. Spread(bodies, i + 1) = Spread(bodies, i) \cup B(i + 1)
    <3>1. \A k \in 1..(i + 1) : k \in 1..i \/ k = i + 1
      OBVIOUS
    <3>2. \A k \in 1..i : k \in 1..(i + 1)
      OBVIOUS
    <3> QED
      BY <3>1, <3>2 DEF Spread
  <2>8. Ids(g) = D \cup Spread(bodies, i)
    BY <2>1, <2>2
  <2>9. \A k \in 1..i : \A x \in B(k) : x \in Ids(g)
    BY <2>8 DEF Spread
  <2>10. \A x \in D : f[i + 1].node[x] = page.node[x] /\ Up(f[i + 1])[x] = Up(page)[x]
    BY <2>1, <2>2, <2>6, <2>8
  <2>11. ASSUME NEW k \in 1..(i + 1), NEW x \in B(k)
         PROVE  f[i + 1].node[x] = bodies[k].node[x] /\ Up(f[i + 1])[x] = Hung(Plan(bodies[k]), parent, x)
    <3>1. CASE k \in 1..i
      BY <2>1, <2>2, <2>6, <2>9, <3>1
    <3>2. CASE k = i + 1
      BY <2>1, <2>6, <3>2
    <3> QED
      BY <3>1, <3>2
  <2>12. Tree(f[i + 1]) /\ Ids(f[i + 1]) = D \cup Spread(bodies, i + 1)
    BY <2>6, <2>7, <2>8
  <2> HIDE DEF D, B
  <2> QED
    BY <2>10, <2>11, <2>12
<1> HIDE DEF Q
<1>5. Nat \subseteq Q
  BY <1>3, <1>4, InductionSet
<1>6. Good(n)
  <2>1. n \in Q
    BY <1>1, <1>5
  <2> HIDE DEF Good
  <2> QED
    BY <1>1, <2>1 DEF Q
<1>7. PICK new : new = GraftAll(page, bodies, parent)
  OBVIOUS
<1>8. f[n] = new
  BY <1>2, <1>7 DEF GraftAllRun
<1>9. PICK a, b, S : a = Outline(page) /\ b = Bunch(bodies) /\ S = Spread(bodies, n)
  OBVIOUS
<1>10. /\ a.node = page.node /\ a.up = Up(page) /\ DOMAIN a.node = D
       /\ DOMAIN b.node = S
  BY <1>9 DEF Outline, Ids, Bunch
<1>11. /\ Tree(new) /\ DOMAIN new.node = D \cup S /\ DOMAIN Up(new) = D \cup S
       /\ \A x \in D : new.node[x] = a.node[x] /\ Up(new)[x] = a.up[x]
  BY <1>6, <1>8, <1>9, <1>10 DEF Ids, Up
<1>12. D \cap S = {}
  BY <1>1, <1>9 DEF Spread
<1>13. ASSUME NEW x \in S PROVE new.node[x] = b.node[x] /\ Up(new)[x] = Hung(b, parent, x)
  <2>1. PICK k \in 1..n : x \in B(k)
    BY <1>9 DEF Spread
  <2>2. new.node[x] = bodies[k].node[x] /\ Up(new)[x] = Hung(Plan(bodies[k]), parent, x)
    BY <1>6, <1>8, <2>1
  <2>3. b.node[x] = bodies[k].node[x] /\ b.up[x] = Plan(bodies[k]).up[x]
    BY <1>1, <1>9, <2>1, BunchIs
  <2> QED
    BY <2>2, <2>3 DEF Hung
<1> HIDE DEF D, B, Good
<1>14. /\ Planted(a, b, parent).node = [x \in D \cup S |-> IF x \in S THEN b.node[x] ELSE a.node[x]]
       /\ Planted(a, b, parent).up = [x \in D \cup S |-> IF x \in S THEN Hung(b, parent, x) ELSE a.up[x]]
       /\ Planted(a, b, parent) = [node |-> Planted(a, b, parent).node, up |-> Planted(a, b, parent).up]
  BY <1>10 DEF Planted
<1>15. new.node = [x \in D \cup S |-> new.node[x]] /\ Up(new) = [x \in D \cup S |-> Up(new)[x]]
  <2>1. new.node = [x \in DOMAIN new.node |-> new.node[x]]
    <3>1. Outline(new).node = new.node /\ Sound(Outline(new))
      BY <1>11, TreeIs
    <3> QED
      BY <3>1 DEF Sound
  <2> QED
    BY <1>11, <2>1 DEF Up
<1>16. Outline(new) = [node |-> new.node, up |-> Up(new)]
  BY DEF Outline
<1>17. new.node = Planted(a, b, parent).node
  BY <1>11, <1>12, <1>13, <1>14, <1>15
<1>18. Up(new) = Planted(a, b, parent).up
  BY <1>11, <1>12, <1>13, <1>14, <1>15
<1> QED
  BY <1>7, <1>9, <1>11, <1>14, <1>16, <1>17, <1>18

-----------------------------------------------------------------------------
\* A new node alone, and an id's place beside another one.
Alone(x, rec) == [node |-> [y \in {x} |-> rec], up |-> [y \in {x} |-> Root]]
Home(a, e) == IF Has(a, e.after) THEN a.up[e.after] ELSE e.parent
\* Root inks, taken off the page with nothing else.
Loose(a, ids) == [node |-> [x \in Range(ids) |-> a.node[x]], up |-> [x \in Range(ids) |-> Root]]

(***************************************************************************)
(* Where an edit can be applied, and what it makes of an outline.          *)
(***************************************************************************)
FitsAppend(a, e) ==
    /\ e.id \in Nat \ {Root} /\ ~Has(a, e.id) /\ e.rec \in InkNode
    /\ Home(a, e) \in DOMAIN a.node \cup {Root}
    /\ Home(a, e) # Root => Holds(a.node[Home(a, e)].kind, "ink")
FitsRemove(a, e) == Has(a, e.id)
FitsMove(a, body, parent, index) ==
    /\ BodyOK(body) /\ index \in Nat \ {0}
    /\ parent \in (DOMAIN a.node \ Below(a.up, DOMAIN body.node)) \cup {Root}
    /\ parent # Root => Holds(a.node[parent].kind, body.node[body.top].kind)
FitsReparent(a, e) ==
    /\ Has(a, e.id) /\ e.parent \in (DOMAIN a.node \ Below(a.up, {e.id})) \cup {Root}
    /\ e.parent # Root => Holds(a.node[e.parent].kind, a.node[e.id].kind)
AtTop(a, ids) ==
    /\ ids \in Seq(DOMAIN a.node) /\ OneOnly(ids) /\ \A i \in DOMAIN ids : a.up[ids[i]] = Root
FitsGroup(a, e) ==
    /\ e.id \in Nat \ {Root} /\ ~Has(a, e.id) /\ e.rec \in BoxNode
    /\ AtTop(a, e.captured) /\ Bundle(e.bodies)
    /\ \A i \in DOMAIN e.bodies :
          /\ DOMAIN e.bodies[i].node \cap DOMAIN a.node \subseteq Below(a.up, Range(e.captured))
          /\ e.id \notin DOMAIN e.bodies[i].node
FitsJoin(a, e) == Of(a, e.box, "box") /\ Of(a, e.id, "ink")
FitsConnector(a, e) ==
    /\ e.id \in Nat \ {Root} /\ ~Has(a, e.id) /\ e.rec \in ConnNode
    /\ AtTop(a, e.captured) /\ \A i \in DOMAIN e.captured : a.node[e.captured[i]].kind = "ink"
FitsEndpoint(a, e) == Of(a, e.id, "conn") /\ e.strokes \in Seq(Interval) /\ e.fromEnd \in BOOLEAN
FitsSamples(a, e) == Of(a, e.id, "ink") /\ e.lo \in Int /\ e.hi \in Int /\ e.lo <= e.hi
FitsTransform(a, e) == Of(a, e.id, "box") /\ e.at \in Int

AfterAppend(a, e) == Planted(a, Alone(e.id, e.rec), Home(a, e))
AfterMove(a, body, parent) == Planted(Pruned(a, DOMAIN body.node), Plan(body), parent)
AfterReparent(a, e) == Planted(Pruned(a, Below(a.up, {e.id})), Part(a, e.id), e.parent)
AfterGroup(a, e) ==
    Planted(Planted(Pruned(a, Range(e.captured)), Alone(e.id, e.rec), Root), Bunch(e.bodies), e.id)
AfterJoin(a, e) ==
    Planted(Pruned(a, {e.id}), Alone(e.id, Localized(a.node[e.id], a.node[e.box].at)), e.box)
AfterConnector(a, e) ==
    Planted(Planted(Pruned(a, Range(e.captured)), Alone(e.id, e.rec), Root), Loose(a, e.captured), e.id)
AfterEndpoint(a, e) ==
    [node |-> [x \in DOMAIN a.node |->
        IF x = e.id THEN (IF e.fromEnd THEN [a.node[x] EXCEPT !.fromInk = e.strokes]
                          ELSE [a.node[x] EXCEPT !.toInk = e.strokes])
        ELSE a.node[x]], up |-> a.up]
Resampled(n, e) == [n EXCEPT !.lo = e.lo, !.hi = e.hi]
AfterSamples(a, e) ==
    [node |-> [x \in DOMAIN a.node |-> IF x = e.id THEN Resampled(a.node[x], e) ELSE a.node[x]],
     up |-> a.up]
AfterTransform(a, e) ==
    [node |-> [x \in DOMAIN a.node |->
        IF x = e.id THEN [a.node[x] EXCEPT !.at = e.at] ELSE a.node[x]], up |-> a.up]

Fits(a, e) ==
    \/ e.kind = "append_ink" /\ FitsAppend(a, e)
    \/ e.kind = "remove_node" /\ FitsRemove(a, e)
    \/ e.kind = "restore" /\ FitsMove(a, e.body, e.parent, e.index)
    \/ e.kind = "reparent" /\ FitsReparent(a, e)
    \/ e.kind = "create_smart_group" /\ FitsGroup(a, e)
    \/ e.kind = "join_smart_group" /\ FitsJoin(a, e)
    \/ e.kind = "create_connector" /\ FitsConnector(a, e)
    \/ e.kind = "set_endpoint_ink" /\ FitsEndpoint(a, e)
    \/ e.kind = "set_ink_samples" /\ FitsSamples(a, e)
    \/ e.kind = "set_smart_transform" /\ FitsTransform(a, e)
After(a, e) ==
    CASE e.kind = "append_ink" -> AfterAppend(a, e)
      [] e.kind = "remove_node" -> Pruned(a, {e.id})
      [] e.kind = "restore" -> AfterMove(a, e.body, e.parent)
      [] e.kind = "reparent" -> AfterReparent(a, e)
      [] e.kind = "create_smart_group" -> AfterGroup(a, e)
      [] e.kind = "join_smart_group" -> AfterJoin(a, e)
      [] e.kind = "create_connector" -> AfterConnector(a, e)
      [] e.kind = "set_endpoint_ink" -> AfterEndpoint(a, e)
      [] e.kind = "set_ink_samples" -> AfterSamples(a, e)
      [] e.kind = "set_smart_transform" -> AfterTransform(a, e)

\* r is the outcome of an edit that made b of a page.
Made(r, b) == r.ok /\ Tree(r.page) /\ Outline(r.page) = b

-----------------------------------------------------------------------------
\* The fields of a record that is an ink, a box, a connector.
InkFields == {"kind", "lo", "hi", "loop", "role", "last"}
BoxFields == {"kind", "at", "w", "last"}
ConnFields == {"kind", "from", "to", "fromAt", "toAt", "p", "q", "fromInk", "toInk", "last"}
Record(n, fields) == DOMAIN n = fields /\ n = [f \in fields |-> n[f]]

\* An ink by its fields.
LEMMA InkIs ==
  ASSUME NEW n
  PROVE  n \in InkNode <=> /\ Record(n, InkFields) /\ n.kind = "ink" /\ n.lo \in Int /\ n.hi \in Int
                           /\ n.lo <= n.hi /\ n.loop \in BOOLEAN
                           /\ n.role \in {"none", "boundary", "content"} /\ n.last \in Nat
<1>1. ASSUME n \in InkNode
      PROVE  /\ Record(n, InkFields) /\ n.kind = "ink" /\ n.lo \in Int /\ n.hi \in Int
             /\ n.lo <= n.hi /\ n.loop \in BOOLEAN
             /\ n.role \in {"none", "boundary", "content"} /\ n.last \in Nat
  BY <1>1 DEF InkNode, Record, InkFields
<1>2. ASSUME Record(n, InkFields), n.kind = "ink", n.lo \in Int, n.hi \in Int,
             n.lo <= n.hi, n.loop \in BOOLEAN,
             n.role \in {"none", "boundary", "content"}, n.last \in Nat
      PROVE  n \in InkNode
  <2>1. n = [kind |-> n.kind, lo |-> n.lo, hi |-> n.hi, loop |-> n.loop, role |-> n.role, last |-> n.last]
    BY <1>2 DEF Record, InkFields
  <2> QED
    BY <1>2, <2>1 DEF InkNode
<1> QED
  BY <1>1, <1>2
\* A box by its fields.
LEMMA BoxIs ==
  ASSUME NEW n
  PROVE  n \in BoxNode <=> /\ Record(n, BoxFields) /\ n.kind = "box" /\ n.at \in Int /\ n.w \in Int
                           /\ n.last \in Nat
<1>1. ASSUME n \in BoxNode
      PROVE  /\ Record(n, BoxFields) /\ n.kind = "box" /\ n.at \in Int /\ n.w \in Int /\ n.last \in Nat
  BY <1>1 DEF BoxNode, Record, BoxFields
<1>2. ASSUME Record(n, BoxFields), n.kind = "box", n.at \in Int, n.w \in Int, n.last \in Nat
      PROVE  n \in BoxNode
  <2>1. n = [kind |-> n.kind, at |-> n.at, w |-> n.w, last |-> n.last]
    BY <1>2 DEF Record, BoxFields
  <2> QED
    BY <1>2, <2>1 DEF BoxNode
<1> QED
  BY <1>1, <1>2
\* A connector by its fields.
LEMMA ConnIs ==
  ASSUME NEW n
  PROVE  n \in ConnNode <=> /\ Record(n, ConnFields) /\ n.kind = "conn" /\ n.from \in Nat /\ n.to \in Nat
                            /\ n.fromAt \in Int /\ n.toAt \in Int /\ n.p \in Int /\ n.q \in Int
                            /\ n.fromInk \in Seq(Interval) /\ n.toInk \in Seq(Interval) /\ n.last \in Nat
<1>1. ASSUME n \in ConnNode
      PROVE  /\ Record(n, ConnFields) /\ n.kind = "conn" /\ n.from \in Nat /\ n.to \in Nat
             /\ n.fromAt \in Int /\ n.toAt \in Int /\ n.p \in Int /\ n.q \in Int
             /\ n.fromInk \in Seq(Interval) /\ n.toInk \in Seq(Interval) /\ n.last \in Nat
  BY <1>1 DEF ConnNode, Record, ConnFields
<1>2. ASSUME Record(n, ConnFields), n.kind = "conn", n.from \in Nat, n.to \in Nat,
             n.fromAt \in Int, n.toAt \in Int, n.p \in Int, n.q \in Int,
             n.fromInk \in Seq(Interval), n.toInk \in Seq(Interval), n.last \in Nat
      PROVE  n \in ConnNode
  <2>1. n = [kind |-> n.kind, from |-> n.from, to |-> n.to, fromAt |-> n.fromAt, toAt |-> n.toAt,
             p |-> n.p, q |-> n.q, fromInk |-> n.fromInk, toInk |-> n.toInk, last |-> n.last]
    BY <1>2 DEF Record, ConnFields
  <2> QED
    BY <1>2, <2>1 DEF ConnNode
<1> QED
  BY <1>1, <1>2

\* What a kind says of a node.
LEMMA KindIs ==
  ASSUME NEW n \in Node
  PROVE  /\ n.kind \in {"ink", "box", "conn"} /\ n.last \in Nat
         /\ n.kind = "ink" => n \in InkNode
         /\ n.kind = "box" => n \in BoxNode
         /\ n.kind = "conn" => n \in ConnNode
BY InkIs, BoxIs, ConnIs DEF Node

\* An ink in the space of a box is an ink.
LEMMA LocalizedIs ==
  ASSUME NEW n \in InkNode, NEW d \in Int
  PROVE  Localized(n, d) \in InkNode /\ Localized(n, d).kind = "ink"
<1>1. PICK m : m = Localized(n, d)
  OBVIOUS
<1>2. /\ Record(n, InkFields) /\ n.kind = "ink" /\ n.lo \in Int /\ n.hi \in Int
      /\ n.lo <= n.hi /\ n.loop \in BOOLEAN /\ n.last \in Nat
  BY InkIs
<1>3. Record(m, InkFields) /\ m.kind = n.kind /\ m.lo = n.lo - d /\ m.hi = n.hi - d /\ m.loop = n.loop
      /\ m.role = "content" /\ m.last = n.last
  BY <1>1, <1>2 DEF Localized, Record, InkFields
<1>4. m.lo <= m.hi /\ m.lo \in Int /\ m.hi \in Int
  BY <1>2, <1>3
<1> QED
  BY <1>1, <1>2, <1>3, <1>4, InkIs

\* A page and its outline have the same nodes.
LEMMA OutlineIs ==
  ASSUME NEW page
  PROVE  /\ Outline(page).node = page.node /\ Outline(page).up = Up(page)
         /\ DOMAIN Outline(page).node = Ids(page) /\ DOMAIN Up(page) = Ids(page)
         /\ \A x : Has(Outline(page), x) <=> Has(page, x)
         /\ \A x : Has(page, x) <=> x \in Ids(page)
         /\ \A x, kind : Of(Outline(page), x, kind) <=> Of(page, x, kind)
BY DEF Outline, Up, Ids, Has, Of

\* New records of the same kinds leave a tree one.
LEMMA NewNodes ==
  ASSUME NEW page, Tree(page), NEW node \in [Ids(page) -> Node],
         \A x \in Ids(page) : node[x].kind = page.node[x].kind,
         NEW new, new = [node |-> node, kids |-> page.kids]
  PROVE  Tree(new) /\ Outline(new) = [node |-> node, up |-> Up(page)] /\ Ids(new) = Ids(page)
<1> DEFINE D == Ids(page)
<1>1. /\ DOMAIN new.node = D /\ Ids(new) = D /\ new.kids = page.kids /\ new.node = node
      /\ new = [node |-> new.node, kids |-> new.kids]
  BY DEF Ids
<1>2. Placed(page) /\ Sound(Outline(page)) /\ Outline(page).node = page.node /\ Outline(page).up = Up(page)
      /\ DOMAIN page.node = D
  BY TreeIs
<1>3. Placed(new)
  <2>1. /\ DOMAIN page.kids = D \cup {Root}
        /\ \A q \in DOMAIN page.kids : page.kids[q] \in Seq(D) /\ OneOnly(page.kids[q])
        /\ \A x \in D : \E q \in DOMAIN page.kids : x \in Range(page.kids[q])
        /\ \A q, r \in DOMAIN page.kids :
              Range(page.kids[q]) \cap Range(page.kids[r]) # {} => q = r
    BY <1>2 DEF Placed
  <2> HIDE DEF D
  <2> QED
    BY <1>1, <2>1 DEF Placed
<1>4. Up(new) = Up(page)
  BY <1>1 DEF Up, ParentOf
<1>5. Outline(new) = [node |-> node, up |-> Up(page)]
  BY <1>1, <1>4 DEF Outline
<1>6. Sound(Outline(new))
  <2>1. PICK a : a = Outline(page)
    OBVIOUS
  <2>2. /\ IsFiniteSet(D) /\ D \subseteq Nat \ {Root}
        /\ Up(page) \in [D -> D \cup {Root}] /\ Founded(Up(page))
        /\ \A x \in D : Up(page)[x] # Root => Holds(page.node[Up(page)[x]].kind, page.node[x].kind)
    BY <1>2 DEF Sound
  <2>3. \A x \in D : Up(page)[x] # Root => Holds(node[Up(page)[x]].kind, node[x].kind)
    BY <2>2
  <2> QED
    BY <1>5, <2>2, <2>3 DEF Sound
<1> QED
  BY <1>1, <1>3, <1>5, <1>6 DEF Tree

\* What is below what is below S is below S.
LEMMA BelowTwice ==
  ASSUME NEW up, NEW S
  PROVE  Below(up, Below(up, S)) = Below(up, S)
<1>1. Below(up, S) \subseteq Below(up, Below(up, S))
  <2>1. Below(up, S) \cap DOMAIN up \subseteq Below(up, Below(up, S)) /\ Below(up, S) \subseteq DOMAIN up
    BY BelowIs
  <2> QED
    BY <2>1
<1>2. Below(up, Below(up, S)) \subseteq Below(up, S)
  <2>1. \A z \in DOMAIN up : up[z] \in Below(up, S) => z \in Below(up, S)
    BY BelowIs
  <2>2. Below(up, S) \cap DOMAIN up \subseteq Below(up, S)
    OBVIOUS
  <2> QED
    BY <2>1, <2>2, BelowLeast
<1> QED
  BY <1>1, <1>2

\* What Forget leaves.
LEMMA ForgetIs ==
  ASSUME NEW page, Tree(page), NEW S
  PROVE  /\ Tree(Forget(page, S)) /\ Outline(Forget(page, S)) = Pruned(Outline(page), S)
         /\ Ids(Forget(page, S)) = Ids(page) \ Below(Up(page), S)
         /\ \A x \in Ids(page) \ Below(Up(page), S) :
               Forget(page, S).node[x] = page.node[x] /\ Up(Forget(page, S))[x] = Up(page)[x]
<1>1. PICK left, a, K : left = Forget(page, S) /\ a = Outline(page) /\ K = Ids(page) \ Below(Up(page), S)
  OBVIOUS
<1>2. Tree(left) /\ Outline(left) = Pruned(a, S)
  BY <1>1, ForgetTree
<1>3. a.node = page.node /\ a.up = Up(page) /\ DOMAIN a.node = Ids(page)
  BY <1>1, OutlineIs
<1>4. Outline(left).node = left.node /\ Outline(left).up = Up(left) /\ DOMAIN left.node = Ids(left)
  BY OutlineIs DEF Ids
<1>5. left.node = Restrict(page.node, K) /\ Up(left) = Restrict(Up(page), K)
  BY <1>1, <1>2, <1>3, <1>4 DEF Pruned
<1> QED
  BY <1>1, <1>2, <1>4, <1>5 DEF Restrict

\* Nothing hangs below an ink, and no root id below another id.
LEMMA BelowInk ==
  ASSUME NEW a, Sound(a), NEW x \in DOMAIN a.node, a.node[x].kind = "ink"
  PROVE  Below(a.up, {x}) = {x}
<1>1. DOMAIN a.up = DOMAIN a.node /\ Root \notin DOMAIN a.node
  BY SoundIs
<1>2. \A z \in DOMAIN a.up : a.up[z] # x
  BY <1>1 DEF Sound, Holds
<1>3. Below(a.up, {x}) \subseteq {x}
  <2>1. {x} \cap DOMAIN a.up \subseteq {x} /\ \A z \in DOMAIN a.up : a.up[z] \in {x} => z \in {x}
    BY <1>2
  <2> QED
    BY <2>1, BelowLeast
<1>4. x \in Below(a.up, {x})
  BY <1>1, BelowIs
<1> QED
  BY <1>3, <1>4

\* A root node is below no other.
LEMMA BelowTop ==
  ASSUME NEW a, Sound(a), NEW x \in DOMAIN a.node, a.up[x] = Root, NEW S, x \notin S
  PROVE  x \notin Below(a.up, S)
BY SoundIs, BelowIs

\* Moving a body: detach what it brings, put it in.
LEMMA MoveIs ==
  ASSUME NEW page, Tree(page), NEW body, NEW parent, NEW index, FitsMove(Outline(page), body, parent, index)
  PROVE  Made(ApplyMove(page, body, parent, index), AfterMove(Outline(page), body, parent))
<1> DEFINE D == Ids(page)
           B == DOMAIN body.node
           out == Below(Up(page), B)
<1>1. PICK left : left = Forget(page, B)
  OBVIOUS
<1>2. Tree(left) /\ Outline(left) = Pruned(Outline(page), B)
  BY <1>1, ForgetTree
<1>3. Ids(left) = D \ out /\ \A x \in D \ out : left.node[x] = page.node[x]
  BY <1>1, ForgetIs
<1>4. B \cap D \subseteq out
  BY OutlineIs, BelowIs
<1>5. /\ BodyOK(body) /\ index \in Nat \ {0} /\ parent \in (D \ out) \cup {Root}
      /\ parent # Root => Holds(page.node[parent].kind, body.node[body.top].kind)
  BY OutlineIs DEF FitsMove
<1> HIDE DEF D, B, out
<1>6. Ids(left) \cap B = {} /\ parent \in Ids(left) \cup {Root}
      /\ (parent # Root => Holds(left.node[parent].kind, body.node[body.top].kind))
  BY <1>3, <1>4, <1>5
<1>7. /\ Tree(Graft(left, body, parent, index))
      /\ Outline(Graft(left, body, parent, index)) = Planted(Outline(left), Plan(body), parent)
  BY <1>2, <1>5, <1>6, GraftTree DEF B
<1>8. parent \in DOMAIN left.kids
  BY <1>2, <1>6, TreeIs
<1>9. ApplyMove(page, body, parent, index) = Done(Graft(left, body, parent, index))
  BY <1>1, <1>8 DEF ApplyMove, GraftOrThrow, B
<1> QED
  BY <1>2, <1>7, <1>9 DEF Made, Done, AfterMove, B

\* Where it cannot go, it is lost.
LEMMA MoveLost ==
  ASSUME NEW page, Tree(page), NEW body, NEW parent, NEW index,
         parent \notin (Ids(page) \ Below(Up(page), DOMAIN body.node)) \cup {Root}
  PROVE  /\ ~ApplyMove(page, body, parent, index).ok
         /\ Tree(ApplyMove(page, body, parent, index).page)
         /\ Outline(ApplyMove(page, body, parent, index).page) = Pruned(Outline(page), DOMAIN body.node)
<1>1. PICK left : left = Forget(page, DOMAIN body.node)
  OBVIOUS
<1>2. Tree(left) /\ Outline(left) = Pruned(Outline(page), DOMAIN body.node)
  BY <1>1, ForgetTree
<1>3. Ids(left) = Ids(page) \ Below(Up(page), DOMAIN body.node)
  BY <1>2, OutlineIs DEF Pruned, Restrict
<1>4. parent \notin DOMAIN left.kids
  BY <1>2, <1>3, TreeIs
<1>5. ApplyMove(page, body, parent, index) = Threw(left)
  BY <1>1, <1>4 DEF ApplyMove, GraftOrThrow
<1> QED
  BY <1>2, <1>5 DEF Threw

\* A leaf is a body of one node.
LEMMA LeafIs ==
  ASSUME NEW x \in Nat \ {0}, NEW rec \in Node
  PROVE  /\ BodyOK(Leaf(x, rec)) /\ Leaf(x, rec).top = x /\ DOMAIN Leaf(x, rec).node = {x}
         /\ Leaf(x, rec).node[Leaf(x, rec).top] = rec
         /\ Plan(Leaf(x, rec)) = Alone(x, rec)
<1>1. PICK leaf : leaf = Leaf(x, rec)
  OBVIOUS
<1>2. /\ BodyOK(leaf) /\ leaf.top = x /\ DOMAIN leaf.node = {x} /\ leaf.node = [y \in {x} |-> rec]
      /\ Plan(leaf) = [node |-> [y \in {x} |-> rec], up |-> [y \in {x} |-> Root]]
  BY <1>1, LeafTree
<1> QED
  BY <1>1, <1>2 DEF Alone

\* appendInk, on a page where it fits.
LEMMA AppendFits ==
  ASSUME NEW page, Tree(page), NEW e, FitsAppend(Outline(page), e)
  PROVE  Made(ApplyAppend(page, e), AfterAppend(Outline(page), e))
<1> DEFINE beside == Has(page, e.after)
           parent == IF beside THEN ParentOf(page, e.after) ELSE e.parent
           index == IF beside THEN Place(page, e.after).index + 1 ELSE AtEnd
           new == Graft(page, Leaf(e.id, e.rec), parent, index)
<1>1. Home(Outline(page), e) = parent
  BY OutlineIs, PlaceOf, TreeIs DEF Home
<1>2. /\ e.id \in Nat \ {0} /\ e.id \notin Ids(page) /\ e.rec \in InkNode /\ parent \in Ids(page) \cup {Root}
      /\ parent # Root => Holds(page.node[parent].kind, "ink")
  BY <1>1, OutlineIs DEF FitsAppend, Root
<1>3. index \in Nat \ {0}
  <2>1. CASE beside
    <3>1. PICK q : q = ParentOf(page, e.after)
      OBVIOUS
    <3>2. e.after \in Ids(page) /\ Placed(page)
      BY <2>1, OutlineIs, TreeIs
    <3>3. e.after \in Range(page.kids[q]) /\ q \in Ids(page) \cup {Root}
      BY <3>1, <3>2, PlaceOf
    <3>4. page.kids[q] \in Seq(Ids(page))
      BY <3>2, <3>3, KidsUp
    <3>5. \E i \in DOMAIN page.kids[q] : page.kids[q][i] = e.after
      BY <3>3 DEF Range
    <3>6. Place(page, e.after).index \in DOMAIN page.kids[q]
      BY <3>1, <3>5 DEF Place
    <3> QED
      BY <2>1, <3>4, <3>6
  <2>2. CASE ~beside
    BY <2>2 DEF AtEnd
  <2> QED
    BY <2>1, <2>2
<1>4. PICK leaf : leaf = Leaf(e.id, e.rec)
  OBVIOUS
<1>5. e.rec \in Node /\ e.rec.kind = "ink"
  BY <1>2 DEF Node, InkNode
<1>6. /\ BodyOK(leaf) /\ leaf.top = e.id /\ DOMAIN leaf.node = {e.id} /\ leaf.node[leaf.top] = e.rec
      /\ Plan(leaf) = Alone(e.id, e.rec)
  BY <1>2, <1>4, <1>5, LeafIs
<1> HIDE DEF index, parent
<1>7. Tree(new) /\ Outline(new) = Planted(Outline(page), Plan(leaf), parent)
  BY <1>2, <1>3, <1>4, <1>5, <1>6, GraftTree
<1>8. ApplyAppend(page, e) = Done(new)
  <2>1. Has(page, e.id) <=> e.id \in Ids(page)
    BY OutlineIs
  <2>2. parent \in DOMAIN page.kids
    BY <1>2, TreeIs
  <2> QED
    BY <1>2, <2>1, <2>2 DEF ApplyAppend, Place, index, parent
<1> QED
  BY <1>1, <1>6, <1>7, <1>8 DEF Made, Done, AfterAppend

\* removeNode, on a page where it fits.
LEMMA RemoveFits ==
  ASSUME NEW page, Tree(page), NEW e, FitsRemove(Outline(page), e)
  PROVE  Made(ApplyRemove(page, e), Pruned(Outline(page), {e.id}))
<1>1. Has(page, e.id)
  BY OutlineIs DEF FitsRemove
<1> QED
  BY <1>1, ForgetTree DEF ApplyRemove, Made, Done

\* reparent, on a page where it fits: not into its own subtree.
LEMMA ReparentFits ==
  ASSUME NEW page, Tree(page), NEW e, FitsReparent(Outline(page), e)
  PROVE  Made(ApplyReparent(page, e), AfterReparent(Outline(page), e))
<1> DEFINE B == Below(Up(page), {e.id})
<1>1. PICK body : body = Body(page, e.id)
  OBVIOUS
<1>2. e.id \in Ids(page) /\ e.parent \in (Ids(page) \ B) \cup {Root}
      /\ (e.parent # Root => Holds(page.node[e.parent].kind, page.node[e.id].kind))
  BY OutlineIs DEF FitsReparent
<1>3. /\ BodyOK(body) /\ body.top = e.id /\ Plan(body) = Part(Outline(page), e.id)
      /\ DOMAIN body.node = B /\ body.node = Restrict(page.node, B)
  BY <1>1, <1>2, BodyTree
<1>4. body.node[body.top] = page.node[e.id]
  BY <1>2, <1>3, OutlineIs, BelowIs DEF Restrict
<1>5. Below(Up(page), DOMAIN body.node) = B
  BY <1>3, BelowTwice
<1>6. FitsMove(Outline(page), body, e.parent, AtEnd)
  BY <1>2, <1>3, <1>4, <1>5, OutlineIs DEF FitsMove, AtEnd
<1>7. Made(ApplyMove(page, body, e.parent, AtEnd), AfterMove(Outline(page), body, e.parent))
  BY <1>6, MoveIs
<1>8. AfterMove(Outline(page), body, e.parent) = AfterReparent(Outline(page), e)
  BY <1>3, OutlineIs DEF AfterMove, AfterReparent
<1>9. Has(page, e.id)
  BY <1>2, OutlineIs
<1> QED
  BY <1>1, <1>7, <1>8, <1>9 DEF ApplyReparent

\* joinSmartGroup, on a page where it fits.
LEMMA JoinFits ==
  ASSUME NEW page, Tree(page), NEW e, FitsJoin(Outline(page), e)
  PROVE  Made(ApplyJoin(page, e), AfterJoin(Outline(page), e))
<1> DEFINE x == e.id
           rec == Localized(page.node[x], page.node[e.box].at)
<1>1. PICK left : left = Forget(page, {x})
  OBVIOUS
<1>2. Of(page, e.box, "box") /\ Of(page, x, "ink") /\ x \in Ids(page) /\ e.box \in Ids(page)
      /\ page.node[x].kind = "ink" /\ page.node[e.box].kind = "box" /\ e.box # x
  <2>1. Of(page, e.box, "box") /\ Of(page, x, "ink")
    BY OutlineIs DEF FitsJoin
  <2> QED
    BY <2>1 DEF Of, Has
<1>3. Tree(left) /\ Outline(left) = Pruned(Outline(page), {x})
  BY <1>1, ForgetTree
<1>4. Below(Up(page), {x}) = {x}
  <2>1. /\ Sound(Outline(page)) /\ Outline(page).node = page.node /\ Outline(page).up = Up(page)
        /\ DOMAIN page.node = Ids(page)
    BY TreeIs
  <2> QED
    BY <1>2, <2>1, BelowInk
<1>5. /\ Ids(left) = Ids(page) \ {x}
      /\ \A y \in Ids(page) \ {x} : left.node[y] = page.node[y]
  <2>1. /\ Ids(left) = Ids(page) \ Below(Up(page), {x})
        /\ \A y \in Ids(page) \ Below(Up(page), {x}) : left.node[y] = page.node[y]
    BY <1>1, ForgetIs
  <2> QED
    BY <1>4, <2>1
<1>6. rec \in InkNode
  <2>1. page.node[x] \in InkNode /\ page.node[e.box].at \in Int
    BY <1>2, TreeIs, KindIs, BoxIs
  <2> QED
    BY <2>1, LocalizedIs
<1>7. x \in Nat \ {0} /\ rec \in Node /\ rec.kind = "ink"
  BY <1>2, <1>6, TreeIs, InkIs DEF Node, Root
<1>8. PICK leaf : leaf = Leaf(x, rec)
  OBVIOUS
<1> HIDE DEF rec
<1>9. /\ BodyOK(leaf) /\ leaf.top = x /\ DOMAIN leaf.node = {x} /\ leaf.node[leaf.top] = rec
      /\ Plan(leaf) = Alone(x, rec)
  BY <1>7, <1>8, LeafIs
<1>10. Holds(left.node[e.box].kind, leaf.node[leaf.top].kind) /\ e.box \in Ids(left) /\ AtEnd \in Nat \ {0}
  BY <1>2, <1>5 DEF Holds, AtEnd
<1>11. /\ Tree(Graft(left, leaf, e.box, AtEnd))
       /\ Outline(Graft(left, leaf, e.box, AtEnd)) = Planted(Outline(left), Plan(leaf), e.box)
  BY <1>3, <1>5, <1>9, <1>10, GraftTree
<1>12. ApplyJoin(page, e) = Done(Graft(left, leaf, e.box, AtEnd))
  BY <1>1, <1>2, <1>5, <1>8 DEF ApplyJoin, rec
<1> QED
  BY <1>3, <1>9, <1>11, <1>12, OutlineIs DEF Made, Done, AfterJoin, rec

-----------------------------------------------------------------------------
\* Below grows with the set.
LEMMA BelowSome ==
  ASSUME NEW up, NEW S, NEW T, S \subseteq T
  PROVE  Below(up, S) \subseteq Below(up, T)
<1>1. S \cap DOMAIN up \subseteq Below(up, T) /\ \A z \in DOMAIN up : up[z] \in Below(up, T) => z \in Below(up, T)
  BY BelowIs
<1> QED
  BY <1>1, BelowLeast

\* What is taken off a page together, and the new node that follows.
LEMMA ClearedIs ==
  ASSUME NEW page, Tree(page), NEW ids, AtTop(Outline(page), ids), NEW x \in Nat \ {0}, NEW rec \in Node,
         x \notin Ids(page)
  PROVE  LET left == Forget(page, Range(ids))
             bare == Graft(left, Leaf(x, rec), Root, AtEnd)
             out == Below(Up(page), Range(ids))
         IN  /\ \A i \in DOMAIN ids : ids[i] \in Ids(page)
             /\ Tree(bare) /\ Ids(bare) = (Ids(page) \ out) \cup {x} /\ bare.node[x] = rec
             /\ \A y \in Ids(page) \ out : bare.node[y] = page.node[y]
             /\ Outline(bare) = Planted(Pruned(Outline(page), Range(ids)), Alone(x, rec), Root)
<1> DEFINE out == Below(Up(page), Range(ids))
<1>1. PICK left, leaf, bare : /\ left = Forget(page, Range(ids)) /\ leaf = Leaf(x, rec)
                              /\ bare = Graft(left, leaf, Root, AtEnd)
  OBVIOUS
<1>2. /\ Tree(left) /\ Outline(left) = Pruned(Outline(page), Range(ids))
      /\ Ids(left) = Ids(page) \ out
      /\ \A y \in Ids(page) \ out : left.node[y] = page.node[y]
  BY <1>1, ForgetIs
<1>3. /\ BodyOK(leaf) /\ leaf.top = x /\ DOMAIN leaf.node = {x} /\ leaf.node[leaf.top] = rec
      /\ Plan(leaf) = Alone(x, rec)
  BY <1>1, LeafIs
<1> HIDE DEF out
<1>4. Ids(left) \cap DOMAIN leaf.node = {} /\ Root \in Ids(left) \cup {Root} /\ AtEnd \in Nat \ {0}
  BY <1>2, <1>3 DEF AtEnd
<1>5. Tree(bare) /\ Outline(bare) = Planted(Outline(left), Plan(leaf), Root)
  BY <1>1, <1>2, <1>3, <1>4, GraftTree
<1>6. /\ Ids(bare) = Ids(left) \cup DOMAIN leaf.node
      /\ \A y \in Ids(left) : bare.node[y] = left.node[y]
      /\ \A y \in DOMAIN leaf.node : bare.node[y] = leaf.node[y]
  BY <1>1, <1>2, <1>3, <1>4, GraftIs
<1>7. \A i \in DOMAIN ids : ids[i] \in Ids(page)
  BY OutlineIs DEF AtTop
<1> QED
  BY <1>1, <1>2, <1>3, <1>5, <1>6, <1>7 DEF out

\* createSmartGroup, on a page where it fits.
LEMMA GroupFits ==
  ASSUME NEW page, Tree(page), NEW e, FitsGroup(Outline(page), e)
  PROVE  Made(ApplyCreateSmartGroup(page, e), AfterGroup(Outline(page), e))
<1> DEFINE out == Below(Up(page), Range(e.captured))
           ids == e.captured
           at(i) == SubSeq(ids, 1, i - 1)
           missing == {i \in DOMAIN ids : ~Has(Forget(page, Range(at(i))), ids[i])}
<1>1. /\ e.id \in Nat \ {0} /\ e.id \notin Ids(page) /\ e.rec \in BoxNode
      /\ AtTop(Outline(page), ids) /\ Bundle(e.bodies)
      /\ \A i \in DOMAIN e.bodies :
            /\ DOMAIN e.bodies[i].node \cap Ids(page) \subseteq out
            /\ e.id \notin DOMAIN e.bodies[i].node
  BY OutlineIs DEF FitsGroup, Root
<1>2. e.rec \in Node /\ e.rec.kind = "box"
  BY <1>1, BoxIs DEF Node
<1>3. PICK left, bare : /\ left = Forget(page, Range(ids))
                        /\ bare = Graft(left, Leaf(e.id, e.rec), Root, AtEnd)
  OBVIOUS
<1>4. /\ \A i \in DOMAIN ids : ids[i] \in Ids(page)
      /\ Tree(bare) /\ Ids(bare) = (Ids(page) \ out) \cup {e.id} /\ bare.node[e.id] = e.rec
      /\ Outline(bare) = Planted(Pruned(Outline(page), Range(ids)), Alone(e.id, e.rec), Root)
  BY <1>1, <1>2, <1>3, ClearedIs
<1>5. missing = {}
  <2> SUFFICES ASSUME NEW i \in DOMAIN ids PROVE Has(Forget(page, Range(at(i))), ids[i])
    OBVIOUS
  <2>1. PICK a, x, S : a = Outline(page) /\ x = ids[i] /\ S = Range(at(i))
    OBVIOUS
  <2>2. Sound(a) /\ a.up = Up(page) /\ DOMAIN a.node = Ids(page)
    BY <2>1, OutlineIs, TreeIs
  <2>3. ids \in Seq(Ids(page)) /\ OneOnly(ids) /\ a.up[x] = Root /\ x \in DOMAIN a.node
    BY <1>1, <2>1, <2>2, <1>4 DEF AtTop
  <2>4. x \notin S
    <3>1. Len(ids) \in Nat /\ DOMAIN ids = 1..Len(ids) /\ i \in 1..Len(ids)
      BY <2>3
    <3>2. \A j \in DOMAIN at(i) : \E k \in 1..Len(ids) : k # i /\ at(i)[j] = ids[k]
      <4>1. \A j \in 1..(i - 1) : ids[j] \in Ids(page)
        BY <2>3, <3>1
      <4>2. /\ at(i) \in Seq(Ids(page)) /\ Len(at(i)) = IF 1 <= i - 1 THEN i - 1 - 1 + 1 ELSE 0
            /\ \A j \in 1..(i - 1 - 1 + 1) : at(i)[j] = ids[1 + j - 1]
        BY <2>3, <3>1, <4>1, SubSeqProperties
      <4>3. i - 1 - 1 + 1 = i - 1 /\ (~(1 <= i - 1) => i - 1 = 0) /\ \A j \in 1..(i - 1) : 1 + j - 1 = j
        BY <3>1
      <4>4. PICK t : t = at(i)
        OBVIOUS
      <4>5. DOMAIN t = 1..(i - 1) /\ \A j \in 1..(i - 1) : t[j] = ids[j]
        BY <4>2, <4>3, <4>4
      <4> QED
        BY <3>1, <4>4, <4>5
    <3>3. \A k \in 1..Len(ids) : k # i => ids[k] # ids[i]
      BY <2>3, <3>1 DEF OneOnly
    <3> HIDE DEF at
    <3> QED
      BY <2>1, <3>1, <3>2, <3>3 DEF Range
  <2>5. x \notin Below(a.up, S)
    BY <2>2, <2>3, <2>4, BelowTop
  <2>6. x \in Ids(Forget(page, S))
    <3>1. Ids(Forget(page, S)) = Ids(page) \ Below(Up(page), S)
      BY ForgetIs
    <3> QED
      BY <2>2, <2>3, <2>5, <3>1
  <2> QED
    BY <2>1, <2>6 DEF Has
<1>6. \A i \in DOMAIN e.bodies :
         /\ Ids(bare) \cap DOMAIN e.bodies[i].node = {}
         /\ Holds(bare.node[e.id].kind, e.bodies[i].node[e.bodies[i].top].kind)
  BY <1>1, <1>2, <1>4 DEF Holds
<1>7. e.id \in Ids(bare)
  BY <1>4
<1>8. /\ Tree(GraftAll(bare, e.bodies, e.id))
      /\ Outline(GraftAll(bare, e.bodies, e.id)) = Planted(Outline(bare), Bunch(e.bodies), e.id)
  BY <1>1, <1>4, <1>6, <1>7, GraftAllTree
<1>9. ~Has(page, e.id)
  BY <1>1, OutlineIs
<1>10. ApplyCreateSmartGroup(page, e) = Done(GraftAll(bare, e.bodies, e.id))
  BY <1>3, <1>5, <1>9 DEF ApplyCreateSmartGroup
<1> QED
  BY <1>4, <1>8, <1>10 DEF Made, Done, AfterGroup

\* createConnector, on a page where it fits.
LEMMA ConnectorFits ==
  ASSUME NEW page, Tree(page), NEW e, FitsConnector(Outline(page), e)
  PROVE  Made(ApplyCreateConnector(page, e), AfterConnector(Outline(page), e))
<1> DEFINE out == Below(Up(page), Range(e.captured))
           ids == e.captured
<1>1. /\ e.id \in Nat \ {0} /\ e.id \notin Ids(page) /\ e.rec \in ConnNode
      /\ AtTop(Outline(page), ids) /\ \A i \in DOMAIN ids : page.node[ids[i]].kind = "ink"
  BY OutlineIs DEF FitsConnector, Root
<1>2. e.rec \in Node /\ e.rec.kind = "conn"
  BY <1>1, ConnIs DEF Node
<1>3. PICK left, bare, inks :
         /\ left = Forget(page, Range(ids)) /\ bare = Graft(left, Leaf(e.id, e.rec), Root, AtEnd)
         /\ inks = [i \in DOMAIN ids |-> Body(page, ids[i])]
  OBVIOUS
<1>4. /\ \A i \in DOMAIN ids : ids[i] \in Ids(page)
      /\ Tree(bare) /\ Ids(bare) = (Ids(page) \ out) \cup {e.id} /\ bare.node[e.id] = e.rec
      /\ Outline(bare) = Planted(Pruned(Outline(page), Range(ids)), Alone(e.id, e.rec), Root)
  BY <1>1, <1>2, <1>3, ClearedIs
<1>5. PICK a : a = Outline(page)
  OBVIOUS
<1>6. /\ Sound(a) /\ a.up = Up(page) /\ a.node = page.node /\ DOMAIN a.node = Ids(page)
      /\ DOMAIN a.up = Ids(page)
  BY <1>5, OutlineIs, TreeIs
<1>7. /\ ids \in Seq(Ids(page)) /\ OneOnly(ids) /\ Len(ids) \in Nat /\ DOMAIN ids = 1..Len(ids)
      /\ \A i \in DOMAIN ids : a.up[ids[i]] = Root
  BY <1>1, <1>5, <1>6 DEF AtTop
<1>8. ASSUME NEW i \in DOMAIN ids
      PROVE  /\ BodyOK(inks[i]) /\ inks[i].top = ids[i] /\ DOMAIN inks[i].node = {ids[i]}
             /\ inks[i].node[ids[i]] = page.node[ids[i]] /\ Plan(inks[i]).up[ids[i]] = Root
  <2>1. PICK x, b : x = ids[i] /\ b = Body(page, x)
    OBVIOUS
  <2>2. x \in Ids(page) /\ page.node[x].kind = "ink" /\ inks[i] = b
    BY <1>1, <1>3, <1>4, <2>1
  <2>3. Below(a.up, {x}) = {x}
    BY <1>6, <2>2, BelowInk
  <2>4. /\ BodyOK(b) /\ b.top = x /\ Plan(b) = Part(a, x) /\ DOMAIN b.node = {x}
        /\ b.node = Restrict(page.node, {x})
    BY <1>5, <1>6, <2>1, <2>2, <2>3, BodyTree
  <2>5. Plan(b).up[x] = Root
    BY <2>3, <2>4 DEF Part
  <2> QED
    BY <2>1, <2>2, <2>4, <2>5 DEF Restrict
<1>9. DOMAIN inks = 1..Len(ids) /\ Len(inks) = Len(ids) /\ inks \in Seq(Range(inks))
  BY <1>3, <1>7 DEF Range
<1>10. Bundle(inks)
  <2>1. \A i, j \in DOMAIN inks : DOMAIN inks[i].node \cap DOMAIN inks[j].node # {} => i = j
    BY <1>7, <1>8, <1>9 DEF OneOnly
  <2> QED
    BY <1>7, <1>8, <1>9, <2>1 DEF Bundle
<1>11. \A i \in DOMAIN inks :
          /\ Ids(bare) \cap DOMAIN inks[i].node = {}
          /\ Holds(bare.node[e.id].kind, inks[i].node[inks[i].top].kind)
  <2> TAKE i \in DOMAIN inks
  <2>1. ids[i] \in out
    <3>1. ids[i] \in Range(ids) \cap DOMAIN a.up
      BY <1>4, <1>6, <1>7, <1>9 DEF Range
    <3> QED
      BY <1>6, <3>1, BelowIs
  <2>2. ids[i] # e.id
    BY <1>1, <1>4, <1>7, <1>9
  <2> HIDE DEF out
  <2> QED
    BY <1>1, <1>2, <1>4, <1>7, <1>8, <1>9, <2>1, <2>2 DEF Holds
<1>12. e.id \in Ids(bare)
  BY <1>4
<1>13. /\ Tree(GraftAll(bare, inks, e.id))
       /\ Outline(GraftAll(bare, inks, e.id)) = Planted(Outline(bare), Bunch(inks), e.id)
  BY <1>4, <1>10, <1>11, <1>12, GraftAllTree
<1>14. Bunch(inks) = Loose(a, ids)
  <2>1. Spread(inks, Len(inks)) = Range(ids)
    BY <1>7, <1>8, <1>9 DEF Spread, Range
  <2>2. \A x \in Range(ids) : Bunch(inks).node[x] = a.node[x] /\ Bunch(inks).up[x] = Root
    <3> SUFFICES ASSUME NEW i \in DOMAIN ids
                 PROVE  Bunch(inks).node[ids[i]] = a.node[ids[i]] /\ Bunch(inks).up[ids[i]] = Root
      BY DEF Range
    <3> QED
      BY <1>6, <1>7, <1>8, <1>9, <1>10, BunchIs
  <2>3. /\ Bunch(inks) = [node |-> Bunch(inks).node, up |-> Bunch(inks).up]
        /\ Bunch(inks).node = [x \in Range(ids) |-> Bunch(inks).node[x]]
        /\ Bunch(inks).up = [x \in Range(ids) |-> Bunch(inks).up[x]]
    BY <2>1 DEF Bunch
  <2>4. Bunch(inks).node = [x \in Range(ids) |-> a.node[x]]
    BY <2>2, <2>3
  <2>5. Bunch(inks).up = [x \in Range(ids) |-> Root]
    BY <2>2, <2>3
  <2> QED
    BY <2>3, <2>4, <2>5 DEF Loose
<1>15. \A i \in DOMAIN ids : Of(page, ids[i], "ink")
  BY <1>1, <1>4, OutlineIs DEF Of
<1>16. ApplyCreateConnector(page, e) = Done(GraftAll(bare, inks, e.id))
  BY <1>3, <1>15 DEF ApplyCreateConnector
<1> QED
  BY <1>4, <1>5, <1>13, <1>14, <1>16 DEF Made, Done, AfterConnector

-----------------------------------------------------------------------------
\* A record of the same kind in the place of another.
LEMMA Recorded1 ==
  ASSUME NEW page, Tree(page), NEW x \in Ids(page), NEW rec \in Node, rec.kind = page.node[x].kind
  PROVE  /\ Tree([page EXCEPT !.node[x] = rec])
         /\ Outline([page EXCEPT !.node[x] = rec])
              = [node |-> [y \in Ids(page) |-> IF y = x THEN rec ELSE page.node[y]], up |-> Up(page)]
<1>1. PICK new, node : /\ new = [page EXCEPT !.node[x] = rec]
                       /\ node = [y \in Ids(page) |-> IF y = x THEN rec ELSE page.node[y]]
  OBVIOUS
<1>2. /\ page = [node |-> page.node, kids |-> page.kids] /\ DOMAIN page.node = Ids(page)
      /\ \A y \in Ids(page) : page.node[y] \in Node
  BY TreeIs
<1>3. page.node = [y \in Ids(page) |-> page.node[y]]
  <2>1. Sound(Outline(page)) /\ Outline(page).node = page.node
    BY TreeIs
  <2> QED
    BY <1>2, <2>1 DEF Sound
<1>4. [page.node EXCEPT ![x] = rec] = node
  BY <1>1, <1>2, <1>3
<1>5. new = [node |-> node, kids |-> page.kids]
  BY <1>1, <1>2, <1>4
<1>6. node \in [Ids(page) -> Node] /\ \A y \in Ids(page) : node[y].kind = page.node[y].kind
  BY <1>1, <1>2
<1>7. Tree(new) /\ Outline(new) = [node |-> node, up |-> Up(page)]
  BY <1>5, <1>6, NewNodes
<1> QED
  BY <1>1, <1>7

\* setEndpointInk, on a page where it fits.
LEMMA EndpointFits ==
  ASSUME NEW page, Tree(page), NEW e, FitsEndpoint(Outline(page), e)
  PROVE  Made(ApplyEndpointInk(page, e), AfterEndpoint(Outline(page), e))
<1> DEFINE x == e.id
           n == page.node[x]
           rec == IF e.fromEnd THEN [n EXCEPT !.fromInk = e.strokes] ELSE [n EXCEPT !.toInk = e.strokes]
<1>1. Of(page, x, "conn") /\ x \in Ids(page) /\ n.kind = "conn" /\ e.strokes \in Seq(Interval)
  BY OutlineIs DEF FitsEndpoint, Of
<1>2. n \in ConnNode
  BY <1>1, TreeIs, KindIs
<1>3. rec \in Node /\ rec.kind = n.kind
  <2>1. PICK c, m : c = n /\ m = rec
    OBVIOUS
  <2>2. m = IF e.fromEnd THEN [c EXCEPT !.fromInk = e.strokes] ELSE [c EXCEPT !.toInk = e.strokes]
    BY <2>1
  <2> HIDE DEF rec, n
  <2>3. c \in ConnNode /\ Record(c, ConnFields)
    BY <1>2, <2>1, ConnIs
  <2> DEFINE v == e.strokes
  <2> HIDE DEF v
  <2>4. v \in Seq(Interval) /\ m = IF e.fromEnd THEN [c EXCEPT !.fromInk = v] ELSE [c EXCEPT !.toInk = v]
    BY <1>1, <2>2 DEF v
  <2>5. Record(m, ConnFields)
    BY <2>3, <2>4 DEF Record, ConnFields
  <2>6. \A g \in ConnFields \ {"fromInk", "toInk"} : m[g] = c[g]
    BY <2>3, <2>4 DEF Record, ConnFields
  <2>7. c.fromInk \in Seq(Interval) /\ c.toInk \in Seq(Interval)
    BY <2>3, ConnIs
  <2>8. m.fromInk \in Seq(Interval) /\ m.toInk \in Seq(Interval)
    BY <2>3, <2>4, <2>7 DEF Record, ConnFields
  <2>9. /\ m.kind = c.kind /\ m.from = c.from /\ m.to = c.to /\ m.fromAt = c.fromAt
        /\ m.toAt = c.toAt /\ m.p = c.p /\ m.q = c.q /\ m.last = c.last
    BY <2>6 DEF ConnFields
  <2>10. m \in ConnNode
    BY <2>3, <2>5, <2>8, <2>9, ConnIs
  <2> QED
    BY <2>1, <2>9, <2>10 DEF Node
<1>4. ApplyEndpointInk(page, e) = Done([page EXCEPT !.node[x] = rec])
  BY <1>1 DEF ApplyEndpointInk
<1> HIDE DEF rec
<1>5. PICK new : new = [page EXCEPT !.node[x] = rec]
  OBVIOUS
<1>6. Tree(new) /\ Outline(new) = [node |-> [y \in Ids(page) |-> IF y = x THEN rec ELSE page.node[y]],
          up |-> Up(page)]
  BY <1>1, <1>3, <1>5, Recorded1
<1>7. AfterEndpoint(Outline(page), e) = [node |-> [y \in Ids(page) |-> IF y = x THEN rec ELSE page.node[y]],
          up |-> Up(page)]
  BY OutlineIs DEF AfterEndpoint, rec
<1> QED
  BY <1>4, <1>5, <1>6, <1>7 DEF Made, Done

\* setInkSamples, on a page where it fits.
LEMMA SamplesFits ==
  ASSUME NEW page, Tree(page), NEW e, FitsSamples(Outline(page), e)
  PROVE  Made(ApplyInkSamples(page, e), AfterSamples(Outline(page), e))
<1> DEFINE x == e.id
           n == page.node[x]
           rec == [n EXCEPT !.lo = e.lo, !.hi = e.hi]
<1>1. Of(page, x, "ink") /\ x \in Ids(page) /\ n.kind = "ink" /\ e.lo \in Int /\ e.hi \in Int /\ e.lo <= e.hi
  BY OutlineIs DEF FitsSamples, Of
<1>2. n \in InkNode
  BY <1>1, TreeIs, KindIs
<1>3. rec \in Node /\ rec.kind = n.kind
  <2>1. PICK c, m : c = n /\ m = rec
    OBVIOUS
  <2>2. m = [c EXCEPT !.lo = e.lo, !.hi = e.hi]
    BY <2>1
  <2> HIDE DEF rec, n
  <2>3. c \in InkNode /\ Record(c, InkFields)
    BY <1>2, <2>1, InkIs
  <2>4. /\ Record(m, InkFields) /\ m.kind = c.kind /\ m.lo = e.lo /\ m.hi = e.hi /\ m.loop = c.loop
        /\ m.role = c.role /\ m.last = c.last
    BY <2>2, <2>3 DEF Record, InkFields
  <2>6. m \in InkNode
    BY <1>1, <2>3, <2>4, InkIs
  <2> QED
    BY <2>1, <2>3, <2>4, <2>6 DEF Node
<1>4. PICK new : new = [page EXCEPT !.node[x] = rec]
  OBVIOUS
<1>5. Tree(new) /\ Outline(new) = [node |-> [y \in Ids(page) |-> IF y = x THEN rec ELSE page.node[y]],
          up |-> Up(page)]
  <2> HIDE DEF rec
  <2> QED
    BY <1>1, <1>3, <1>4, Recorded1
<1>7. ApplyInkSamples(page, e) = Done(new)
  BY <1>1, <1>4 DEF ApplyInkSamples
<1>8. AfterSamples(Outline(page), e) = [node |-> [y \in Ids(page) |-> IF y = x THEN rec ELSE page.node[y]],
          up |-> Up(page)]
  BY OutlineIs DEF AfterSamples, Resampled, rec
<1> QED
  BY <1>4, <1>5, <1>7, <1>8 DEF Made, Done

\* setSmartTransform, on a page where it fits.
LEMMA TransformFits ==
  ASSUME NEW page, Tree(page), NEW e, FitsTransform(Outline(page), e)
  PROVE  Made(ApplyTransform(page, e), AfterTransform(Outline(page), e))
<1> DEFINE x == e.id
           n == page.node[x]
           rec == [n EXCEPT !.at = e.at]
<1>1. Of(page, x, "box") /\ x \in Ids(page) /\ n.kind = "box" /\ e.at \in Int
  BY OutlineIs DEF FitsTransform, Of
<1>2. n \in BoxNode
  BY <1>1, TreeIs, KindIs
<1>3. rec \in Node /\ rec.kind = n.kind
  <2>1. PICK c, m : c = n /\ m = rec
    OBVIOUS
  <2>2. m = [c EXCEPT !.at = e.at]
    BY <2>1
  <2> HIDE DEF rec, n
  <2>3. c \in BoxNode /\ Record(c, BoxFields)
    BY <1>2, <2>1, BoxIs
  <2>4. m \in BoxNode
    BY <1>1, <2>2, <2>3, BoxIs DEF Record, BoxFields
  <2> QED
    BY <2>1, <2>3, <2>4, BoxIs DEF Node
<1>4. PICK new : new = [page EXCEPT !.node[x] = rec]
  OBVIOUS
<1>5. Tree(new) /\ Outline(new) = [node |-> [y \in Ids(page) |-> IF y = x THEN rec ELSE page.node[y]],
          up |-> Up(page)]
  <2> HIDE DEF rec
  <2> QED
    BY <1>1, <1>3, <1>4, Recorded1
<1>7. ApplyTransform(page, e) = Done(new)
  BY <1>1, <1>4 DEF ApplyTransform
<1>8. AfterTransform(Outline(page), e) = [node |-> [y \in Ids(page) |-> IF y = x THEN rec ELSE page.node[y]],
          up |-> Up(page)]
  BY OutlineIs DEF AfterTransform, rec
<1> QED
  BY <1>4, <1>5, <1>7, <1>8 DEF Made, Done

\* Every edit that fits is applied, and does to the outline what After says.
LEMMA ApplyFits ==
  ASSUME NEW page, Tree(page), NEW e, Fits(Outline(page), e)
  PROVE  Made(Apply(page, e), After(Outline(page), e))
<1>1. CASE e.kind = "append_ink" /\ FitsAppend(Outline(page), e)
  BY <1>1, AppendFits DEF Apply, After
<1>2. CASE e.kind = "remove_node" /\ FitsRemove(Outline(page), e)
  BY <1>2, RemoveFits DEF Apply, After
<1>3. CASE e.kind = "restore" /\ FitsMove(Outline(page), e.body, e.parent, e.index)
  BY <1>3, MoveIs DEF Apply, After
<1>4. CASE e.kind = "reparent" /\ FitsReparent(Outline(page), e)
  BY <1>4, ReparentFits DEF Apply, After
<1>5. CASE e.kind = "create_smart_group" /\ FitsGroup(Outline(page), e)
  BY <1>5, GroupFits DEF Apply, After
<1>6. CASE e.kind = "join_smart_group" /\ FitsJoin(Outline(page), e)
  BY <1>6, JoinFits DEF Apply, After
<1>7. CASE e.kind = "create_connector" /\ FitsConnector(Outline(page), e)
  BY <1>7, ConnectorFits DEF Apply, After
<1>8. CASE e.kind = "set_endpoint_ink" /\ FitsEndpoint(Outline(page), e)
  BY <1>8, EndpointFits DEF Apply, After
<1>9. CASE e.kind = "set_ink_samples" /\ FitsSamples(Outline(page), e)
  BY <1>9, SamplesFits DEF Apply, After
<1>10. CASE e.kind = "set_smart_transform" /\ FitsTransform(Outline(page), e)
  BY <1>10, TransformFits DEF Apply, After
<1> QED
  BY <1>1, <1>2, <1>3, <1>4, <1>5, <1>6, <1>7, <1>8, <1>9, <1>10 DEF Fits

-----------------------------------------------------------------------------
(***************************************************************************)
(* Undoing.  P is the outline before a gesture, fs its inverses in the     *)
(* order they run, a the outline when those from k on are still to run.    *)
(***************************************************************************)
Fields == InkFields \cup BoxFields \cup ConnFields
\* Two records of a kind that differ in no other fields.
Agree(m, n, F) ==
    DOMAIN m = DOMAIN n /\ m.kind = n.kind /\ \A f \in DOMAIN n \ F : m[f] = n[f]

\* What an edit sets in the node it names.
Sets(e) ==
    CASE e.kind = "set_ink_samples" -> {"lo", "hi"}
      [] e.kind = "set_smart_transform" -> {"at"}
      [] e.kind = "set_endpoint_ink" -> {IF e.fromEnd THEN "fromInk" ELSE "toInk"}
      [] OTHER -> {}
\* What is set when the inverses have run: the lastOpId of a target, and the
\* pose of an end whose box is there.
Slack(P, L, x, f) ==
    \/ f = "last" /\ x \in L
    \/ f = "p" /\ Of(P, x, "conn") /\ Of(P, P.node[x].from, "box")
    \/ f = "q" /\ Of(P, x, "conn") /\ Of(P, P.node[x].to, "box")
Open(P, L, fs, k, x) ==
    {f \in Fields : \/ Slack(P, L, x, f)
                    \/ \E j \in k..Len(fs) : fs[j].id = x /\ f \in Sets(fs[j])}
\* x comes back, with all that was below it.
Covered(P, fs, k, x) ==
    \E j \in k..Len(fs) : fs[j].kind = "restore" /\ x \in Below(P.up, {fs[j].id})

Undoes(P, L, fs, j) ==
    LET e == fs[j]
    IN  \/ /\ e.kind = "restore" /\ e.id \in DOMAIN P.node /\ BodyOK(e.body) /\ e.body.top = e.id
           /\ e.index \in Nat \ {0} /\ e.parent = P.up[e.id]
           /\ DOMAIN e.body.node = Below(P.up, {e.id}) /\ Plan(e.body).up = Part(P, e.id).up
           /\ \A x \in DOMAIN e.body.node :
                 Agree(e.body.node[x], P.node[x], Open(P, L, fs, j + 1, x))
        \/ e.kind = "remove_node" /\ e.id \notin DOMAIN P.node
        \/ /\ e.kind = "set_ink_samples" /\ Of(P, e.id, "ink")
           /\ e.lo = P.node[e.id].lo /\ e.hi = P.node[e.id].hi
        \/ /\ e.kind = "set_smart_transform" /\ Of(P, e.id, "box") /\ e.at = P.node[e.id].at
        \/ /\ e.kind = "set_endpoint_ink" /\ Of(P, e.id, "conn") /\ e.fromEnd \in BOOLEAN
           /\ e.strokes = IF e.fromEnd THEN P.node[e.id].fromInk ELSE P.node[e.id].toInk
UndoesAll(P, L, fs) == Len(fs) \in Nat /\ \A j \in 1..Len(fs) : Undoes(P, L, fs, j)

\* Nodes of P may have gone under new parents in G, which are none of those
\* to come back.
Lacking(a, P, fs, k) == \A x \in DOMAIN P.node \ DOMAIN a.node : Covered(P, fs, k, x)
Standing(a, P, L, G, fs, k) ==
    \A x \in DOMAIN P.node \cap DOMAIN a.node :
        /\ a.node[x].kind = P.node[x].kind
        /\ a.up[x] = P.up[x] \/ a.up[x] \in G
        /\ \/ Covered(P, fs, k, x)
           \/ a.up[x] = P.up[x] /\ Agree(a.node[x], P.node[x], Open(P, L, fs, k, x))
Strangers(a, P, fs, k) ==
    \A x \in DOMAIN a.node \ DOMAIN P.node :
        \E j \in k..Len(fs) : fs[j].kind = "remove_node" /\ x \in Below(a.up, {fs[j].id})
Hosts(a, P, G, fs) ==
    /\ \A z \in G \cap DOMAIN a.node : a.up[z] \in G \cup {Root}
    /\ \A j \in 1..Len(fs) : fs[j].kind = "restore" => G \cap Below(P.up, {fs[j].id}) = {}
Mending(a, P, L, G, fs, k) ==
    /\ Lacking(a, P, fs, k) /\ Standing(a, P, L, G, fs, k)
    /\ Strangers(a, P, fs, k) /\ Hosts(a, P, G, fs)

\* A restore that finds no parent.
Lost(a, e) ==
    /\ e.kind = "restore"
    /\ e.parent \notin (DOMAIN a.node \ Below(a.up, DOMAIN e.body.node)) \cup {Root}

-----------------------------------------------------------------------------
\* What comes back takes nothing else of P with it.
LEMMA TakesOwn ==
  ASSUME NEW a, Sound(a), NEW P, Sound(P), NEW G, NEW t \in DOMAIN P.node,
         \A x \in DOMAIN P.node \cap DOMAIN a.node : a.up[x] = P.up[x] \/ a.up[x] \in G,
         \A z \in G \cap DOMAIN a.node : a.up[z] \in G \cup {Root},
         G \cap Below(P.up, {t}) = {}
  PROVE  Below(a.up, Below(P.up, {t})) \cap DOMAIN P.node \subseteq Below(P.up, {t})
<1>1. PICK D, O, B, up, was : /\ D = DOMAIN a.node /\ O = DOMAIN P.node /\ B = Below(P.up, {t})
                              /\ up = a.up /\ was = P.up
  OBVIOUS
<1>2. /\ DOMAIN up = D /\ DOMAIN was = O /\ Root \notin D /\ Root \notin O
      /\ \A x \in D : up[x] \in D \cup {Root}
      /\ \A x \in O : was[x] \in O \cup {Root}
  BY <1>1, SoundIs
<1>3. B \subseteq O /\ \A z \in O : was[z] \in B => z \in B
  BY <1>1, <1>2, BelowIs
<1>4. PICK X : X = (B \cap D) \cup {z \in D : z \notin O /\ z \notin G}
  OBVIOUS
<1>5. \A z \in D : up[z] \in X => z \in X
  <2> SUFFICES ASSUME NEW z \in D, up[z] \in X PROVE z \in X
    OBVIOUS
  <2>1. z \in O => up[z] = was[z] \/ up[z] \in G
    BY <1>1
  <2>2. z \in G => up[z] \in G \cup {Root}
    BY <1>1
  <2>3. G \cap B = {}
    BY <1>1
  <2>4. up[z] \notin G /\ up[z] # Root
    BY <1>2, <1>4, <2>3
  <2>5. CASE z \in O
    <3>1. up[z] = was[z] /\ was[z] \in O
      BY <1>2, <2>1, <2>4, <2>5
    <3> QED
      BY <1>3, <1>4, <2>5, <3>1
  <2>6. CASE z \notin O
    BY <1>4, <2>2, <2>4, <2>6
  <2> QED
    BY <2>5, <2>6
<1>6. B \cap DOMAIN up \subseteq X
  BY <1>2, <1>4
<1>7. Below(up, B) \subseteq X
  BY <1>2, <1>5, <1>6, BelowLeast
<1> QED
  BY <1>1, <1>4, <1>7

\* Pruning leaves what stays below where it was.
LEMMA PrunedBelow ==
  ASSUME NEW a, Sound(a), NEW S, NEW b, DOMAIN b.up = DOMAIN b.node,
         DOMAIN a.node \ Below(a.up, S) \subseteq DOMAIN b.node,
         \A x \in DOMAIN a.node \ Below(a.up, S) : b.up[x] = a.up[x], NEW T
  PROVE  Below(a.up, T) \subseteq Below(a.up, S) \cup Below(b.up, T)
<1>1. PICK D, O, up, to, B : /\ D = DOMAIN a.node /\ O = Below(a.up, S) /\ up = a.up /\ to = b.up
                             /\ B = Below(b.up, T)
  OBVIOUS
<1>2. DOMAIN up = D /\ D \ O \subseteq DOMAIN to /\ \A x \in D \ O : to[x] = up[x]
  BY <1>1, SoundIs
<1>3. /\ \A z \in D : up[z] \in O => z \in O
      /\ T \cap DOMAIN to \subseteq B /\ \A z \in DOMAIN to : to[z] \in B => z \in B
  BY <1>1, <1>2, BelowIs
<1>4. T \cap D \subseteq O \cup B
  BY <1>2, <1>3
<1>5. \A z \in D : up[z] \in O \cup B => z \in O \cup B
  BY <1>2, <1>3
<1> QED
  BY <1>1, <1>2, <1>4, <1>5, BelowLeast

\* What hangs under a covered node is covered.
LEMMA CoveredBelow ==
  ASSUME NEW P, Sound(P), NEW fs, NEW k, NEW x \in DOMAIN P.node, Covered(P, fs, k, P.up[x])
  PROVE  Covered(P, fs, k, x)
<1>1. PICK j \in k..Len(fs) : fs[j].kind = "restore" /\ P.up[x] \in Below(P.up, {fs[j].id})
  BY DEF Covered
<1>2. x \in Below(P.up, {fs[j].id})
  BY <1>1, SoundIs, BelowIs
<1> QED
  BY <1>1, <1>2 DEF Covered

\* Fewer inverses to run, fewer fields open.
LEMMA OpenLess ==
  ASSUME NEW P, NEW L, NEW fs, Len(fs) \in Nat, NEW k \in 1..Len(fs), NEW x
  PROVE  /\ Open(P, L, fs, k + 1, x) \subseteq Open(P, L, fs, k, x)
         /\ Open(P, L, fs, k, x) \subseteq Open(P, L, fs, k + 1, x) \cup Sets(fs[k])
<1>1. \A j : j \in (k + 1)..Len(fs) => j \in k..Len(fs)
  OBVIOUS
<1>2. \A j : j \in k..Len(fs) => j = k \/ j \in (k + 1)..Len(fs)
  OBVIOUS
<1> QED
  BY <1>1, <1>2 DEF Open

\* An inverse that sets no field of a node leaves its open fields.
LEMMA OpenSame ==
  ASSUME NEW P, NEW L, NEW fs, Len(fs) \in Nat, NEW k \in 1..Len(fs), NEW x,
         fs[k].id # x \/ Sets(fs[k]) = {}
  PROVE  Open(P, L, fs, k + 1, x) = Open(P, L, fs, k, x)
<1>1. \A j : j \in (k + 1)..Len(fs) => j \in k..Len(fs)
  OBVIOUS
<1>2. \A j : j \in k..Len(fs) => j = k \/ j \in (k + 1)..Len(fs)
  OBVIOUS
<1>3. Open(P, L, fs, k, x) \subseteq Open(P, L, fs, k + 1, x)
  BY <1>2 DEF Open
<1> QED
  BY <1>3, OpenLess

\* Running a restore uncovers at most what is below its node.
LEMMA CoveredLess ==
  ASSUME NEW P, NEW fs, Len(fs) \in Nat, NEW k \in 1..Len(fs), NEW x
  PROVE  /\ Covered(P, fs, k + 1, x) => Covered(P, fs, k, x)
         /\ Covered(P, fs, k, x) => \/ Covered(P, fs, k + 1, x)
                                    \/ fs[k].kind = "restore" /\ x \in Below(P.up, {fs[k].id})
<1>1. \A j : j \in (k + 1)..Len(fs) => j \in k..Len(fs)
  OBVIOUS
<1>2. \A j : j \in k..Len(fs) => j = k \/ j \in (k + 1)..Len(fs)
  OBVIOUS
<1> QED
  BY <1>1, <1>2 DEF Covered

\* Nothing is below a set without nodes of the outline.
LEMMA BelowNone ==
  ASSUME NEW up, NEW S, S \cap DOMAIN up = {}
  PROVE  Below(up, S) = {}
<1>1. PICK T : T = {}
  OBVIOUS
<1>2. S \cap DOMAIN up \subseteq T /\ T \subseteq DOMAIN up /\ \A z \in DOMAIN up : up[z] \in T => z \in T
  BY <1>1
<1>3. Below(up, S) \subseteq T
  BY <1>2, BelowLeast
<1> QED
  BY <1>1, <1>3

\* An inverse whose node is gone leaves the rest to do.
LEMMA MendSkip ==
  ASSUME NEW P, Sound(P), NEW L, NEW G, NEW fs, Len(fs) \in Nat, NEW k \in 1..Len(fs),
         NEW a, Sound(a), Mending(a, P, L, G, fs, k),
         fs[k].kind # "restore", fs[k].id \notin DOMAIN a.node
  PROVE  Mending(a, P, L, G, fs, k + 1)
<1>1. k \in Nat /\ DOMAIN a.up = DOMAIN a.node
  BY SoundIs
<1>2. \A x : Covered(P, fs, k, x) <=> Covered(P, fs, k + 1, x)
  BY CoveredLess
<1>3. \A x \in DOMAIN a.node : Open(P, L, fs, k + 1, x) = Open(P, L, fs, k, x)
  BY OpenSame
<1>4. Below(a.up, {fs[k].id}) = {}
  BY <1>1, BelowNone
<1>5. Lacking(a, P, fs, k + 1)
  BY <1>2 DEF Mending, Lacking
<1>6. Standing(a, P, L, G, fs, k + 1)
  BY <1>2, <1>3 DEF Mending, Standing
<1>7. Strangers(a, P, fs, k + 1)
  <2> SUFFICES ASSUME NEW x \in DOMAIN a.node \ DOMAIN P.node
               PROVE  \E j \in (k + 1)..Len(fs) : fs[j].kind = "remove_node" /\ x \in Below(a.up, {fs[j].id})
    BY DEF Strangers
  <2>1. PICK j \in k..Len(fs) : fs[j].kind = "remove_node" /\ x \in Below(a.up, {fs[j].id})
    BY DEF Mending, Strangers
  <2>2. j # k
    BY <1>4, <2>1
  <2>3. j \in (k + 1)..Len(fs)
    BY <2>2
  <2> QED
    BY <2>1, <2>3
<1> QED
  BY <1>5, <1>6, <1>7 DEF Mending

\* A new node taken away again: what it held of P is to come back.
LEMMA MendRemove ==
  ASSUME NEW P, Sound(P), NEW L, NEW G, NEW fs, Len(fs) \in Nat, NEW k \in 1..Len(fs),
         NEW a, Sound(a), Mending(a, P, L, G, fs, k),
         fs[k].kind = "remove_node", fs[k].id \notin DOMAIN P.node
  PROVE  Mending(Pruned(a, {fs[k].id}), P, L, G, fs, k + 1)
<1> DEFINE D == DOMAIN a.node
           O == DOMAIN P.node
           Out == Below(a.up, {fs[k].id})
<1>1. PICK y, b : y = fs[k].id /\ b = Pruned(a, {y})
  OBVIOUS
<1>2. k \in Nat /\ DOMAIN a.up = D /\ Root \notin D /\ Out \subseteq D
  <2>1. DOMAIN a.up = D /\ Root \notin D
    BY SoundIs
  <2>2. Out \subseteq DOMAIN a.up
    BY BelowIs
  <2>3. k \in Nat
    OBVIOUS
  <2> HIDE DEF D, Out
  <2> QED
    BY <2>1, <2>2, <2>3
<1>3. /\ DOMAIN b.node = D \ Out /\ DOMAIN b.up = D \ Out
      /\ \A x \in D \ Out : b.node[x] = a.node[x] /\ b.up[x] = a.up[x]
  BY <1>1, <1>2 DEF Pruned, Restrict
<1>4. \A x : Covered(P, fs, k, x) <=> Covered(P, fs, k + 1, x)
  BY CoveredLess
<1>5. \A x : Open(P, L, fs, k + 1, x) = Open(P, L, fs, k, x)
  BY OpenSame DEF Sets
<1>6. \A x \in O \cap Out : Covered(P, fs, k, x)
  <2>1. PICK X : X = {x \in D : x \in O => Covered(P, fs, k, x)}
    OBVIOUS
  <2>2. {y} \cap DOMAIN a.up \subseteq X
    BY <1>1, <1>2, <2>1
  <2>3. \A z \in DOMAIN a.up : a.up[z] \in X => z \in X
    <3> SUFFICES ASSUME NEW z \in D, a.up[z] \in X, z \in O, ~Covered(P, fs, k, z) PROVE FALSE
      BY <1>2, <2>1
    <3>1. a.up[z] = P.up[z]
      BY DEF Mending, Standing
    <3>2. P.up[z] \in D /\ P.up[z] \in O \cup {Root}
      BY <2>1, <3>1, SoundIs
    <3>3. P.up[z] \in O /\ Covered(P, fs, k, P.up[z])
      BY <1>2, <2>1, <3>1, <3>2
    <3> QED
      BY <3>3, CoveredBelow
  <2>4. X \subseteq DOMAIN a.up
    BY <1>2, <2>1
  <2>5. Out \subseteq X
    BY <1>1, <2>2, <2>3, <2>4, BelowLeast
  <2> QED
    BY <2>1, <2>5
<1>7. \A T : Below(a.up, T) \subseteq Out \cup Below(b.up, T)
  <2>1. DOMAIN b.up = DOMAIN b.node /\ D \ Out \subseteq DOMAIN b.node
    BY <1>3
  <2>2. \A x \in D \ Out : b.up[x] = a.up[x]
    BY <1>3
  <2> QED
    BY <2>1, <2>2, PrunedBelow
<1> HIDE DEF D, O, Out
<1>8. Strangers(b, P, fs, k + 1)
  <2> SUFFICES ASSUME NEW x \in DOMAIN b.node \ O
               PROVE  \E j \in (k + 1)..Len(fs) : fs[j].kind = "remove_node" /\ x \in Below(b.up, {fs[j].id})
    BY DEF Strangers, O
  <2>1. PICK j \in k..Len(fs) : fs[j].kind = "remove_node" /\ x \in Below(a.up, {fs[j].id})
    BY <1>3 DEF Mending, Strangers, D, O
  <2>2. x \notin Out
    BY <1>3
  <2>3. j # k /\ x \in Below(b.up, {fs[j].id})
    BY <1>7, <2>1, <2>2 DEF Out
  <2>4. j \in (k + 1)..Len(fs)
    BY <2>3
  <2> QED
    BY <2>1, <2>3, <2>4
<1>9. Lacking(b, P, fs, k + 1)
  BY <1>3, <1>4, <1>6 DEF Mending, Lacking, O, D
<1>10. Standing(b, P, L, G, fs, k + 1)
  BY <1>3, <1>4, <1>5 DEF Mending, Standing, D
<1>11. Hosts(b, P, G, fs)
  BY <1>3 DEF Mending, Hosts, D
<1> QED
  BY <1>1, <1>8, <1>9, <1>10, <1>11 DEF Mending

\* b is a with the fields that e sets as they were in P.
SetBack(P, a, b, e) ==
    /\ e.kind \notin {"restore", "remove_node"} /\ e.id \in DOMAIN a.node \cap DOMAIN P.node
    /\ DOMAIN b.node = DOMAIN a.node /\ b.up = a.up
    /\ \A x \in DOMAIN a.node : x # e.id => b.node[x] = a.node[x]
    /\ DOMAIN b.node[e.id] = DOMAIN a.node[e.id] /\ b.node[e.id].kind = a.node[e.id].kind
    /\ \A f \in DOMAIN a.node[e.id] :
          b.node[e.id][f] = IF f \in Sets(e) THEN P.node[e.id][f] ELSE a.node[e.id][f]

\* An inverse that sets fields of a node that is there.
LEMMA MendSet ==
  ASSUME NEW P, Sound(P), NEW L, NEW G, NEW fs, Len(fs) \in Nat, NEW k \in 1..Len(fs),
         NEW a, Sound(a), Mending(a, P, L, G, fs, k), NEW b, SetBack(P, a, b, fs[k])
  PROVE  Mending(b, P, L, G, fs, k + 1)
<1> USE DEF SetBack
<1>1. k \in Nat
  OBVIOUS
<1>2. \A x : Covered(P, fs, k, x) <=> Covered(P, fs, k + 1, x)
  BY CoveredLess
<1>3. \A x \in DOMAIN a.node : x # fs[k].id => Open(P, L, fs, k + 1, x) = Open(P, L, fs, k, x)
  BY OpenSame
<1>4. Lacking(b, P, fs, k + 1)
  BY <1>2 DEF Mending, Lacking
<1>5. Hosts(b, P, G, fs)
  BY DEF Mending, Hosts
<1>6. Strangers(b, P, fs, k + 1)
  <2> SUFFICES ASSUME NEW x \in DOMAIN b.node \ DOMAIN P.node
               PROVE  \E j \in (k + 1)..Len(fs) : fs[j].kind = "remove_node" /\ x \in Below(b.up, {fs[j].id})
    BY DEF Strangers
  <2>1. PICK j \in k..Len(fs) : fs[j].kind = "remove_node" /\ x \in Below(a.up, {fs[j].id})
    BY DEF Mending, Strangers
  <2>2. j \in (k + 1)..Len(fs)
    BY <2>1
  <2> QED
    BY <2>1, <2>2
<1>7. ASSUME Agree(a.node[fs[k].id], P.node[fs[k].id], Open(P, L, fs, k, fs[k].id))
      PROVE  Agree(b.node[fs[k].id], P.node[fs[k].id], Open(P, L, fs, k + 1, fs[k].id))
  <2>1. Open(P, L, fs, k, fs[k].id) \subseteq Open(P, L, fs, k + 1, fs[k].id) \cup Sets(fs[k])
    BY <1>1, OpenLess
  <2>2. PICK m, n, p, S, F, E : /\ m = b.node[fs[k].id] /\ n = a.node[fs[k].id] /\ p = P.node[fs[k].id]
                                /\ S = Sets(fs[k]) /\ F = Open(P, L, fs, k, fs[k].id)
                                /\ E = Open(P, L, fs, k + 1, fs[k].id)
    OBVIOUS
  <2>3. DOMAIN m = DOMAIN n /\ m.kind = n.kind /\ \A f \in DOMAIN n : m[f] = IF f \in S THEN p[f] ELSE n[f]
    <3>1. PICK e : e = fs[k]
      OBVIOUS
    <3>2. SetBack(P, a, b, e) /\ m = b.node[e.id] /\ n = a.node[e.id] /\ p = P.node[e.id] /\ S = Sets(e)
      BY <2>2, <3>1
    <3> QED
      BY <3>2
  <2>4. DOMAIN n = DOMAIN p /\ n.kind = p.kind /\ \A f \in DOMAIN p \ F : n[f] = p[f]
    BY <1>7, <2>2 DEF Agree
  <2>5. F \subseteq E \cup S
    BY <2>1, <2>2
  <2>6. Agree(m, p, E)
    BY <2>3, <2>4, <2>5 DEF Agree
  <2> QED
    BY <2>2, <2>6
<1>8. Standing(b, P, L, G, fs, k + 1)
  <2> SUFFICES ASSUME NEW x \in DOMAIN P.node \cap DOMAIN a.node
               PROVE  /\ b.node[x].kind = P.node[x].kind
                      /\ a.up[x] = P.up[x] \/ a.up[x] \in G
                      /\ \/ Covered(P, fs, k + 1, x)
                         \/ a.up[x] = P.up[x] /\ Agree(b.node[x], P.node[x], Open(P, L, fs, k + 1, x))
    BY DEF Standing
  <2>1. /\ a.node[x].kind = P.node[x].kind
        /\ a.up[x] = P.up[x] \/ a.up[x] \in G
        /\ \/ Covered(P, fs, k, x)
           \/ a.up[x] = P.up[x] /\ Agree(a.node[x], P.node[x], Open(P, L, fs, k, x))
    BY DEF Mending, Standing
  <2>2. CASE x # fs[k].id
    BY <1>2, <1>3, <2>1, <2>2
  <2>3. CASE x = fs[k].id
    BY <1>2, <1>7, <2>1, <2>3
  <2> QED
    BY <2>2, <2>3
<1> QED
  BY <1>4, <1>5, <1>6, <1>8 DEF Mending

\* Nothing is below itself.
LEMMA WayOut ==
  ASSUME NEW P, Sound(P), NEW t \in DOMAIN P.node
  PROVE  P.up[t] \notin Below(P.up, {t})
<1> DEFINE B == Below(P.up, {t})
<1>1. B \subseteq DOMAIN P.up /\ {t} \cap DOMAIN P.up \subseteq B /\ \A y \in B : y \notin {t} => P.up[y] \in B
  BY BelowIs
<1>2. DOMAIN P.up = DOMAIN P.node /\ Founded(P.up)
  BY SoundIs DEF Sound
<1>3. PICK x \in B : P.up[x] \notin B
  BY <1>1, <1>2 DEF Founded
<1> QED
  BY <1>1, <1>3

-----------------------------------------------------------------------------
\* A body that comes back where it was.
LEMMA MendBack ==
  ASSUME NEW P, Sound(P), NEW L, NEW G, NEW fs, Len(fs) \in Nat, NEW k \in 1..Len(fs),
         NEW a, Sound(a), Mending(a, P, L, G, fs, k),
         fs[k].kind = "restore", Undoes(P, L, fs, k), fs[k].parent \in DOMAIN a.node \cup {Root}
  PROVE  Fits(a, fs[k]) /\ Mending(After(a, fs[k]), P, L, G, fs, k + 1)
<1> DEFINE D == DOMAIN a.node
           O == DOMAIN P.node
           t == fs[k].id
           body == fs[k].body
           q == fs[k].parent
           B == Below(P.up, {t})
           Out == Below(a.up, B)
<1>1. /\ t \in O /\ BodyOK(body) /\ body.top = t /\ fs[k].index \in Nat \ {0} /\ q = P.up[t]
      /\ DOMAIN body.node = B /\ Plan(body).up = Part(P, t).up
      /\ \A x \in B : Agree(body.node[x], P.node[x], Open(P, L, fs, k + 1, x))
  BY DEF Undoes
<1>2. DOMAIN a.up = D /\ Root \notin D /\ \A x \in D : a.up[x] \in D \cup {Root}
  BY SoundIs
<1>3. DOMAIN P.up = O /\ Root \notin O /\ \A x \in O : P.up[x] \in O \cup {Root}
  BY SoundIs
<1>4. B \subseteq O /\ t \in B /\ (\A x \in O : P.up[x] \in B => x \in B) /\ \A x \in B : x # t => P.up[x] \in B
  <2>1. B \subseteq DOMAIN P.up /\ {t} \cap DOMAIN P.up \subseteq B
    BY BelowIs
  <2>2. (\A x \in DOMAIN P.up : P.up[x] \in B => x \in B) /\ \A x \in B : x \notin {t} => P.up[x] \in B
    BY BelowIs
  <2> QED
    BY <1>1, <1>3, <2>1, <2>2
<1>5. Out \cap O \subseteq B
  <2>1. \A x \in O \cap D : a.up[x] = P.up[x] \/ a.up[x] \in G
    BY DEF Mending, Standing
  <2>2. (\A z \in G \cap D : a.up[z] \in G \cup {Root}) /\ G \cap B = {}
    BY DEF Mending, Hosts
  <2> QED
    BY <1>1, <2>1, <2>2, TakesOwn
<1>6. q \notin B
  <2>1. q # Root => q \notin Below(P.up, {t})
    BY <1>1, <1>3, WayOut
  <2> QED
    BY <1>3, <1>4, <2>1
<1>7. Out \subseteq D /\ B \cap D \subseteq Out
  <2>1. Out \subseteq DOMAIN a.up /\ B \cap DOMAIN a.up \subseteq Out
    BY BelowIs
  <2> QED
    BY <1>2, <2>1
<1> HIDE DEF O, D, B, Out
<1>8. FitsMove(a, body, q, fs[k].index)
  <2>1. q \in (D \ Out) \cup {Root}
    BY <1>1, <1>3, <1>5, <1>6 DEF D
  <2>2. q # Root => Holds(a.node[q].kind, body.node[t].kind)
    <3> SUFFICES ASSUME q # Root PROVE Holds(a.node[q].kind, body.node[t].kind)
      OBVIOUS
    <3>1. q \in D \cap O
      BY <1>1, <1>3, <2>1
    <3>2. a.node[q].kind = P.node[q].kind
      BY <3>1 DEF Mending, Standing, D, O
    <3>3. body.node[t].kind = P.node[t].kind
      BY <1>1, <1>4 DEF Agree
    <3>4. Holds(P.node[q].kind, P.node[t].kind)
      BY <1>1 DEF Sound, O
    <3> QED
      BY <3>2, <3>3, <3>4
  <2> QED
    BY <1>1, <2>1, <2>2 DEF FitsMove, D, Out
<1>9. Fits(a, fs[k])
  BY <1>8 DEF Fits
<1>10. PICK b : b = AfterMove(a, body, q)
  OBVIOUS
<1>11. /\ DOMAIN b.node = (D \ Out) \cup B /\ DOMAIN b.up = (D \ Out) \cup B
       /\ \A x \in (D \ Out) \ B : b.node[x] = a.node[x] /\ b.up[x] = a.up[x]
       /\ \A x \in B : b.node[x] = body.node[x] /\ b.up[x] = P.up[x]
  <2>1. PICK c, w : c = Pruned(a, B) /\ w = Plan(body)
    OBVIOUS
  <2>2. /\ DOMAIN c.node = D \ Out
        /\ \A x \in D \ Out : c.node[x] = a.node[x] /\ c.up[x] = a.up[x]
    BY <1>2, <2>1 DEF Pruned, Restrict, D, Out
  <2>3. w.node = body.node /\ w.up = Part(P, t).up
    BY <1>1, <2>1, BodyIs
  <2>4. \A x \in B : Hung(w, q, x) = P.up[x]
    <3> SUFFICES ASSUME NEW x \in B PROVE Hung(w, q, x) = P.up[x]
      OBVIOUS
    <3>1. w.up[x] = IF x = t THEN Root ELSE P.up[x]
      BY <2>3 DEF Part, B
    <3>2. x # t => P.up[x] # Root
      BY <1>3, <1>4
    <3> QED
      BY <1>1, <3>1, <3>2 DEF Hung
  <2>5. b = Planted(c, w, q)
    BY <1>1, <1>10, <2>1 DEF AfterMove, B
  <2>6. DOMAIN w.node = B
    BY <1>1, <2>3
  <2> QED
    BY <1>1, <2>2, <2>3, <2>4, <2>5, <2>6 DEF Planted
<1>12. k \in Nat
  OBVIOUS
<1>13. \A x : Covered(P, fs, k, x) => x \in B \/ Covered(P, fs, k + 1, x)
  BY CoveredLess DEF B
<1>14. Lacking(b, P, fs, k + 1)
  <2> SUFFICES ASSUME NEW x \in O \ DOMAIN b.node PROVE Covered(P, fs, k + 1, x)
    BY DEF Lacking, O
  <2>1. x \notin B /\ x \notin D
    BY <1>5, <1>11
  <2>2. Covered(P, fs, k, x)
    BY <2>1 DEF Mending, Lacking, O, D
  <2> QED
    BY <1>13, <2>1, <2>2
<1>15. Standing(b, P, L, G, fs, k + 1)
  <2> SUFFICES ASSUME NEW x \in O \cap DOMAIN b.node
               PROVE  /\ b.node[x].kind = P.node[x].kind
                      /\ b.up[x] = P.up[x] \/ b.up[x] \in G
                      /\ \/ Covered(P, fs, k + 1, x)
                         \/ b.up[x] = P.up[x] /\ Agree(b.node[x], P.node[x], Open(P, L, fs, k + 1, x))
    BY DEF Standing, O
  <2>1. CASE x \in B
    <3>1. Agree(body.node[x], P.node[x], Open(P, L, fs, k + 1, x))
      BY <1>1, <2>1
    <3>2. b.node[x] = body.node[x] /\ b.up[x] = P.up[x]
      BY <1>11, <2>1
    <3>3. Agree(b.node[x], P.node[x], Open(P, L, fs, k + 1, x))
      BY <3>1, <3>2
    <3>4. b.node[x].kind = P.node[x].kind
      BY <3>3 DEF Agree
    <3> QED
      BY <3>2, <3>3, <3>4
  <2>2. CASE x \notin B
    <3>1. x \in D /\ b.node[x] = a.node[x] /\ b.up[x] = a.up[x]
      BY <1>11, <2>2
    <3>2. /\ a.node[x].kind = P.node[x].kind
          /\ a.up[x] = P.up[x] \/ a.up[x] \in G
          /\ \/ Covered(P, fs, k, x)
             \/ a.up[x] = P.up[x] /\ Agree(a.node[x], P.node[x], Open(P, L, fs, k, x))
      BY <3>1 DEF Mending, Standing, D, O
    <3>3. Open(P, L, fs, k + 1, x) = Open(P, L, fs, k, x)
      BY OpenSame DEF Sets
    <3> QED
      BY <1>13, <2>2, <3>1, <3>2, <3>3
  <2> QED
    BY <2>1, <2>2
<1>16. Strangers(b, P, fs, k + 1)
  <2> SUFFICES ASSUME NEW x \in DOMAIN b.node \ O
               PROVE  \E j \in (k + 1)..Len(fs) : fs[j].kind = "remove_node" /\ x \in Below(b.up, {fs[j].id})
    BY DEF Strangers, O
  <2>1. x \in D \ Out
    BY <1>4, <1>11
  <2>2. PICK j \in k..Len(fs) : fs[j].kind = "remove_node" /\ x \in Below(a.up, {fs[j].id})
    BY <2>1 DEF Mending, Strangers, D, O
  <2>3. j \in (k + 1)..Len(fs)
    BY <2>2
  <2>4. \A T : Below(a.up, T) \subseteq Out \cup Below(b.up, T)
    <3>1. DOMAIN b.up = DOMAIN b.node /\ D \ Out \subseteq DOMAIN b.node
      BY <1>11
    <3>2. \A y \in D \ Out : b.up[y] = a.up[y]
      BY <1>7, <1>11
    <3> QED
      BY <3>1, <3>2, PrunedBelow DEF D, Out
  <2> QED
    BY <2>1, <2>2, <2>3, <2>4
<1>17. Hosts(b, P, G, fs)
  <2>1. \A j \in 1..Len(fs) : fs[j].kind = "restore" => G \cap Below(P.up, {fs[j].id}) = {}
    BY DEF Mending, Hosts
  <2>2. G \cap B = {}
    BY <2>1 DEF B
  <2>3. \A z \in G \cap D : a.up[z] \in G \cup {Root}
    BY DEF Mending, Hosts, D
  <2>4. \A z \in G \cap DOMAIN b.node : b.up[z] \in G \cup {Root}
    BY <1>11, <2>2, <2>3
  <2> QED
    BY <2>1, <2>4 DEF Hosts
<1>18. After(a, fs[k]) = b
  BY <1>10 DEF After
<1> QED
  BY <1>9, <1>14, <1>15, <1>16, <1>17, <1>18 DEF Mending

\* One whose parent is to come back first is lost, and comes back with it.
LEMMA MendLost ==
  ASSUME NEW P, Sound(P), NEW L, NEW G, NEW fs, Len(fs) \in Nat, NEW k \in 1..Len(fs),
         NEW a, Sound(a), Mending(a, P, L, G, fs, k),
         fs[k].kind = "restore", Undoes(P, L, fs, k), fs[k].parent \notin DOMAIN a.node \cup {Root}
  PROVE  /\ k # Len(fs) /\ Lost(a, fs[k])
         /\ Mending(Pruned(a, DOMAIN fs[k].body.node), P, L, G, fs, k + 1)
<1> DEFINE D == DOMAIN a.node
           O == DOMAIN P.node
           t == fs[k].id
           q == fs[k].parent
           B == Below(P.up, {t})
           Out == Below(a.up, B)
<1>1. t \in O /\ q = P.up[t] /\ DOMAIN fs[k].body.node = B
  BY DEF Undoes
<1>2. DOMAIN a.up = D /\ Root \notin D /\ \A x \in D : a.up[x] \in D \cup {Root}
  BY SoundIs
<1>3. DOMAIN P.up = O /\ Root \notin O /\ \A x \in O : P.up[x] \in O \cup {Root}
  BY SoundIs
<1>4. B \subseteq O /\ t \in B
  <2>1. B \subseteq DOMAIN P.up /\ {t} \cap DOMAIN P.up \subseteq B
    BY BelowIs
  <2> QED
    BY <1>1, <1>3, <2>1
<1>5. Out \cap O \subseteq B
  <2>1. \A x \in O \cap D : a.up[x] = P.up[x] \/ a.up[x] \in G
    BY DEF Mending, Standing
  <2>2. (\A z \in G \cap D : a.up[z] \in G \cup {Root}) /\ G \cap B = {}
    BY DEF Mending, Hosts
  <2> QED
    BY <1>1, <2>1, <2>2, TakesOwn
<1>6. q \in O /\ q \notin B
  BY <1>1, <1>3, WayOut
<1>7. PICK j \in k..Len(fs) : fs[j].kind = "restore" /\ q \in Below(P.up, {fs[j].id})
  BY <1>6 DEF Mending, Lacking, Covered
<1>8. j \in (k + 1)..Len(fs) /\ k # Len(fs)
  <2>1. j # k
    BY <1>6, <1>7
  <2> QED
    BY <2>1
<1>9. \A x \in B : Covered(P, fs, k + 1, x)
  <2>1. Covered(P, fs, k + 1, q)
    BY <1>7, <1>8 DEF Covered
  <2>2. PICK X : X = {x \in O : Covered(P, fs, k + 1, x)}
    OBVIOUS
  <2>3. {t} \cap DOMAIN P.up \subseteq X
    BY <1>1, <2>1, <2>2, CoveredBelow
  <2>4. \A z \in DOMAIN P.up : P.up[z] \in X => z \in X
    BY <1>3, <2>2, CoveredBelow
  <2>5. B \subseteq X
    BY <2>3, <2>4, BelowLeast
  <2> QED
    BY <2>2, <2>5
<1> HIDE DEF O, D, B, Out
<1>10. PICK b : b = Pruned(a, B)
  OBVIOUS
<1>11. /\ DOMAIN b.node = D \ Out /\ DOMAIN b.up = D \ Out
       /\ \A x \in D \ Out : b.node[x] = a.node[x] /\ b.up[x] = a.up[x]
  BY <1>2, <1>10 DEF Pruned, Restrict, D, Out
<1>12. \A x : Covered(P, fs, k, x) => x \in B \/ Covered(P, fs, k + 1, x)
  BY CoveredLess DEF B
<1>13. \A x : x \in O /\ Covered(P, fs, k, x) => Covered(P, fs, k + 1, x)
  BY <1>9, <1>12
<1>14. Lacking(b, P, fs, k + 1)
  <2> SUFFICES ASSUME NEW x \in O \ DOMAIN b.node PROVE Covered(P, fs, k + 1, x)
    BY DEF Lacking, O
  <2>1. CASE x \in D
    BY <1>5, <1>9, <1>11, <2>1
  <2>2. CASE x \notin D
    <3>1. Covered(P, fs, k, x)
      BY <2>2 DEF Mending, Lacking, O, D
    <3> QED
      BY <1>13, <3>1
  <2> QED
    BY <2>1, <2>2
<1>15. Standing(b, P, L, G, fs, k + 1)
  <2>1. \A x : Open(P, L, fs, k + 1, x) = Open(P, L, fs, k, x)
    BY OpenSame DEF Sets
  <2> QED
    BY <1>11, <1>13, <2>1 DEF Mending, Standing, O, D
<1>16. Strangers(b, P, fs, k + 1)
  <2> SUFFICES ASSUME NEW x \in DOMAIN b.node \ O
               PROVE  \E i \in (k + 1)..Len(fs) : fs[i].kind = "remove_node" /\ x \in Below(b.up, {fs[i].id})
    BY DEF Strangers, O
  <2>1. x \in D \ Out
    BY <1>11
  <2>2. PICK i \in k..Len(fs) : fs[i].kind = "remove_node" /\ x \in Below(a.up, {fs[i].id})
    BY <2>1 DEF Mending, Strangers, D, O
  <2>3. i \in (k + 1)..Len(fs)
    BY <2>2
  <2>4. \A T : Below(a.up, T) \subseteq Out \cup Below(b.up, T)
    <3>1. DOMAIN b.up = DOMAIN b.node /\ D \ Out \subseteq DOMAIN b.node
      BY <1>11
    <3>2. \A y \in D \ Out : b.up[y] = a.up[y]
      BY <1>11
    <3> QED
      BY <3>1, <3>2, PrunedBelow DEF D, Out
  <2> QED
    BY <2>1, <2>2, <2>3, <2>4
<1>17. Hosts(b, P, G, fs)
  BY <1>11 DEF Mending, Hosts, D
<1>18. Lost(a, fs[k])
  BY <1>1 DEF Lost
<1>19. Mending(b, P, L, G, fs, k + 1)
  BY <1>14, <1>15, <1>16, <1>17 DEF Mending
<1> QED
  BY <1>1, <1>8, <1>10, <1>18, <1>19

-----------------------------------------------------------------------------
\* An inverse that sets fields.
LEMMA MendSetter ==
  ASSUME NEW P, Sound(P), NEW L, NEW G, NEW fs, Len(fs) \in Nat, NEW k \in 1..Len(fs),
         NEW a, Sound(a), Mending(a, P, L, G, fs, k), Undoes(P, L, fs, k),
         fs[k].kind \notin {"restore", "remove_node"}, fs[k].id \in DOMAIN a.node
  PROVE  Fits(a, fs[k]) /\ Mending(After(a, fs[k]), P, L, G, fs, k + 1)
<1>1. PICK e, x, n, p, b, m : /\ e = fs[k] /\ x = e.id /\ n = a.node[x] /\ p = P.node[x]
                              /\ b = After(a, e) /\ m = b.node[x]
  OBVIOUS
<1>2. x \in DOMAIN P.node /\ x \in DOMAIN a.node /\ n \in Node /\ p \in Node /\ n.kind = p.kind
  <2>1. x \in DOMAIN P.node
    BY <1>1 DEF Undoes, Of, Has, Ids
  <2>2. n.kind = p.kind
    BY <1>1, <2>1 DEF Mending, Standing
  <2>3. n \in Node
    BY <1>1, SoundIs
  <2>4. p \in Node
    BY <1>1, <2>1, SoundIs
  <2> QED
    BY <1>1, <2>1, <2>2, <2>3, <2>4
<1>3. ASSUME /\ DOMAIN b.node = DOMAIN a.node /\ b.up = a.up
             /\ \A y \in DOMAIN a.node : y # x => b.node[y] = a.node[y],
             /\ DOMAIN m = DOMAIN n /\ m.kind = n.kind
             /\ \A f \in DOMAIN n : m[f] = IF f \in Sets(e) THEN p[f] ELSE n[f]
      PROVE  Mending(b, P, L, G, fs, k + 1)
  <2>1. /\ fs[k].kind \notin {"restore", "remove_node"} /\ fs[k].id \in DOMAIN a.node \cap DOMAIN P.node
        /\ DOMAIN b.node[fs[k].id] = DOMAIN a.node[fs[k].id]
        /\ b.node[fs[k].id].kind = a.node[fs[k].id].kind
    BY <1>1, <1>2, <1>3
  <2>2. \A y \in DOMAIN a.node : y # fs[k].id => b.node[y] = a.node[y]
    BY <1>1, <1>3
  <2>3. \A f \in DOMAIN a.node[fs[k].id] :
           b.node[fs[k].id][f] = IF f \in Sets(fs[k]) THEN P.node[fs[k].id][f] ELSE a.node[fs[k].id][f]
    BY <1>1, <1>3
  <2>4. SetBack(P, a, b, fs[k])
    BY <1>3, <2>1, <2>2, <2>3, Zenon DEF SetBack
  <2> QED
    BY <2>4, MendSet
<1>4. CASE e.kind = "set_ink_samples"
  <2>1. Of(P, x, "ink") /\ e.lo = p.lo /\ e.hi = p.hi
    BY <1>1, <1>4 DEF Undoes
  <2>2. p.kind = "ink" /\ p \in InkNode /\ n \in InkNode
    BY <1>1, <1>2, <2>1, KindIs DEF Of
  <2>3. p.lo \in Int /\ p.hi \in Int /\ p.lo <= p.hi /\ Record(n, InkFields)
    BY <2>2, InkIs
  <2>4. Fits(a, e)
    BY <1>1, <1>2, <1>4, <2>1, <2>2, <2>3 DEF Fits, FitsSamples, Of, Has, Ids
  <2>5. b = AfterSamples(a, e)
    BY <1>1, <1>4 DEF After
  <2>6. /\ DOMAIN b.node = DOMAIN a.node /\ b.up = a.up
        /\ \A y \in DOMAIN a.node : y # x => b.node[y] = a.node[y]
    BY <1>1, <2>5 DEF AfterSamples
  <2>7. m = [n EXCEPT !.lo = p.lo, !.hi = p.hi]
    <3>1. m = Resampled(n, e)
      BY <1>1, <1>2, <2>5 DEF AfterSamples
    <3> QED
      BY <2>1, <3>1 DEF Resampled
  <2>8. DOMAIN m = DOMAIN n /\ m.kind = n.kind
        /\ \A f \in DOMAIN n : m[f] = IF f \in {"lo", "hi"} THEN p[f] ELSE n[f]
    BY <2>3, <2>7 DEF Record, InkFields
  <2>9. Sets(e) = {"lo", "hi"}
    BY <1>4 DEF Sets
  <2> QED
    BY <1>1, <1>3, <2>4, <2>6, <2>8, <2>9
<1>5. CASE e.kind = "set_smart_transform"
  <2>1. Of(P, x, "box") /\ e.at = p.at
    BY <1>1, <1>5 DEF Undoes
  <2>2. p.kind = "box" /\ p \in BoxNode /\ n \in BoxNode
    BY <1>1, <1>2, <2>1, KindIs DEF Of
  <2>3. p.at \in Int /\ Record(n, BoxFields)
    BY <2>2, BoxIs
  <2>4. Fits(a, e)
    BY <1>1, <1>2, <1>5, <2>1, <2>2, <2>3 DEF Fits, FitsTransform, Of, Has, Ids
  <2>5. b = AfterTransform(a, e)
    BY <1>1, <1>5 DEF After
  <2>6. /\ DOMAIN b.node = DOMAIN a.node /\ b.up = a.up
        /\ \A y \in DOMAIN a.node : y # x => b.node[y] = a.node[y]
    BY <1>1, <2>5 DEF AfterTransform
  <2>7. m = [n EXCEPT !.at = p.at]
    BY <1>1, <1>2, <2>1, <2>5 DEF AfterTransform
  <2>8. DOMAIN m = DOMAIN n /\ m.kind = n.kind
        /\ \A f \in DOMAIN n : m[f] = IF f \in {"at"} THEN p[f] ELSE n[f]
    BY <2>3, <2>7 DEF Record, BoxFields
  <2>9. Sets(e) = {"at"}
    BY <1>5 DEF Sets
  <2> QED
    BY <1>1, <1>3, <2>4, <2>6, <2>8, <2>9
<1>6. CASE e.kind = "set_endpoint_ink"
  <2>1. /\ Of(P, x, "conn") /\ e.fromEnd \in BOOLEAN
        /\ e.strokes = IF e.fromEnd THEN p.fromInk ELSE p.toInk
    BY <1>1, <1>6 DEF Undoes
  <2>2. p.kind = "conn" /\ p \in ConnNode /\ n \in ConnNode
    BY <1>1, <1>2, <2>1, KindIs DEF Of
  <2>3. p.fromInk \in Seq(Interval) /\ p.toInk \in Seq(Interval) /\ Record(n, ConnFields)
    BY <2>2, ConnIs
  <2>4. Fits(a, e)
    <3>1. e.strokes \in Seq(Interval)
      BY <2>1, <2>3
    <3> QED
      BY <1>1, <1>2, <1>6, <2>1, <2>2, <3>1 DEF Fits, FitsEndpoint, Of, Has, Ids
  <2>5. b = AfterEndpoint(a, e)
    BY <1>1, <1>6 DEF After
  <2>6. /\ DOMAIN b.node = DOMAIN a.node /\ b.up = a.up
        /\ \A y \in DOMAIN a.node : y # x => b.node[y] = a.node[y]
    BY <1>1, <2>5 DEF AfterEndpoint
  <2>7. m = IF e.fromEnd THEN [n EXCEPT !.fromInk = p.fromInk] ELSE [n EXCEPT !.toInk = p.toInk]
    <3>1. m = IF e.fromEnd THEN [n EXCEPT !.fromInk = e.strokes] ELSE [n EXCEPT !.toInk = e.strokes]
      BY <1>1, <1>2, <2>5 DEF AfterEndpoint
    <3> QED
      BY <2>1, <3>1
  <2>8. CASE e.fromEnd
    <3>1. DOMAIN m = DOMAIN n /\ m.kind = n.kind
          /\ \A f \in DOMAIN n : m[f] = IF f \in {"fromInk"} THEN p[f] ELSE n[f]
      BY <2>3, <2>7, <2>8 DEF Record, ConnFields
    <3>2. Sets(e) = {"fromInk"}
      BY <1>6, <2>8 DEF Sets
    <3> QED
      BY <1>1, <1>3, <2>4, <2>6, <3>1, <3>2
  <2>9. CASE ~e.fromEnd
    <3>1. DOMAIN m = DOMAIN n /\ m.kind = n.kind
          /\ \A f \in DOMAIN n : m[f] = IF f \in {"toInk"} THEN p[f] ELSE n[f]
      BY <2>3, <2>7, <2>9 DEF Record, ConnFields
    <3>2. Sets(e) = {"toInk"}
      BY <1>6, <2>9 DEF Sets
    <3> QED
      BY <1>1, <1>3, <2>4, <2>6, <3>1, <3>2
  <2> QED
    BY <2>8, <2>9
<1> QED
  BY <1>1, <1>4, <1>5, <1>6 DEF Undoes

\* One more inverse: it is skipped, it does its work, or it is lost for now.
Turn(a, e, b) ==
    \/ Skipped(a, e) /\ b = a
    \/ Fits(a, e) /\ b = After(a, e)
    \/ Lost(a, e) /\ b = Pruned(a, DOMAIN e.body.node)

\* One step of mending: the next inverse fits, and what it makes is closer
\* to the outline there was.
LEMMA MendTurn ==
  ASSUME NEW P, Sound(P), NEW L, NEW G, NEW fs, Len(fs) \in Nat, NEW k \in 1..Len(fs),
         NEW a, Sound(a), Mending(a, P, L, G, fs, k), Undoes(P, L, fs, k)
  PROVE  /\ \E b : Turn(a, fs[k], b) /\ Mending(b, P, L, G, fs, k + 1)
         /\ k = Len(fs) /\ fs[k].kind # "remove_node" => Fits(a, fs[k])
         /\ fs[k].id \in DOMAIN a.node /\ fs[k].kind # "restore" => Fits(a, fs[k])
<1>1. CASE fs[k].kind = "restore" /\ fs[k].parent \in DOMAIN a.node \cup {Root}
  BY <1>1, MendBack DEF Turn
<1>2. CASE fs[k].kind = "restore" /\ fs[k].parent \notin DOMAIN a.node \cup {Root}
  BY <1>2, MendLost DEF Turn
<1>3. CASE fs[k].kind # "restore" /\ fs[k].id \notin DOMAIN a.node
  <2>1. Mending(a, P, L, G, fs, k + 1)
    BY <1>3, MendSkip
  <2>2. Skipped(a, fs[k])
    BY <1>3 DEF Undoes, Skipped, Has, Ids
  <2>3. k = Len(fs) => fs[k].kind = "remove_node"
    <3> SUFFICES ASSUME k = Len(fs), fs[k].kind # "remove_node" PROVE FALSE
      OBVIOUS
    <3>1. fs[k].id \in DOMAIN P.node
      BY <1>3 DEF Undoes, Of, Has, Ids
    <3>2. PICK j \in k..Len(fs) : fs[j].kind = "restore"
      BY <1>3, <3>1 DEF Mending, Lacking, Covered
    <3> QED
      BY <1>3, <3>2
  <2> QED
    BY <1>3, <2>1, <2>2, <2>3 DEF Turn
<1>4. CASE fs[k].kind = "remove_node" /\ fs[k].id \in DOMAIN a.node
  <2>1. Mending(Pruned(a, {fs[k].id}), P, L, G, fs, k + 1)
    BY <1>4, MendRemove DEF Undoes
  <2>2. Fits(a, fs[k]) /\ After(a, fs[k]) = Pruned(a, {fs[k].id})
    BY <1>4 DEF Fits, FitsRemove, Has, Ids, After
  <2> QED
    BY <1>4, <2>1, <2>2 DEF Turn
<1>5. CASE fs[k].kind \notin {"restore", "remove_node"} /\ fs[k].id \in DOMAIN a.node
  BY <1>5, MendSetter DEF Turn
<1> QED
  BY <1>1, <1>2, <1>3, <1>4, <1>5

-----------------------------------------------------------------------------
\* What Replay goes through.
ReplayRun(f, page, edits) ==
    /\ f[0] = [page |-> page, applied |-> FALSE]
    /\ \A i \in 1..Len(edits) : f[i] = (IF Skipped(f[i - 1].page, edits[i]) THEN f[i - 1]
           ELSE Step(f[i - 1], Apply(f[i - 1].page, edits[i])))
    /\ Replay(page, edits) = f[Len(edits)]

\* The recursion of Replay, step by step.
LEMMA ReplayUnfold ==
  ASSUME NEW page, NEW edits, Len(edits) \in Nat
  PROVE  \E f : ReplayRun(f, page, edits)
<1> DEFINE n == Len(edits)
           Eq(f, m) == f = [i \in 0..m |-> IF i = 0 THEN [page |-> page, applied |-> FALSE]
                           ELSE (IF Skipped(f[i - 1].page, edits[i]) THEN f[i - 1]
                               ELSE Step(f[i - 1], Apply(f[i - 1].page, edits[i])))]
           Reached == {m \in Nat : \E f : Eq(f, m)}
<1>1. 0 \in Reached
  <2>1. Eq([i \in 0..0 |-> [page |-> page, applied |-> FALSE]], 0)
    OBVIOUS
  <2> HIDE DEF Eq
  <2> QED
    BY <2>1
<1>2. ASSUME NEW m \in Nat, m \in Reached PROVE m + 1 \in Reached
  <2>1. PICK f : Eq(f, m)
    BY <1>2
  <2> DEFINE g == [i \in 0..(m + 1) |-> IF i = m + 1
                      THEN (IF Skipped(f[m].page, edits[m + 1]) THEN f[m]
                          ELSE Step(f[m], Apply(f[m].page, edits[m + 1]))) ELSE f[i]]
             w == [i \in 0..(m + 1) |-> IF i = 0 THEN [page |-> page, applied |-> FALSE]
                      ELSE (IF Skipped(g[i - 1].page, edits[i]) THEN g[i - 1]
                          ELSE Step(g[i - 1], Apply(g[i - 1].page, edits[i])))]
  <2>2. \A i \in 0..(m + 1) : g[i] = w[i]
    <3> TAKE i \in 0..(m + 1)
    <3>1. CASE i = 0
      <4>1. f[0] = [page |-> page, applied |-> FALSE]
        BY <2>1
      <4>2. i # m + 1
        BY <3>1
      <4>3. g[i] = f[i]
        BY <4>2
      <4>4. w[i] = [page |-> page, applied |-> FALSE]
        BY <3>1
      <4> QED
        BY <3>1, <4>1, <4>3, <4>4
    <3>2. CASE i = m + 1
      <4>1. g[i] = (IF Skipped(f[m].page, edits[m + 1]) THEN f[m] ELSE Step(f[m], Apply(f[m].page, edits[m + 1])))
                /\ i - 1 = m /\ i # 0 /\ m \in 0..(m + 1) /\ m # m + 1
        BY <3>2
      <4>2. g[m] = f[m]
        BY <4>1
      <4> QED
        BY <3>2, <4>1, <4>2
    <3>3. CASE i \in 1..m
      <4>1. i \in 0..m /\ i # 0 /\ i # m + 1 /\ i - 1 \in 0..m /\ i - 1 # m + 1 /\ i - 1 \in 0..(m + 1)
        BY <3>3
      <4>2. g[i] = f[i] /\ g[i - 1] = f[i - 1]
        BY <4>1
      <4>3. f[i] = (IF Skipped(f[i - 1].page, edits[i]) THEN f[i - 1]
                ELSE Step(f[i - 1], Apply(f[i - 1].page, edits[i])))
        BY <2>1, <4>1
      <4> QED
        BY <4>1, <4>2, <4>3
    <3> QED
      BY <3>1, <3>2, <3>3
  <2>3. g = w
    BY <2>2
  <2> HIDE DEF g
  <2>4. Eq(g, m + 1)
    BY <2>3
  <2> HIDE DEF Eq
  <2> QED
    BY <2>4
<1> HIDE DEF Reached
<1>3. n \in Reached
  BY <1>1, <1>2, InductionSet
<1>4. PICK f : Eq(f, n)
  BY <1>3 DEF Reached
<1> DEFINE a == CHOOSE h : Eq(h, n)
<1>5. Eq(a, n)
  <2> HIDE DEF Eq
  <2> QED
    BY <1>4
<1>6. Replay(page, edits) = a[n]
  BY DEF Replay
<1> HIDE DEF a
<1>7. a[0] = [page |-> page, applied |-> FALSE]
          /\ \A i \in 1..n : a[i] = (IF Skipped(a[i - 1].page, edits[i]) THEN a[i - 1]
                 ELSE Step(a[i - 1], Apply(a[i - 1].page, edits[i])))
  <2>1. a = [i \in 0..n |-> IF i = 0 THEN [page |-> page, applied |-> FALSE]
            ELSE (IF Skipped(a[i - 1].page, edits[i]) THEN a[i - 1]
                ELSE Step(a[i - 1], Apply(a[i - 1].page, edits[i])))]
    BY <1>5
  <2>2. 0 \in 0..n /\ \A i \in 1..n : i \in 0..n /\ i # 0
    OBVIOUS
  <2>3. a[0] = [page |-> page, applied |-> FALSE]
    BY <2>1, <2>2
  <2>4. ASSUME NEW i \in 1..n PROVE a[i] = (IF Skipped(a[i - 1].page, edits[i]) THEN a[i - 1]
                   ELSE Step(a[i - 1], Apply(a[i - 1].page, edits[i])))
    <3>1. PICK v : v = (IF Skipped(a[i - 1].page, edits[i]) THEN a[i - 1]
                       ELSE Step(a[i - 1], Apply(a[i - 1].page, edits[i])))
      OBVIOUS
    <3>2. i \in 0..n /\ i # 0
      BY <2>2
    <3> HIDE DEF n
    <3>3. a[i] = v
      BY <2>1, <3>1, <3>2
    <3> QED
      BY <3>1, <3>3
  <2> QED
    BY <2>3, <2>4
<1> QED
  BY <1>6, <1>7 DEF ReplayRun

\* What a turn does to the page.
LEMMA TurnIs ==
  ASSUME NEW page, Tree(page), NEW e, NEW b, Turn(Outline(page), e, b), NEW acc, acc.page = page
  PROVE  LET new == IF Skipped(acc.page, e) THEN acc ELSE Step(acc, Apply(acc.page, e))
         IN  /\ Tree(new.page) /\ Outline(new.page) = b
             /\ (acc.applied \/ Fits(Outline(page), e)) => new.applied
<1>1. Skipped(Outline(page), e) <=> Skipped(page, e)
  BY OutlineIs DEF Skipped
<1>2. CASE Skipped(Outline(page), e) /\ b = Outline(page)
  <2>1. ~Fits(Outline(page), e)
    BY <1>2 DEF Skipped, Fits, FitsRemove, FitsReparent, FitsEndpoint, FitsSamples, FitsTransform, Of, Has
  <2> QED
    BY <1>1, <1>2, <2>1
<1>3. CASE Fits(Outline(page), e) /\ b = After(Outline(page), e)
  <2>1. ~Skipped(Outline(page), e)
    BY <1>3 DEF Skipped, Fits, FitsRemove, FitsReparent, FitsEndpoint, FitsSamples, FitsTransform, Of, Has
  <2>2. Made(Apply(page, e), b)
    BY <1>3, ApplyFits
  <2> QED
    BY <1>1, <2>1, <2>2 DEF Made, Step
<1>4. CASE Lost(Outline(page), e) /\ b = Pruned(Outline(page), DOMAIN e.body.node)
  <2>1. ~Skipped(page, e) /\ e.kind = "restore"
    BY <1>4 DEF Lost, Skipped
  <2>2. ~Fits(Outline(page), e)
    BY <1>4, <2>1 DEF Fits, FitsMove, Lost
  <2>3. e.parent \notin (Ids(page) \ Below(Up(page), DOMAIN e.body.node)) \cup {Root}
    BY <1>4, OutlineIs DEF Lost
  <2>4. PICK r : r = ApplyMove(page, e.body, e.parent, e.index)
    OBVIOUS
  <2>5. Tree(r.page) /\ Outline(r.page) = b
    BY <1>4, <2>3, <2>4, MoveLost
  <2>6. Apply(page, e) = r
    BY <2>1, <2>4 DEF Apply
  <2> QED
    BY <2>1, <2>2, <2>5, <2>6 DEF Step
<1> QED
  BY <1>2, <1>3, <1>4 DEF Turn

\* A root node that is new stays until it is removed.
LEMMA KeepTop ==
  ASSUME NEW P, NEW L, NEW fs, NEW k, Undoes(P, L, fs, k), fs[k].kind # "remove_node",
         NEW a, Sound(a), NEW b, Turn(a, fs[k], b), Sound(P),
         NEW g \in DOMAIN a.node, g \notin DOMAIN P.node, a.up[g] = Root
  PROVE  g \in DOMAIN b.node /\ b.up[g] = Root
<1>1. PICK e : e = fs[k]
  OBVIOUS
<1>2. CASE e.kind = "restore"
  <2>1. DOMAIN e.body.node = Below(P.up, {e.id}) /\ g \notin DOMAIN e.body.node
    BY <1>1, <1>2, SoundIs DEF Undoes
  <2>2. g \notin Below(a.up, DOMAIN e.body.node)
    BY <2>1, BelowTop
  <2>3. g \in DOMAIN Pruned(a, DOMAIN e.body.node).node /\ Pruned(a, DOMAIN e.body.node).up[g] = Root
    BY <2>2 DEF Pruned, Restrict
  <2>4. DOMAIN Plan(e.body).node = DOMAIN e.body.node
    BY <1>1, <1>2, BodyIs DEF Undoes
  <2>5. /\ g \in DOMAIN Planted(Pruned(a, DOMAIN e.body.node), Plan(e.body), e.parent).node
        /\ Planted(Pruned(a, DOMAIN e.body.node), Plan(e.body), e.parent).up[g] = Root
    BY <2>1, <2>3, <2>4 DEF Planted
  <2>6. ~Skipped(a, e)
    BY <1>2 DEF Skipped
  <2>7. CASE Lost(a, e) /\ b = Pruned(a, DOMAIN e.body.node)
    BY <2>3, <2>7
  <2>8. CASE b = After(a, e)
    BY <1>2, <2>5, <2>8 DEF After, AfterMove
  <2> QED
    BY <1>1, <2>6, <2>7, <2>8 DEF Turn
<1>3. CASE e.kind # "restore"
  <2>1. e.kind \in {"set_ink_samples", "set_smart_transform", "set_endpoint_ink"}
    BY <1>1, <1>3 DEF Undoes
  <2>2. ~Lost(a, e)
    BY <1>3 DEF Lost
  <2>3. CASE b = After(a, e)
    <3>1. DOMAIN b.node = DOMAIN a.node /\ b.up = a.up
      BY <2>1, <2>3 DEF After, AfterSamples, AfterTransform, AfterEndpoint
    <3> QED
      BY <3>1
  <2> QED
    BY <1>1, <2>2, <2>3 DEF Turn
<1> QED
  BY <1>2, <1>3

\* The inverses of a gesture can be told to do something.
Ends(fs, D, up) ==
    \/ fs[Len(fs)].kind # "remove_node"
    \/ fs[1].kind # "restore" /\ fs[1].id \in D
    \/ /\ fs[Len(fs)].id \in D /\ up[fs[Len(fs)].id] = Root
       /\ \A j \in 1..(Len(fs) - 1) : fs[j].kind # "remove_node"

\* The inverses of a gesture, run on a page they can mend.
LEMMA MendRun ==
  ASSUME NEW P, Sound(P), NEW L, NEW G, NEW fs, UndoesAll(P, L, fs), Len(fs) # 0,
         NEW page, Tree(page), Mending(Outline(page), P, L, G, fs, 1),
         Ends(fs, Ids(page), Up(page))
  PROVE  /\ Tree(Replay(page, fs).page) /\ Replay(page, fs).applied
         /\ Mending(Outline(Replay(page, fs).page), P, L, G, fs, Len(fs) + 1)
<1>1. Len(fs) \in Nat /\ Len(fs) \in 1..Len(fs) /\ \A j \in 1..Len(fs) : Undoes(P, L, fs, j)
  BY DEF UndoesAll
<1>2. PICK f : ReplayRun(f, page, fs)
  BY <1>1, ReplayUnfold
<1>3. /\ f[0] = [page |-> page, applied |-> FALSE]
      /\ \A i \in 1..Len(fs) : f[i] = IF Skipped(f[i - 1].page, fs[i]) THEN f[i - 1]
                                      ELSE Step(f[i - 1], Apply(f[i - 1].page, fs[i]))
      /\ Replay(page, fs) = f[Len(fs)]
  BY <1>2 DEF ReplayRun
<1>20. PICK g, Topped : /\ g = fs[Len(fs)].id
                        /\ Topped = (/\ fs[Len(fs)].kind = "remove_node" /\ g \in Ids(page)
                                     /\ Up(page)[g] = Root
                                     /\ \A j \in 1..(Len(fs) - 1) : fs[j].kind # "remove_node")
  OBVIOUS
<1>21. Topped => g \notin DOMAIN P.node
  BY <1>1, <1>20 DEF Undoes
<1> DEFINE Good(i) == i <= Len(fs) =>
              /\ Tree(f[i].page) /\ Mending(Outline(f[i].page), P, L, G, fs, i + 1)
              /\ i >= 1 /\ fs[1].kind # "restore" /\ fs[1].id \in Ids(page) => f[i].applied
              /\ i = Len(fs) /\ fs[Len(fs)].kind # "remove_node" => f[i].applied
              /\ Topped /\ i < Len(fs) => g \in Ids(f[i].page) /\ Up(f[i].page)[g] = Root
              /\ Topped /\ i = Len(fs) => f[i].applied
<1>4. Good(0)
  BY <1>1, <1>3, <1>20
<1>5. ASSUME NEW i \in Nat, Good(i) PROVE Good(i + 1)
  <2> SUFFICES ASSUME i + 1 <= Len(fs)
               PROVE  /\ Tree(f[i + 1].page) /\ Mending(Outline(f[i + 1].page), P, L, G, fs, i + 1 + 1)
                      /\ fs[1].kind # "restore" /\ fs[1].id \in Ids(page) => f[i + 1].applied
                      /\ i + 1 = Len(fs) /\ fs[Len(fs)].kind # "remove_node" => f[i + 1].applied
                      /\ Topped /\ i + 1 < Len(fs) => g \in Ids(f[i + 1].page) /\ Up(f[i + 1].page)[g] = Root
                      /\ Topped /\ i + 1 = Len(fs) => f[i + 1].applied
    BY <1>1
  <2>1. /\ i + 1 \in 1..Len(fs) /\ i <= Len(fs) /\ (i + 1) - 1 = i
        /\ i >= 1 \/ i = 0
    BY <1>1
  <2>2. PICK k, a, acc, new : k = i + 1 /\ acc = f[i] /\ a = Outline(acc.page) /\ new = f[i + 1]
    OBVIOUS
  <2>3. k \in 1..Len(fs) /\ Tree(acc.page) /\ Mending(a, P, L, G, fs, k) /\ Sound(a) /\ Undoes(P, L, fs, k)
    BY <1>1, <1>5, <2>1, <2>2, TreeIs
  <2>4. new = IF Skipped(acc.page, fs[k]) THEN acc ELSE Step(acc, Apply(acc.page, fs[k]))
    BY <1>3, <2>1, <2>2
  <2>5. /\ \E b : Turn(a, fs[k], b) /\ Mending(b, P, L, G, fs, k + 1)
        /\ k = Len(fs) /\ fs[k].kind # "remove_node" => Fits(a, fs[k])
        /\ fs[k].id \in DOMAIN a.node /\ fs[k].kind # "restore" => Fits(a, fs[k])
    BY <1>1, <2>3, MendTurn
  <2>6. PICK b : Turn(a, fs[k], b) /\ Mending(b, P, L, G, fs, k + 1)
    BY <2>5
  <2>7. /\ Tree(new.page) /\ Outline(new.page) = b
        /\ (acc.applied \/ Fits(a, fs[k])) => new.applied
    <3>1. PICK p : p = acc.page
      OBVIOUS
    <3>2. Tree(p) /\ Turn(Outline(p), fs[k], b) /\ acc.page = p
      BY <2>2, <2>3, <2>6, <3>1
    <3>3. /\ Tree(new.page) /\ Outline(new.page) = b
          /\ (acc.applied \/ Fits(Outline(p), fs[k])) => new.applied
      BY <2>4, <3>2, TurnIs
    <3> QED
      BY <2>2, <3>1, <3>3
  <2>8. ASSUME fs[1].kind # "restore", fs[1].id \in Ids(page) PROVE new.applied
    <3>1. CASE i >= 1
      BY <1>5, <2>1, <2>2, <2>7, <2>8, <3>1
    <3>2. CASE i = 0
      <4>1. a = Outline(page) /\ k = 1
        BY <1>3, <2>2, <3>2
      <4>2. fs[k].id \in DOMAIN a.node
        BY <2>8, <4>1, OutlineIs
      <4> QED
        BY <2>5, <2>7, <2>8, <4>1, <4>2
    <3> QED
      BY <2>1, <3>1, <3>2
  <2>9. i + 1 = Len(fs) /\ fs[Len(fs)].kind # "remove_node" => new.applied
    BY <2>2, <2>5, <2>7
  <2>10. Topped => g \in DOMAIN a.node /\ a.up[g] = Root
    BY <1>1, <1>5, <2>1, <2>2, OutlineIs
  <2>11. ASSUME Topped, i + 1 < Len(fs) PROVE g \in Ids(new.page) /\ Up(new.page)[g] = Root
    <3>1. fs[k].kind # "remove_node"
      <4>1. k \in 1..(Len(fs) - 1)
        BY <1>1, <2>2, <2>11
      <4>2. \A j \in 1..(Len(fs) - 1) : fs[j].kind # "remove_node"
        BY <1>20, <2>11
      <4> QED
        BY <4>1, <4>2
    <3>2. g \in DOMAIN b.node /\ b.up[g] = Root
      BY <1>21, <2>3, <2>6, <2>10, <2>11, <3>1, KeepTop
    <3> QED
      BY <2>7, <3>2, OutlineIs
  <2>12. Topped /\ i + 1 = Len(fs) => new.applied
    BY <1>20, <2>2, <2>5, <2>7, <2>10
  <2> QED
    BY <2>2, <2>6, <2>7, <2>8, <2>9, <2>11, <2>12
<1>6. Good(Len(fs))
  <2> HIDE DEF Good
  <2>1. PICK S : S = {i \in Nat : Good(i)}
    OBVIOUS
  <2>2. 0 \in S /\ \A i \in Nat : i \in S => i + 1 \in S
    BY <1>4, <1>5, <2>1
  <2>3. Len(fs) \in S
    BY <1>1, <2>2, InductionSet
  <2> QED
    BY <2>1, <2>3
<1>7. Len(fs) >= 1
  BY <1>1
<1> QED
  BY <1>1, <1>3, <1>6, <1>7, <1>20 DEF Ends

-----------------------------------------------------------------------------
(***************************************************************************)
(* After the edits: lastOpIds are stamped and connectors refreshed.        *)
(***************************************************************************)
Marked(n, x, marks) == IF x \in DOMAIN marks THEN [n EXCEPT !.last = marks[x]] ELSE n
\* Stamps for the ids of a page.
Stamps(marks, D) == \A x \in DOMAIN marks \cap D : marks[x] \in Nat
\* Outlines that settle alike.
Close(a, b, L) ==
    /\ DOMAIN a.node = DOMAIN b.node /\ a.up = b.up
    /\ \A x \in DOMAIN b.node : Agree(a.node[x], b.node[x], {f \in Fields : Slack(b, L, x, f)})

\* Nodes that agree in every field are equal.
LEMMA AgreeAll ==
  ASSUME NEW m \in Node, NEW n \in Node, Agree(m, n, {})
  PROVE  m = n
<1>1. DOMAIN m = DOMAIN n /\ \A f \in DOMAIN n : m[f] = n[f]
  BY DEF Agree
<1>2. \A r \in Node : \E F : Record(r, F)
  BY InkIs, BoxIs, ConnIs DEF Node
<1>3. PICK F : Record(m, F)
  BY <1>2
<1>4. PICK E : Record(n, E)
  BY <1>2
<1>5. F = E
  BY <1>1, <1>3, <1>4 DEF Record
<1>6. [f \in F |-> m[f]] = [f \in F |-> n[f]]
  BY <1>1, <1>4, <1>5 DEF Record
<1> QED
  BY <1>3, <1>4, <1>5, <1>6 DEF Record

\* Which fields a node has.
LEMMA NodeFields ==
  ASSUME NEW n \in Node
  PROVE  /\ "last" \in DOMAIN n /\ "kind" \in DOMAIN n /\ DOMAIN n \subseteq Fields
         /\ n.kind = "box" => DOMAIN n = BoxFields /\ "at" \in DOMAIN n /\ n.at \in Int
         /\ n.kind = "conn" => DOMAIN n = ConnFields
         /\ n.kind = "ink" => DOMAIN n = InkFields
<1>1. CASE n \in InkNode
  BY <1>1, InkIs DEF Record, InkFields, Fields
<1>2. CASE n \in BoxNode
  BY <1>2, BoxIs DEF Record, BoxFields, Fields
<1>3. CASE n \in ConnNode
  BY <1>3, ConnIs DEF Record, ConnFields, Fields
<1> QED
  BY <1>1, <1>2, <1>3 DEF Node

\* A stamp changes lastOpId only.
LEMMA MarkedIs ==
  ASSUME NEW n \in Node, NEW x, NEW marks, x \in DOMAIN marks => marks[x] \in Nat
  PROVE  /\ Marked(n, x, marks) \in Node /\ Marked(n, x, marks).kind = n.kind
         /\ DOMAIN Marked(n, x, marks) = DOMAIN n
         /\ \A f \in DOMAIN n :
               Marked(n, x, marks)[f] = IF f = "last" /\ x \in DOMAIN marks THEN marks[x] ELSE n[f]
<1>1. CASE x \notin DOMAIN marks
  BY <1>1, NodeFields DEF Marked
<1>2. CASE x \in DOMAIN marks
  <2>1. PICK m, v : m = [n EXCEPT !.last = v] /\ v = marks[x]
    OBVIOUS
  <2>2. m = Marked(n, x, marks) /\ v \in Nat
    BY <1>2, <2>1 DEF Marked
  <2>3. CASE n \in InkNode
    <3>1. Record(n, InkFields)
      BY <2>3, InkIs
    <3>2. /\ Record(m, InkFields) /\ m.kind = n.kind /\ m.lo = n.lo /\ m.hi = n.hi /\ m.loop = n.loop
          /\ m.role = n.role /\ m.last = v
      BY <2>1, <3>1 DEF Record, InkFields
    <3>3. m \in InkNode
      BY <2>2, <2>3, <3>2, InkIs
    <3>4. DOMAIN m = DOMAIN n /\ \A f \in DOMAIN n : m[f] = IF f = "last" THEN v ELSE n[f]
      BY <2>1, <3>1 DEF Record, InkFields
    <3> QED
      BY <1>2, <2>1, <2>2, <3>2, <3>3, <3>4 DEF Node
  <2>4. CASE n \in BoxNode
    <3>1. Record(n, BoxFields)
      BY <2>4, BoxIs
    <3>2. Record(m, BoxFields) /\ m.kind = n.kind /\ m.at = n.at /\ m.w = n.w /\ m.last = v
      BY <2>1, <3>1 DEF Record, BoxFields
    <3>3. m \in BoxNode
      BY <2>2, <2>4, <3>2, BoxIs
    <3>4. DOMAIN m = DOMAIN n /\ \A f \in DOMAIN n : m[f] = IF f = "last" THEN v ELSE n[f]
      BY <2>1, <3>1 DEF Record, BoxFields
    <3> QED
      BY <1>2, <2>1, <2>2, <3>2, <3>3, <3>4 DEF Node
  <2>5. CASE n \in ConnNode
    <3>1. Record(n, ConnFields)
      BY <2>5, ConnIs
    <3>2. /\ Record(m, ConnFields) /\ m.kind = n.kind /\ m.from = n.from /\ m.to = n.to
          /\ m.fromAt = n.fromAt /\ m.toAt = n.toAt /\ m.p = n.p /\ m.q = n.q
          /\ m.fromInk = n.fromInk /\ m.toInk = n.toInk /\ m.last = v
      BY <2>1, <3>1 DEF Record, ConnFields
    <3>3. m \in ConnNode
      BY <2>2, <2>5, <3>2, ConnIs
    <3>4. DOMAIN m = DOMAIN n /\ \A f \in DOMAIN n : m[f] = IF f = "last" THEN v ELSE n[f]
      BY <2>1, <3>1 DEF Record, ConnFields
    <3> QED
      BY <1>2, <2>1, <2>2, <3>2, <3>3, <3>4 DEF Node
  <2> QED
    BY <2>3, <2>4, <2>5 DEF Node
<1> QED
  BY <1>1, <1>2

\* A warp changes the two end poses only.
LEMMA WarpedIs ==
  ASSUME NEW a, \A x \in DOMAIN a.node : a.node[x] \in Node, NEW c \in ConnNode
  PROVE  /\ Warped(a, c) \in ConnNode /\ Warped(a, c).kind = "conn"
         /\ DOMAIN Warped(a, c) = DOMAIN c
         /\ \A f \in DOMAIN c :
               Warped(a, c)[f] = IF f = "p" THEN EndOf(a, c.from, c.fromAt, c.p)
                                 ELSE IF f = "q" THEN EndOf(a, c.to, c.toAt, c.q) ELSE c[f]
<1>1. PICK m, v, w : /\ m = [c EXCEPT !.p = v, !.q = w] /\ v = EndOf(a, c.from, c.fromAt, c.p)
                     /\ w = EndOf(a, c.to, c.toAt, c.q)
  OBVIOUS
<1>2. m = Warped(a, c)
  BY <1>1 DEF Warped
<1>3. /\ Record(c, ConnFields) /\ c.fromAt \in Int /\ c.toAt \in Int /\ c.p \in Int /\ c.q \in Int
      /\ c.kind = "conn"
  BY ConnIs
<1>4. \A b : Of(a, b, "box") => a.node[b].at \in Int
  BY NodeFields DEF Of, Has, Ids
<1>5. v \in Int /\ w \in Int
  BY <1>1, <1>3, <1>4 DEF EndOf, Attach
<1>6. /\ Record(m, ConnFields) /\ m.kind = c.kind /\ m.from = c.from /\ m.to = c.to
      /\ m.fromAt = c.fromAt /\ m.toAt = c.toAt /\ m.p = v /\ m.q = w
      /\ m.fromInk = c.fromInk /\ m.toInk = c.toInk /\ m.last = c.last
  BY <1>1, <1>3 DEF Record, ConnFields
<1>7. m \in ConnNode
  BY <1>5, <1>6, ConnIs
<1>8. DOMAIN m = DOMAIN c /\ \A f \in DOMAIN c : m[f] = IF f = "p" THEN v ELSE IF f = "q" THEN w ELSE c[f]
  BY <1>1, <1>3 DEF Record, ConnFields
<1> QED
  BY <1>1, <1>2, <1>3, <1>6, <1>7, <1>8

\* Stamping keeps the page a tree.
LEMMA StampTree ==
  ASSUME NEW page, Tree(page), NEW marks, Stamps(marks, Ids(page))
  PROVE  /\ Tree(Stamp(page, marks)) /\ Outline(Stamp(page, marks)) = Stamp(Outline(page), marks)
         /\ Ids(Stamp(page, marks)) = Ids(page) /\ Up(Stamp(page, marks)) = Up(page)
         /\ \A x \in Ids(page) : Stamp(page, marks).node[x] = Marked(page.node[x], x, marks)
<1>1. PICK new, node, D : /\ new = Stamp(page, marks) /\ node = [x \in D |-> Marked(page.node[x], x, marks)]
                          /\ D = Ids(page)
  OBVIOUS
<1>2. /\ page = [node |-> page.node, kids |-> page.kids] /\ DOMAIN page.node = D
      /\ \A x \in D : page.node[x] \in Node
      /\ Outline(page).node = page.node /\ Outline(page).up = Up(page)
  BY <1>1, TreeIs
<1>3. new = [node |-> node, kids |-> page.kids]
  BY <1>1, <1>2 DEF Stamp, Marked
<1>4. \A x \in D : node[x] \in Node /\ node[x].kind = page.node[x].kind
  BY <1>1, <1>2, MarkedIs DEF Stamps
<1>5. node \in [D -> Node]
  BY <1>1, <1>4
<1>6. Tree(new) /\ Outline(new) = [node |-> node, up |-> Up(page)] /\ Ids(new) = D
  BY <1>1, <1>3, <1>4, <1>5, NewNodes
<1>7. Stamp(Outline(page), marks) = [node |-> node, up |-> Up(page)]
  <2>1. Outline(page) = [node |-> page.node, up |-> Up(page)]
    BY DEF Outline
  <2> QED
    BY <1>1, <1>2, <2>1 DEF Stamp, Marked
<1> QED
  BY <1>1, <1>3, <1>6, <1>7, OutlineIs

Fresh(a, x) == IF a.node[x].kind = "conn" THEN Warped(a, a.node[x]) ELSE a.node[x]

\* A refreshed node is a node of its kind.
LEMMA FreshIs ==
  ASSUME NEW a, \A x \in DOMAIN a.node : a.node[x] \in Node, NEW x \in DOMAIN a.node
  PROVE  Fresh(a, x) \in Node /\ Fresh(a, x).kind = a.node[x].kind
BY WarpedIs, KindIs DEF Fresh, Node

\* Refreshing the connectors keeps the page a tree.
LEMMA RefreshTree ==
  ASSUME NEW page, Tree(page)
  PROVE  /\ Tree(Refresh(page)) /\ Outline(Refresh(page)) = Refresh(Outline(page))
         /\ Ids(Refresh(page)) = Ids(page) /\ Up(Refresh(page)) = Up(page)
         /\ \A x \in Ids(page) : Refresh(page).node[x] = Fresh(page, x)
<1>1. PICK new, node, D : /\ new = Refresh(page) /\ node = [x \in D |-> Fresh(page, x)] /\ D = Ids(page)
  OBVIOUS
<1>2. /\ page = [node |-> page.node, kids |-> page.kids] /\ DOMAIN page.node = D
      /\ \A x \in D : page.node[x] \in Node
      /\ Outline(page).node = page.node /\ Outline(page).up = Up(page)
  BY <1>1, TreeIs
<1>3. new = [node |-> node, kids |-> page.kids]
  BY <1>1, <1>2 DEF Refresh, Fresh
<1>4. \A x \in D : node[x] \in Node /\ node[x].kind = page.node[x].kind
  BY <1>1, <1>2, FreshIs
<1>5. node \in [D -> Node]
  BY <1>1, <1>4
<1>6. Tree(new) /\ Outline(new) = [node |-> node, up |-> Up(page)] /\ Ids(new) = D
  BY <1>1, <1>3, <1>4, <1>5, NewNodes
<1>7. Refresh(Outline(page)) = [node |-> node, up |-> Up(page)]
  <2>1. PICK a : a = Outline(page)
    OBVIOUS
  <2>2. a = [node |-> page.node, up |-> Up(page)] /\ a.node = page.node
    BY <2>1 DEF Outline
  <2>3. Refresh(a) = [node |-> [x \in DOMAIN page.node |-> Fresh(a, x)], up |-> Up(page)]
    BY <2>2 DEF Refresh, Fresh
  <2>4. \A x : Fresh(a, x) = Fresh(page, x)
    BY <2>2 DEF Fresh, Warped, EndOf, Of, Has, Ids, Attach
  <2> QED
    BY <1>1, <1>2, <2>1, <2>3, <2>4
<1> QED
  BY <1>1, <1>3, <1>6, <1>7, OutlineIs

-----------------------------------------------------------------------------
\* What a stamp makes of an outline.
LEMMA StampIs ==
  ASSUME NEW a, a = [node |-> a.node, up |-> a.up], \A x \in DOMAIN a.node : a.node[x] \in Node,
         NEW marks, Stamps(marks, DOMAIN a.node), NEW b, b = Stamp(a, marks)
  PROVE  /\ b = [node |-> b.node, up |-> b.up] /\ b.up = a.up /\ DOMAIN b.node = DOMAIN a.node
         /\ \A x \in DOMAIN a.node : b.node[x] = Marked(a.node[x], x, marks) /\ b.node[x] \in Node
                                      /\ b.node[x].kind = a.node[x].kind
<1>1. Stamp(a, marks) = [node |-> [x \in DOMAIN a.node |-> Marked(a.node[x], x, marks)], up |-> a.up]
  BY DEF Stamp, Marked
<1>2. \A x \in DOMAIN a.node : Marked(a.node[x], x, marks) \in Node
          /\ Marked(a.node[x], x, marks).kind = a.node[x].kind
  BY MarkedIs DEF Stamps
<1> QED
  BY <1>1, <1>2

\* What a refresh makes of an outline.
LEMMA RefreshIs ==
  ASSUME NEW a, a = [node |-> a.node, up |-> a.up]
  PROVE  Refresh(a) = [node |-> [x \in DOMAIN a.node |-> Fresh(a, x)], up |-> a.up]
BY DEF Refresh, Fresh

\* Outlines that differ only in lastOpIds to be stamped and poses to be
\* refreshed end as one.
LEMMA SettleSame ==
  ASSUME NEW a, Sound(a), NEW b, Sound(b), NEW L, NEW marks, NEW others,
         DOMAIN marks = L, DOMAIN others = L,
         \A x \in L \cap DOMAIN b.node : marks[x] \in Nat /\ marks[x] = others[x],
         Close(a, b, L)
  PROVE  Refresh(Stamp(a, marks)) = Refresh(Stamp(b, others))
<1> DEFINE D == DOMAIN b.node
<1>1. DOMAIN a.node = D /\ a.up = b.up
      /\ \A x \in D : Agree(a.node[x], b.node[x], {f \in Fields : Slack(b, L, x, f)})
  BY DEF Close
<1>2. /\ a = [node |-> a.node, up |-> a.up] /\ b = [node |-> b.node, up |-> b.up]
      /\ \A x \in D : a.node[x] \in Node /\ b.node[x] \in Node
  BY <1>1, SoundIs DEF Sound
<1>3. PICK c, d : c = Stamp(a, marks) /\ d = Stamp(b, others)
  OBVIOUS
<1>4. Stamps(marks, D) /\ Stamps(others, D)
  BY DEF Stamps
<1>5. /\ c = [node |-> c.node, up |-> c.up] /\ c.up = a.up /\ DOMAIN c.node = D
      /\ \A x \in D : c.node[x] = Marked(a.node[x], x, marks) /\ c.node[x] \in Node
                      /\ c.node[x].kind = a.node[x].kind
  <2>1. Stamps(marks, DOMAIN a.node) /\ \A x \in DOMAIN a.node : a.node[x] \in Node
    BY <1>1, <1>2, <1>4
  <2> HIDE DEF D
  <2>2. /\ c = [node |-> c.node, up |-> c.up] /\ c.up = a.up /\ DOMAIN c.node = DOMAIN a.node
        /\ \A x \in DOMAIN a.node : c.node[x] = Marked(a.node[x], x, marks) /\ c.node[x] \in Node
                                    /\ c.node[x].kind = a.node[x].kind
    BY <1>2, <1>3, <2>1, StampIs
  <2> QED
    BY <1>1, <2>2
<1>6. /\ d = [node |-> d.node, up |-> d.up] /\ d.up = b.up /\ DOMAIN d.node = D
      /\ \A x \in D : d.node[x] = Marked(b.node[x], x, others) /\ d.node[x] \in Node
                      /\ d.node[x].kind = b.node[x].kind
  BY <1>2, <1>3, <1>4, StampIs
<1>7. \A x \in D : a.node[x].kind = b.node[x].kind /\ c.node[x].kind = d.node[x].kind
  BY <1>1, <1>5, <1>6 DEF Agree
<1>8. ASSUME NEW x \in D
      PROVE  /\ DOMAIN c.node[x] = DOMAIN d.node[x] /\ DOMAIN d.node[x] = DOMAIN b.node[x]
             /\ \A f \in DOMAIN d.node[x] : f \notin {"p", "q"} => c.node[x][f] = d.node[x][f]
             /\ \A f \in DOMAIN d.node[x] : ~Slack(b, {}, x, f) => c.node[x][f] = d.node[x][f]
  <2>1. PICK m, n, v, w : /\ m = a.node[x] /\ n = b.node[x] /\ v = c.node[x] /\ w = d.node[x]
    OBVIOUS
  <2>2. m \in Node /\ n \in Node /\ v = Marked(m, x, marks) /\ w = Marked(n, x, others)
    BY <1>2, <1>5, <1>6, <2>1
  <2>3. (x \in L => marks[x] \in Nat /\ others[x] \in Nat /\ marks[x] = others[x])
    OBVIOUS
  <2>4. DOMAIN v = DOMAIN m /\ \A f \in DOMAIN m : v[f] = IF f = "last" /\ x \in L THEN marks[x] ELSE m[f]
    BY <2>2, <2>3, MarkedIs
  <2>5. DOMAIN w = DOMAIN n /\ \A f \in DOMAIN n : w[f] = IF f = "last" /\ x \in L THEN others[x] ELSE n[f]
    BY <2>2, <2>3, MarkedIs
  <2>6. DOMAIN m = DOMAIN n /\ \A f \in DOMAIN n : ~(f \in Fields /\ Slack(b, L, x, f)) => m[f] = n[f]
    BY <1>1, <2>1 DEF Agree
  <2>7. \A f : Slack(b, L, x, f) /\ f \notin {"p", "q"} => f = "last" /\ x \in L
    BY DEF Slack
  <2>8. \A f : Slack(b, L, x, f) /\ ~Slack(b, {}, x, f) => f = "last" /\ x \in L
    BY DEF Slack
  <2>9. \A f \in DOMAIN n : f \notin {"p", "q"} => v[f] = w[f]
    BY <2>3, <2>4, <2>5, <2>6, <2>7
  <2>10. \A f \in DOMAIN n : ~Slack(b, {}, x, f) => v[f] = w[f]
    BY <2>3, <2>4, <2>5, <2>6, <2>8
  <2> QED
    BY <2>1, <2>4, <2>5, <2>6, <2>9, <2>10
<1> HIDE DEF D
<1>9. ASSUME NEW y, NEW anchor, NEW p, NEW q, Of(b, y, "box") \/ p = q
      PROVE  EndOf(c, y, anchor, p) = EndOf(d, y, anchor, q)
  <2>1. Of(c, y, "box") <=> Of(d, y, "box")
    BY <1>5, <1>6, <1>7 DEF Of, Has, Ids
  <2>2. Of(b, y, "box") <=> Of(d, y, "box")
    BY <1>6 DEF Of, Has, Ids, D
  <2>3. Of(d, y, "box") => c.node[y].at = d.node[y].at
    <3> SUFFICES ASSUME Of(d, y, "box") PROVE c.node[y].at = d.node[y].at
      OBVIOUS
    <3>1. y \in D /\ d.node[y].kind = "box" /\ d.node[y] \in Node
      BY <1>6 DEF Of, Has, Ids
    <3>2. "at" \in DOMAIN d.node[y]
      BY <3>1, NodeFields
    <3> QED
      BY <1>8, <3>1, <3>2
  <2> QED
    BY <1>9, <2>1, <2>2, <2>3 DEF EndOf, Attach
<1>10. ASSUME NEW x \in D PROVE Fresh(c, x) = Fresh(d, x)
  <2>1. PICK v, w : v = c.node[x] /\ w = d.node[x]
    OBVIOUS
  <2>2. v \in Node /\ w \in Node /\ v.kind = w.kind /\ w.kind = b.node[x].kind
    BY <1>5, <1>6, <1>7, <2>1
  <2>3. DOMAIN v = DOMAIN w /\ \A f \in DOMAIN w : f \notin {"p", "q"} => v[f] = w[f]
    BY <1>8, <2>1
  <2>4. CASE w.kind # "conn"
    <3>1. \A f : ~Slack(b, {}, x, f)
      BY <2>2, <2>4 DEF Slack, Of
    <3>2. Agree(v, w, {})
      BY <1>8, <2>1, <2>2, <3>1 DEF Agree
    <3>3. v = w
      BY <2>2, <3>2, AgreeAll
    <3> QED
      BY <2>1, <2>2, <2>4, <3>3 DEF Fresh
  <2>5. CASE w.kind = "conn"
    <3>1. v \in ConnNode /\ w \in ConnNode /\ DOMAIN w = ConnFields /\ Of(b, x, "conn")
      BY <1>6, <2>2, <2>5, KindIs, NodeFields DEF Of, Has, Ids, D
    <3>2. v.from = w.from /\ v.to = w.to /\ v.fromAt = w.fromAt /\ v.toAt = w.toAt
      BY <2>3, <3>1 DEF ConnFields
    <3>3. b.node[x].from = w.from /\ b.node[x].to = w.to
      <4>1. PICK n : n = b.node[x]
        OBVIOUS
      <4>2. n \in Node /\ w = Marked(n, x, others) /\ n.kind = "conn"
        BY <1>2, <1>6, <2>1, <2>2, <2>5, <4>1 DEF D
      <4>3. x \in DOMAIN others => others[x] \in Nat
        BY DEF D
      <4>4. \A f \in DOMAIN n : w[f] = IF f = "last" /\ x \in DOMAIN others THEN others[x] ELSE n[f]
        BY <4>2, <4>3, MarkedIs
      <4>5. DOMAIN n = ConnFields
        BY <4>2, NodeFields
      <4> QED
        BY <4>1, <4>4, <4>5 DEF ConnFields
    <3>4. Of(b, w.from, "box") \/ v.p = w.p
      <4>1. ~Slack(b, {}, x, "p") => v["p"] = w["p"]
        BY <1>8, <2>1, <3>1 DEF ConnFields
      <4>2. Slack(b, {}, x, "p") => Of(b, w.from, "box")
        BY <3>3 DEF Slack
      <4> QED
        BY <4>1, <4>2
    <3>5. Of(b, w.to, "box") \/ v.q = w.q
      <4>1. ~Slack(b, {}, x, "q") => v["q"] = w["q"]
        BY <1>8, <2>1, <3>1 DEF ConnFields
      <4>2. Slack(b, {}, x, "q") => Of(b, w.to, "box")
        BY <3>3 DEF Slack
      <4> QED
        BY <4>1, <4>2
    <3>6. EndOf(c, w.from, w.fromAt, v.p) = EndOf(d, w.from, w.fromAt, w.p)
      BY <1>9, <3>4
    <3>7. EndOf(c, w.to, w.toAt, v.q) = EndOf(d, w.to, w.toAt, w.q)
      BY <1>9, <3>5
    <3>8. PICK vv, ww : vv = Warped(c, v) /\ ww = Warped(d, w)
      OBVIOUS
    <3>9. /\ vv \in ConnNode /\ DOMAIN vv = DOMAIN v
          /\ \A f \in DOMAIN v : vv[f] = IF f = "p" THEN EndOf(c, v.from, v.fromAt, v.p)
                                         ELSE IF f = "q" THEN EndOf(c, v.to, v.toAt, v.q) ELSE v[f]
      <4>1. \A y \in DOMAIN c.node : c.node[y] \in Node
        BY <1>5
      <4> QED
        BY <3>1, <3>8, <4>1, WarpedIs
    <3>10. /\ ww \in ConnNode /\ DOMAIN ww = DOMAIN w
           /\ \A f \in DOMAIN w : ww[f] = IF f = "p" THEN EndOf(d, w.from, w.fromAt, w.p)
                                          ELSE IF f = "q" THEN EndOf(d, w.to, w.toAt, w.q) ELSE w[f]
      <4>1. \A y \in DOMAIN d.node : d.node[y] \in Node
        BY <1>6
      <4> QED
        BY <3>1, <3>8, <4>1, WarpedIs
    <3>11. \A f \in DOMAIN w : vv[f] = ww[f]
      BY <2>3, <3>2, <3>6, <3>7, <3>9, <3>10
    <3>12. Agree(vv, ww, {}) /\ vv \in Node /\ ww \in Node
      BY <2>3, <3>9, <3>10, <3>11, ConnIs DEF Agree, Node
    <3>13. vv = ww
      BY <3>12, AgreeAll
    <3> QED
      BY <2>1, <2>2, <2>5, <3>8, <3>13 DEF Fresh
  <2> QED
    BY <2>4, <2>5
<1>11. Refresh(c) = [node |-> [x \in D |-> Fresh(c, x)], up |-> b.up]
  BY <1>1, <1>5, RefreshIs
<1>12. Refresh(d) = [node |-> [x \in D |-> Fresh(d, x)], up |-> b.up]
  BY <1>6, RefreshIs
<1> QED
  BY <1>3, <1>10, <1>11, <1>12

-----------------------------------------------------------------------------
\* What stamping and refreshing leaves of an outline.
LEMMA SettledIs ==
  ASSUME NEW a, a = [node |-> a.node, up |-> a.up], \A x \in DOMAIN a.node : a.node[x] \in Node,
         NEW marks, Stamps(marks, DOMAIN a.node), NEW b, b = Refresh(Stamp(a, marks))
  PROVE  /\ b = [node |-> b.node, up |-> b.up] /\ b.up = a.up /\ DOMAIN b.node = DOMAIN a.node
         /\ Refresh(b) = b
         /\ \A x \in DOMAIN a.node :
               /\ b.node[x] \in Node /\ b.node[x].kind = a.node[x].kind
               /\ DOMAIN b.node[x] = DOMAIN a.node[x]
               /\ \A f \in DOMAIN a.node[x] :
                     /\ f \notin {"last", "p", "q"} => b.node[x][f] = a.node[x][f]
                     /\ f = "last" => b.node[x][f] = IF x \in DOMAIN marks THEN marks[x] ELSE a.node[x][f]
                     /\ f = "p" /\ ~Of(a, a.node[x].from, "box") => b.node[x][f] = a.node[x][f]
                     /\ f = "q" /\ ~Of(a, a.node[x].to, "box") => b.node[x][f] = a.node[x][f]
<1>1. PICK c, D : c = Stamp(a, marks) /\ D = DOMAIN a.node
  OBVIOUS
<1>2. /\ c = [node |-> c.node, up |-> c.up] /\ c.up = a.up /\ DOMAIN c.node = D
      /\ \A x \in D : c.node[x] = Marked(a.node[x], x, marks) /\ c.node[x] \in Node
                      /\ c.node[x].kind = a.node[x].kind
  BY <1>1, StampIs
<1>3. \A x \in DOMAIN c.node : c.node[x] \in Node
  BY <1>2
<1>4. b = [node |-> [x \in D |-> Fresh(c, x)], up |-> a.up]
  BY <1>1, <1>2, RefreshIs
<1>5. \A x \in D : b.node[x] = Fresh(c, x) /\ b.node[x] \in Node /\ b.node[x].kind = c.node[x].kind
  <2>1. \A x \in D : Fresh(c, x) \in Node /\ Fresh(c, x).kind = c.node[x].kind
    BY <1>2, <1>3, FreshIs
  <2> QED
    BY <1>4, <2>1
<1>6. \A y, kind : Of(c, y, kind) <=> Of(a, y, kind)
  BY <1>1, <1>2 DEF Of, Has, Ids
<1>7. \A y, kind : Of(b, y, kind) <=> Of(a, y, kind)
  BY <1>1, <1>2, <1>4, <1>5 DEF Of, Has, Ids
<1>8. ASSUME NEW x \in D
      PROVE  /\ DOMAIN b.node[x] = DOMAIN a.node[x]
             /\ \A f \in DOMAIN a.node[x] :
                     /\ f \notin {"last", "p", "q"} => b.node[x][f] = a.node[x][f]
                     /\ f = "last" => b.node[x][f] = IF x \in DOMAIN marks THEN marks[x] ELSE a.node[x][f]
                     /\ f = "p" /\ ~Of(a, a.node[x].from, "box") => b.node[x][f] = a.node[x][f]
                     /\ f = "q" /\ ~Of(a, a.node[x].to, "box") => b.node[x][f] = a.node[x][f]
             /\ Fresh(b, x) = b.node[x]
  <2>1. PICK n, v, w : n = a.node[x] /\ v = c.node[x] /\ w = b.node[x]
    OBVIOUS
  <2>2. n \in Node /\ v = Marked(n, x, marks) /\ v \in Node /\ v.kind = n.kind
    BY <1>1, <1>2, <2>1
  <2>3. x \in DOMAIN marks => marks[x] \in Nat
    BY <1>1 DEF Stamps
  <2>4. DOMAIN v = DOMAIN n /\ \A f \in DOMAIN n : v[f] = IF f = "last" /\ x \in DOMAIN marks THEN marks[x]
            ELSE n[f]
    BY <2>2, <2>3, MarkedIs
  <2>5. CASE n.kind # "conn"
    <3>1. w = v
      BY <1>5, <2>1, <2>2, <2>5 DEF Fresh
    <3>2. Fresh(b, x) = w
      BY <1>5, <2>1, <2>2, <2>5 DEF Fresh
    <3>3. DOMAIN n = InkFields \/ DOMAIN n = BoxFields
      BY <2>2, <2>5, KindIs, NodeFields
    <3>4. "p" \notin DOMAIN n /\ "q" \notin DOMAIN n
      BY <3>3 DEF InkFields, BoxFields
    <3> QED
      BY <2>1, <2>4, <3>1, <3>2, <3>4
  <2>6. CASE n.kind = "conn"
    <3>1. v \in ConnNode /\ w = Warped(c, v) /\ DOMAIN n = ConnFields
      BY <1>5, <2>1, <2>2, <2>6, KindIs, NodeFields DEF Fresh
    <3>2. /\ w \in ConnNode /\ DOMAIN w = DOMAIN v
          /\ \A f \in DOMAIN v : w[f] = IF f = "p" THEN EndOf(c, v.from, v.fromAt, v.p)
                                        ELSE IF f = "q" THEN EndOf(c, v.to, v.toAt, v.q) ELSE v[f]
      BY <1>3, <3>1, WarpedIs
    <3>3. v.from = n.from /\ v.to = n.to /\ v.p = n.p /\ v.q = n.q /\ "last" \in DOMAIN n
      BY <2>4, <3>1 DEF ConnFields
    <3>4. w.from = n.from /\ w.to = n.to /\ w.fromAt = v.fromAt /\ w.toAt = v.toAt
      BY <2>4, <3>1, <3>2, <3>3 DEF ConnFields
    <3>5. ~Of(a, n.from, "box") => w["p"] = n["p"]
      BY <1>6, <2>4, <3>1, <3>2, <3>3 DEF EndOf, ConnFields
    <3>6. ~Of(a, n.to, "box") => w["q"] = n["q"]
      BY <1>6, <2>4, <3>1, <3>2, <3>3 DEF EndOf, ConnFields
    <3>7. \A f \in DOMAIN n : f \notin {"p", "q"} => w[f] = v[f]
      BY <2>4, <3>2
    <3>8. Fresh(b, x) = Warped(b, w)
      BY <1>5, <2>1, <2>2, <2>6 DEF Fresh
    <3>9. \A y \in DOMAIN b.node : b.node[y] \in Node
      BY <1>4, <1>5
    <3>10. PICK u : u = Warped(b, w)
      OBVIOUS
    <3>11. /\ u \in ConnNode /\ DOMAIN u = DOMAIN w
           /\ \A f \in DOMAIN w : u[f] = IF f = "p" THEN EndOf(b, w.from, w.fromAt, w.p)
                                        ELSE IF f = "q" THEN EndOf(b, w.to, w.toAt, w.q) ELSE w[f]
      BY <3>2, <3>9, <3>10, WarpedIs
    <3>12. \A y : Of(a, y, "box") => b.node[y].at = c.node[y].at
      <4> SUFFICES ASSUME NEW y, Of(a, y, "box") PROVE b.node[y].at = c.node[y].at
        OBVIOUS
      <4>1. y \in D /\ a.node[y].kind = "box"
        BY <1>1 DEF Of, Has, Ids
      <4> QED
        BY <1>2, <1>5, <4>1 DEF Fresh
    <3>13. \A anchor, y, z, pose : EndOf(b, y, anchor, EndOf(c, y, anchor, pose)) = EndOf(c, y, anchor, pose)
      BY <1>6, <1>7, <3>12 DEF EndOf, Attach
    <3>14. w.p = EndOf(c, v.from, v.fromAt, v.p) /\ w.q = EndOf(c, v.to, v.toAt, v.q)
      BY <2>4, <3>1, <3>2 DEF ConnFields
    <3>15. EndOf(b, w.from, w.fromAt, w.p) = w.p /\ EndOf(b, w.to, w.toAt, w.q) = w.q
      BY <3>3, <3>4, <3>13, <3>14
    <3>16. \A f \in DOMAIN w : u[f] = w[f]
      BY <3>11, <3>15
    <3>17. u \in Node /\ w \in Node /\ Agree(u, w, {})
      BY <3>2, <3>11, <3>16, ConnIs DEF Agree, Node
    <3>18. u = w
      BY <3>17, AgreeAll
    <3>19. \A f \in DOMAIN n : f = "last" => w[f] = IF x \in DOMAIN marks THEN marks[x] ELSE n[f]
      BY <2>4, <3>7
    <3>20. \A f \in DOMAIN n : f \notin {"last", "p", "q"} => w[f] = n[f]
      BY <2>4, <3>7
    <3> QED
      BY <2>1, <2>4, <3>2, <3>5, <3>6, <3>8, <3>10, <3>18, <3>19, <3>20
  <2> QED
    BY <2>5, <2>6
<1>9. Refresh(b) = [node |-> [x \in DOMAIN b.node |-> Fresh(b, x)], up |-> b.up]
  BY <1>4, RefreshIs
<1>10. Refresh(b) = b
  BY <1>4, <1>8, <1>9
<1>11. b = [node |-> b.node, up |-> b.up] /\ b.up = a.up /\ DOMAIN b.node = DOMAIN a.node
  BY <1>1, <1>4
<1>12. \A x \in DOMAIN a.node : b.node[x] \in Node /\ b.node[x].kind = a.node[x].kind
  BY <1>1, <1>2, <1>5
<1> QED
  BY <1>1, <1>8, <1>10, <1>11, <1>12

\* Stamps a page has already.
LEMMA OwnStamp ==
  ASSUME NEW a, Sound(a), NEW marks, \A x \in DOMAIN marks \cap DOMAIN a.node : marks[x] = a.node[x].last
  PROVE  Stamp(a, marks) = a
<1>1. a = [node |-> a.node, up |-> a.up] /\ a.node = [x \in DOMAIN a.node |-> a.node[x]]
  BY DEF Sound
<1>2. ASSUME NEW x \in DOMAIN a.node PROVE Marked(a.node[x], x, marks) = a.node[x]
  <2>1. PICK n : n = a.node[x]
    OBVIOUS
  <2>2. n \in Node
    BY <2>1, SoundIs
  <2>3. n.last \in Nat /\ (x \in DOMAIN marks => marks[x] = n.last)
    BY <2>1, <2>2, KindIs
  <2>4. PICK v : v = Marked(n, x, marks)
    OBVIOUS
  <2>5. /\ v \in Node /\ v.kind = n.kind /\ DOMAIN v = DOMAIN n
        /\ \A f \in DOMAIN n : v[f] = IF f = "last" /\ x \in DOMAIN marks THEN marks[x] ELSE n[f]
    <3>1. x \in DOMAIN marks => marks[x] \in Nat
      BY <2>3
    <3> QED
      BY <2>2, <2>4, <3>1, MarkedIs
  <2>6. \A f \in DOMAIN n : v[f] = n[f]
    BY <2>3, <2>5
  <2>7. v = n
    BY <2>2, <2>5, <2>6, AgreeAll DEF Agree
  <2> QED
    BY <2>1, <2>4, <2>7
<1>3. Stamp(a, marks) = [node |-> [x \in DOMAIN a.node |-> Marked(a.node[x], x, marks)], up |-> a.up]
  BY <1>1 DEF Stamp, Marked
<1> QED
  BY <1>1, <1>2, <1>3

-----------------------------------------------------------------------------
\* When no inverse is left to run, what is open is what settles.
LEMMA Mended ==
  ASSUME NEW P, Sound(P), NEW L, NEW G, NEW fs, Len(fs) \in Nat, NEW a, Sound(a),
         Mending(a, P, L, G, fs, Len(fs) + 1)
  PROVE  Close(a, P, L)
<1>1. (Len(fs) + 1)..Len(fs) = {}
  OBVIOUS
<1>2. /\ Lacking(a, P, fs, Len(fs) + 1) /\ Standing(a, P, L, G, fs, Len(fs) + 1)
      /\ Strangers(a, P, fs, Len(fs) + 1)
  BY DEF Mending
<1>3. \A x : ~Covered(P, fs, Len(fs) + 1, x)
  BY <1>1 DEF Covered
<1>4. \A x : Open(P, L, fs, Len(fs) + 1, x) = {f \in Fields : Slack(P, L, x, f)}
  BY <1>1 DEF Open
<1>5. DOMAIN a.node = DOMAIN P.node
  BY <1>1, <1>2, <1>3 DEF Lacking, Strangers
<1>6. \A x \in DOMAIN P.node : a.up[x] = P.up[x] /\ Agree(a.node[x], P.node[x], {f \in Fields : Slack(P, L, x, f)})
  BY <1>2, <1>3, <1>4, <1>5 DEF Standing
<1>7. a.up = [x \in DOMAIN a.node |-> a.up[x]] /\ P.up = [x \in DOMAIN P.node |-> P.up[x]]
  BY DEF Sound
<1> QED
  BY <1>5, <1>6, <1>7 DEF Close

\* No connector of P names a node that is new in a.
Unnamed(a, P) ==
    \A x \in DOMAIN P.node : P.node[x].kind = "conn" =>
        {P.node[x].from, P.node[x].to} \cap (DOMAIN a.node \ DOMAIN P.node) = {}

\* Stamps and refreshed connectors are undone with the rest.
LEMMA MendSettled ==
  ASSUME NEW P, Sound(P), NEW L, NEW G, NEW fs, NEW a, Sound(a), Mending(a, P, L, G, fs, 1),
         NEW marks, DOMAIN marks = L, Stamps(marks, DOMAIN a.node), Unnamed(a, P),
         NEW b, b = Refresh(Stamp(a, marks))
  PROVE  Mending(b, P, L, G, fs, 1)
<1>1. a = [node |-> a.node, up |-> a.up] /\ \A x \in DOMAIN a.node : a.node[x] \in Node
  BY SoundIs DEF Sound
<1>2. /\ b.up = a.up /\ DOMAIN b.node = DOMAIN a.node
      /\ \A x \in DOMAIN a.node :
               /\ b.node[x] \in Node /\ b.node[x].kind = a.node[x].kind
               /\ DOMAIN b.node[x] = DOMAIN a.node[x]
               /\ \A f \in DOMAIN a.node[x] :
                     /\ f \notin {"last", "p", "q"} => b.node[x][f] = a.node[x][f]
                     /\ f = "last" => b.node[x][f] = IF x \in DOMAIN marks THEN marks[x] ELSE a.node[x][f]
                     /\ f = "p" /\ ~Of(a, a.node[x].from, "box") => b.node[x][f] = a.node[x][f]
                     /\ f = "q" /\ ~Of(a, a.node[x].to, "box") => b.node[x][f] = a.node[x][f]
  BY <1>1, SettledIs
<1>3. /\ Lacking(a, P, fs, 1) /\ Standing(a, P, L, G, fs, 1)
      /\ Strangers(a, P, fs, 1) /\ Hosts(a, P, G, fs)
  BY DEF Mending
<1>4. Lacking(b, P, fs, 1) /\ Strangers(b, P, fs, 1) /\ Hosts(b, P, G, fs)
  BY <1>2, <1>3 DEF Lacking, Strangers, Hosts
<1>5. ASSUME NEW x \in DOMAIN P.node \cap DOMAIN a.node, Agree(a.node[x], P.node[x], Open(P, L, fs, 1, x))
      PROVE  Agree(b.node[x], P.node[x], Open(P, L, fs, 1, x))
  <2>1. PICK O, m, n, w : O = Open(P, L, fs, 1, x) /\ m = a.node[x] /\ n = P.node[x] /\ w = b.node[x]
    OBVIOUS
  <2>2. DOMAIN m = DOMAIN n /\ m.kind = n.kind /\ \A f \in DOMAIN n \ O : m[f] = n[f]
    BY <1>5, <2>1 DEF Agree
  <2>3. n \in Node /\ DOMAIN n \subseteq Fields
    BY <2>1, SoundIs, NodeFields
  <2>4. \A f \in Fields : Slack(P, L, x, f) => f \in O
    BY <2>1 DEF Open
  <2>5. \A j, kind : Sets(fs[j]) \cap {"from", "to"} = {}
    BY DEF Sets
  <2>6. "from" \notin O /\ "to" \notin O
    BY <2>1, <2>5 DEF Open, Slack
  <2>7. n.kind # "conn" => "p" \notin DOMAIN n /\ "q" \notin DOMAIN n
    <3>1. n.kind # "conn" => DOMAIN n = InkFields \/ DOMAIN n = BoxFields
      BY <2>3, KindIs, NodeFields
    <3> QED
      BY <3>1 DEF InkFields, BoxFields
  <2>8. \A y : Of(a, y, "box") /\ y \notin DOMAIN a.node \ DOMAIN P.node => Of(P, y, "box")
    BY <1>3 DEF Of, Has, Ids, Standing
  <2>9. ASSUME n.kind = "conn"
        PROVE  /\ m.from = n.from /\ m.to = n.to
               /\ n.from \notin DOMAIN a.node \ DOMAIN P.node /\ n.to \notin DOMAIN a.node \ DOMAIN P.node
               /\ Of(P, x, "conn")
    <3>1. "from" \in DOMAIN n /\ "to" \in DOMAIN n
      BY <2>3, <2>9, NodeFields DEF ConnFields
    <3>2. n.from \notin DOMAIN a.node \ DOMAIN P.node /\ n.to \notin DOMAIN a.node \ DOMAIN P.node
      BY <2>1, <2>9 DEF Unnamed
    <3>3. Of(P, x, "conn")
      BY <2>1, <2>9 DEF Of, Has, Ids
    <3> QED
      BY <2>2, <2>6, <3>1, <3>2, <3>3
  <2>10. ASSUME NEW f \in DOMAIN n \ O PROVE w[f] = n[f]
    <3>1. m[f] = n[f] /\ f \in DOMAIN m /\ ~Slack(P, L, x, f)
      BY <2>2, <2>3, <2>4
    <3>2. CASE f \notin {"last", "p", "q"}
      BY <1>2, <2>1, <3>1, <3>2
    <3>3. CASE f = "last"
      BY <1>2, <2>1, <3>1, <3>3 DEF Slack
    <3>4. CASE f = "p"
      <4>1. n.kind = "conn"
        BY <2>7, <3>4
      <4>2. ~Of(a, m.from, "box")
        BY <2>1, <2>8, <2>9, <3>1, <3>4, <4>1 DEF Slack
      <4> QED
        BY <1>2, <2>1, <3>1, <3>4, <4>2
    <3>5. CASE f = "q"
      <4>1. n.kind = "conn"
        BY <2>7, <3>5
      <4>2. ~Of(a, m.to, "box")
        BY <2>1, <2>8, <2>9, <3>1, <3>5, <4>1 DEF Slack
      <4> QED
        BY <1>2, <2>1, <3>1, <3>5, <4>2
    <3> QED
      BY <3>2, <3>3, <3>4, <3>5
  <2>11. DOMAIN w = DOMAIN n /\ w.kind = n.kind
    BY <1>2, <2>1, <2>2
  <2> QED
    BY <2>1, <2>10, <2>11 DEF Agree
<1>6. Standing(b, P, L, G, fs, 1)
  BY <1>2, <1>3, <1>5 DEF Standing
<1> QED
  BY <1>4, <1>6 DEF Mending

-----------------------------------------------------------------------------
(***************************************************************************)
(* Entries of the rings.                                                   *)
(***************************************************************************)
Turned(e) == [e EXCEPT !.inv = e.fwd, !.fwd = e.inv]
Marks(e, isUndo) == IF isUndo THEN e.last ELSE [x \in DOMAIN e.last |-> e.op]
Landed(page, e, isUndo) == Refresh(Stamp(Replay(page, e.inv).page, Marks(e, isUndo)))
\* An entry, applied to a page with the outline of `from', is applied and
\* makes a page with that of `to'.
Leads(e, isUndo, from, to) ==
    \A page : Tree(page) /\ Outline(page) = Outline(from) =>
        /\ ~Stale(page, e, isUndo) /\ Replay(page, e.inv).applied
        /\ Tree(Landed(page, e, isUndo)) /\ Outline(Landed(page, e, isUndo)) = Outline(to)
\* What a gesture's edits and inverses have to do with the pages around it:
\* P is the outline before, a the one they made.
Reverts(inv, L, P, a) ==
    \E G : /\ UndoesAll(P, L, inv) /\ Len(inv) # 0 /\ Mending(a, P, L, G, inv, 1)
           /\ Ends(inv, DOMAIN a.node, a.up)
Repeats(edits, pre, a) ==
    \A page : Tree(page) /\ Outline(page) = Outline(pre) =>
        /\ Replay(page, edits).applied /\ Tree(Replay(page, edits).page)
        /\ Close(Outline(Replay(page, edits).page), a, {})

\* Both together, after an edit.
LEMMA LandIs ==
  ASSUME NEW page, Tree(page), NEW marks, Stamps(marks, Ids(page))
  PROVE  /\ Tree(Refresh(Stamp(page, marks)))
         /\ Outline(Refresh(Stamp(page, marks))) = Refresh(Stamp(Outline(page), marks))
         /\ Ids(Refresh(Stamp(page, marks))) = Ids(page)
         /\ Up(Refresh(Stamp(page, marks))) = Up(page)
<1>1. PICK p : p = Stamp(page, marks)
  OBVIOUS
<1>2. Tree(p) /\ Outline(p) = Stamp(Outline(page), marks) /\ Ids(p) = Ids(page) /\ Up(p) = Up(page)
  BY <1>1, StampTree
<1>3. Tree(Refresh(p)) /\ Outline(Refresh(p)) = Refresh(Outline(p)) /\ Ids(Refresh(p)) = Ids(p)
          /\ Up(Refresh(p)) = Up(p)
  BY <1>2, RefreshTree
<1> QED
  BY <1>1, <1>2, <1>3

EntryFields == {"op", "inv", "fwd", "last", "pre", "post"}
\* The fields of an entry.
LEMMA EntryIs ==
  ASSUME NEW op, NEW inv, NEW fwd, NEW marks, NEW pre, NEW post, NEW e, e = Entry(op, inv, fwd, marks, pre, post)
  PROVE  /\ DOMAIN e = EntryFields
         /\ e.op = op /\ e.inv = inv /\ e.fwd = fwd /\ e.last = marks /\ e.pre = pre /\ e.post = post
BY DEF Entry, EntryFields
\* An entry that moves to the other ring swaps its edits.
LEMMA TurnedIs ==
  ASSUME NEW e, DOMAIN e = EntryFields
  PROVE  /\ DOMAIN Turned(e) = EntryFields
         /\ Turned(e).op = e.op /\ Turned(e).inv = e.fwd /\ Turned(e).fwd = e.inv
         /\ Turned(e).last = e.last /\ Turned(e).pre = e.pre /\ Turned(e).post = e.post
BY DEF Turned, EntryFields

\* `inv' takes `run' back to `pre', `fwd' leads there, and the targets have
\* the lastOpIds of `pre'.
Paired(pre, run, inv, fwd, marks) ==
    /\ Tree(pre) /\ Refresh(Outline(pre)) = Outline(pre) /\ Tree(run)
    /\ \A x \in DOMAIN marks \cap Ids(pre) : marks[x] = pre.node[x].last
    /\ Reverts(inv, DOMAIN marks, Outline(pre), Outline(run)) /\ Unnamed(Outline(run), Outline(pre))
    /\ Repeats(fwd, pre, Outline(run))
    /\ \A i \in DOMAIN fwd : fwd[i].kind \in CreateKinds => fwd[i].id \notin Ids(pre)

Still(a) == Refresh(a) = a
AllAt(op, D) == [x \in D |-> op]

\* The entry a gesture leaves leads back and forth between its pages.
LEMMA EntryGood ==
  ASSUME NEW pre, NEW run, NEW inv, NEW fwd, NEW marks, Paired(pre, run, inv, fwd, marks), NEW op \in Nat,
         NEW done, done = Refresh(Stamp(run, AllAt(op, DOMAIN marks))),
         NEW e, e = Entry(op, inv, fwd, marks, pre, done)
  PROVE  /\ Tree(done) /\ Still(Outline(done))
         /\ Leads(e, TRUE, done, pre) /\ Leads(Turned(e), FALSE, pre, done)
<1> USE DEF Paired, AllAt
<1>1. PICK P, a, L, new : P = Outline(pre) /\ a = Outline(run) /\ L = DOMAIN marks
                              /\ new = [x \in DOMAIN marks |-> op]
  OBVIOUS
<1>2. Sound(P) /\ Sound(a) /\ DOMAIN new = L /\ \A x \in L : new[x] = op
  BY <1>1, TreeIs
<1>3. Stamps(new, Ids(run)) /\ Stamps(new, DOMAIN a.node)
  BY <1>1, <1>2 DEF Stamps
<1>4. /\ Tree(done) /\ Outline(done) = Refresh(Stamp(a, new)) /\ Ids(done) = Ids(run) /\ Up(done) = Up(run)
  BY <1>1, <1>3, LandIs
<1>5. a = [node |-> a.node, up |-> a.up] /\ \A x \in DOMAIN a.node : a.node[x] \in Node
          /\ "last" \in DOMAIN a.node[x]
  BY <1>2, SoundIs, NodeFields DEF Sound
<1>6. PICK b : b = Outline(done)
  OBVIOUS
<1>7. /\ Refresh(b) = b /\ b.up = a.up /\ DOMAIN b.node = DOMAIN a.node
      /\ \A x \in DOMAIN a.node : b.node[x].last = IF x \in L THEN op ELSE a.node[x].last
  <2>1. b = Refresh(Stamp(a, new)) /\ \A x \in DOMAIN a.node : a.node[x] \in Node
    BY <1>4, <1>5, <1>6
  <2>2. /\ Refresh(b) = b /\ b.up = a.up /\ DOMAIN b.node = DOMAIN a.node
        /\ \A x \in DOMAIN a.node : \A f \in DOMAIN a.node[x] :
              f = "last" => b.node[x][f] = IF x \in DOMAIN new THEN new[x] ELSE a.node[x][f]
    BY <1>3, <1>5, <2>1, SettledIs
  <2>3. \A x \in DOMAIN a.node : b.node[x]["last"] = IF x \in DOMAIN new THEN new[x] ELSE a.node[x]["last"]
    BY <1>5, <2>2
  <2> QED
    BY <1>2, <2>2, <2>3
<1>8. PICK G : /\ UndoesAll(P, L, inv) /\ Len(inv) # 0 /\ Mending(a, P, L, G, inv, 1)
               /\ Ends(inv, DOMAIN a.node, a.up)
  BY <1>1 DEF Reverts
<1>9. Mending(b, P, L, G, inv, 1)
  BY <1>1, <1>2, <1>3, <1>4, <1>6, <1>8, MendSettled
<1>10. \A x \in L \cap DOMAIN P.node : marks[x] \in Nat /\ marks[x] = P.node[x].last
  <2>1. \A x \in DOMAIN P.node : P.node[x].last \in Nat
    BY <1>2, SoundIs, KindIs
  <2> QED
    BY <1>1, <2>1, OutlineIs
<1>11. DOMAIN e = EntryFields /\ e.op = op /\ e.inv = inv /\ e.fwd = fwd /\ e.last = marks
  BY EntryIs
<1>12. PICK d : d = Turned(e)
  OBVIOUS
<1>13. d.op = op /\ d.inv = fwd /\ d.last = marks
  BY <1>11, <1>12, TurnedIs
<1>14. ASSUME NEW page, Tree(page), Outline(page) = b
       PROVE  /\ ~Stale(page, e, TRUE) /\ Replay(page, e.inv).applied
              /\ Tree(Landed(page, e, TRUE)) /\ Outline(Landed(page, e, TRUE)) = P
  <2>1. Ids(page) = DOMAIN b.node /\ Up(page) = b.up /\ page.node = b.node
    BY <1>14, OutlineIs
  <2>2. ~Stale(page, e, TRUE)
    <3>1. \A i \in DOMAIN inv : inv[i].kind \notin CreateKinds
      <4>1. PICK n : n = Len(inv)
        OBVIOUS
      <4>2. \A j \in 1..n : inv[j].kind \notin CreateKinds
        BY <1>8, <4>1 DEF UndoesAll, Undoes, CreateKinds
      <4>3. \A j \in DOMAIN inv : inv[j].kind \notin CreateKinds
        BY <1>8, <4>1, <4>2 DEF UndoesAll
      <4> QED
        BY <4>3
    <3>2. \A x \in L : Has(page, x) => page.node[x].last = op
      BY <1>7, <2>1 DEF Has
    <3> QED
      BY <1>1, <1>11, <3>1, <3>2 DEF Stale
  <2>3. Ends(inv, Ids(page), Up(page))
    BY <1>7, <1>8, <2>1
  <2>4. PICK r : r = Replay(page, inv)
    OBVIOUS
  <2>5. Tree(r.page) /\ r.applied /\ Mending(Outline(r.page), P, L, G, inv, Len(inv) + 1)
    BY <1>2, <1>8, <1>9, <1>14, <2>3, <2>4, MendRun
  <2>6. PICK c : c = Outline(r.page)
    OBVIOUS
  <2>7. Sound(c) /\ Len(inv) \in Nat /\ DOMAIN c.node = Ids(r.page)
    BY <1>8, <2>5, <2>6, TreeIs, OutlineIs DEF UndoesAll
  <2>8. Close(c, P, L)
    BY <1>2, <2>5, <2>6, <2>7, Mended
  <2>9. Stamps(marks, Ids(r.page))
    BY <1>1, <1>10, <2>7, <2>8 DEF Close, Stamps
  <2>10. Refresh(Stamp(c, marks)) = Refresh(Stamp(P, marks))
    BY <1>1, <1>2, <1>10, <2>7, <2>8, SettleSame
  <2>11. Stamp(P, marks) = P
    BY <1>1, <1>2, <1>10, OwnStamp
  <2>12. /\ Tree(Refresh(Stamp(r.page, marks))) /\ Outline(Refresh(Stamp(r.page, marks))) = P
    BY <1>1, <2>5, <2>6, <2>9, <2>10, <2>11, LandIs
  <2>13. Landed(page, e, TRUE) = Refresh(Stamp(r.page, marks))
    BY <1>11, <2>4 DEF Landed, Marks
  <2> QED
    BY <1>11, <2>2, <2>4, <2>5, <2>12, <2>13
<1>15. ASSUME NEW page, Tree(page), Outline(page) = P
       PROVE  /\ ~Stale(page, d, FALSE) /\ Replay(page, d.inv).applied
              /\ Tree(Landed(page, d, FALSE)) /\ Outline(Landed(page, d, FALSE)) = b
  <2>1. Ids(page) = DOMAIN P.node /\ page.node = P.node /\ Ids(pre) = DOMAIN P.node /\ pre.node = P.node
    BY <1>1, <1>15, OutlineIs
  <2>2. ~Stale(page, d, FALSE)
    <3>1. \A i \in DOMAIN fwd : fwd[i].kind \in CreateKinds => ~Has(page, fwd[i].id)
      BY <2>1 DEF Has
    <3>2. \A x \in L : Has(page, x) => page.node[x].last = marks[x]
      BY <1>10, <2>1 DEF Has
    <3> QED
      BY <1>1, <1>13, <3>1, <3>2 DEF Stale
  <2>3. PICK r : r = Replay(page, fwd)
    OBVIOUS
  <2>4. r.applied /\ Tree(r.page) /\ Close(Outline(r.page), a, {})
    BY <1>1, <1>15, <2>3 DEF Repeats
  <2>5. PICK c : c = Outline(r.page)
    OBVIOUS
  <2>6. Sound(c) /\ DOMAIN c.node = Ids(r.page) /\ DOMAIN c.node = DOMAIN a.node
    BY <2>4, <2>5, TreeIs, OutlineIs DEF Close
  <2>7. \A x, f : Slack(a, {}, x, f) => Slack(a, L, x, f)
    BY DEF Slack
  <2>8. Close(c, a, L)
    BY <2>4, <2>5, <2>7 DEF Close, Agree
  <2>9. Refresh(Stamp(c, new)) = Refresh(Stamp(a, new))
    <3>1. \A x \in L \cap DOMAIN a.node : new[x] \in Nat /\ new[x] = new[x]
      BY <1>2
    <3> QED
      BY <1>2, <2>6, <2>8, <3>1, SettleSame
  <2>10. Stamps(new, Ids(r.page))
    BY <1>2 DEF Stamps
  <2>11. /\ Tree(Refresh(Stamp(r.page, new))) /\ Outline(Refresh(Stamp(r.page, new))) = b
    BY <1>4, <1>6, <2>4, <2>5, <2>9, <2>10, LandIs
  <2>12. Landed(page, d, FALSE) = Refresh(Stamp(r.page, new))
    BY <1>1, <1>13, <2>3 DEF Landed, Marks
  <2> QED
    BY <1>13, <2>2, <2>3, <2>4, <2>11, <2>12
<1>16. Leads(e, TRUE, done, pre)
  BY <1>1, <1>6, <1>14 DEF Leads
<1>17. Leads(Turned(e), FALSE, pre, done)
  BY <1>1, <1>6, <1>12, <1>15 DEF Leads
<1>18. Tree(done) /\ Still(Outline(done))
  BY <1>4, <1>6, <1>7 DEF Still
<1> QED
  BY <1>16, <1>17, <1>18

-----------------------------------------------------------------------------
(***************************************************************************)
(* The document and its rings.                                             *)
(***************************************************************************)
DocFields == {"page", "undo", "redo", "next", "op", "stuck", "latched"}
Good(e, next) == DOMAIN e = EntryFields /\ PageOK(e.pre, next) /\ PageOK(e.post, next)
Behind(e, next) == Good(e, next) /\ Leads(e, TRUE, e.post, e.pre) /\ Leads(Turned(e), FALSE, e.pre, e.post)
Ahead(e, next) == Good(e, next) /\ Leads(e, FALSE, e.pre, e.post) /\ Leads(Turned(e), TRUE, e.post, e.pre)
Past(s, page, next) ==
    /\ s \in Seq(Range(s)) /\ \A i \in 1..Len(s) : Behind(s[i], next)
    /\ \A i \in 1..(Len(s) - 1) : Outline(s[i].post) = Outline(s[i + 1].pre)
    /\ Len(s) # 0 => Outline(s[Len(s)].post) = Outline(page)
Future(s, page, next) ==
    /\ s \in Seq(Range(s)) /\ \A i \in 1..Len(s) : Ahead(s[i], next)
    /\ \A i \in 1..(Len(s) - 1) : Outline(s[i + 1].post) = Outline(s[i].pre)
    /\ Len(s) # 0 => Outline(s[Len(s)].pre) = Outline(page)
DocShape(d) ==
    DOMAIN d = DocFields /\ d.next \in Nat \ {0} /\ d.op \in Nat /\ d.latched \in BOOLEAN
Rings(d, page) == Past(d.undo, page, d.next) /\ Future(d.redo, page, d.next)
DocOK(d) == DocShape(d) /\ ~d.stuck /\ PageOK(d.page, d.next) /\ Rings(d, d.page)

-----------------------------------------------------------------------------
\* A ring without its newest entry.
LEMMA FrontIs ==
  ASSUME NEW s, s \in Seq(Range(s)), s # << >>
  PROVE  /\ Len(s) \in Nat /\ Len(s) # 0 /\ Len(s) \in 1..Len(s) /\ Last(s) = s[Len(s)]
         /\ Front(s) \in Seq(Range(Front(s))) /\ Len(Front(s)) = Len(s) - 1
         /\ \A i \in 1..(Len(s) - 1) : Front(s)[i] = s[i]
<1>1. Len(s) \in Nat /\ Len(s) # 0 /\ Len(s) \in 1..Len(s)
  <2>1. Len(s) \in Nat /\ Len(s) # 0
    BY EmptySeq
  <2> QED
    BY <2>1
<1>2. PICK t, n : t = Front(s) /\ n = Len(s)
  OBVIOUS
<1>3. t = [i \in 1..(n - 1) |-> s[i]] /\ n - 1 \in Nat
  BY <1>1, <1>2 DEF Front
<1>4. t \in Seq(Range(t)) /\ Len(t) = n - 1
  <2>1. DOMAIN t = 1..(n - 1) /\ \A i \in 1..(n - 1) : t[i] \in Range(t)
    BY <1>3 DEF Range
  <2>2. t = [i \in 1..(n - 1) |-> t[i]]
    BY <1>3
  <2>3. t \in [1..(n - 1) -> Range(t)]
    BY <2>1, <2>2
  <2> QED
    BY <1>3, <2>3
<1> QED
  BY <1>1, <1>2, <1>3, <1>4 DEF Last

\* A ring with one more entry.
LEMMA AppendEnd ==
  ASSUME NEW s, s \in Seq(Range(s)), NEW x
  PROVE  /\ Append(s, x) \in Seq(Range(Append(s, x))) /\ Len(Append(s, x)) = Len(s) + 1 /\ Len(s) \in Nat
         /\ Append(s, x)[Len(s) + 1] = x /\ \A i \in 1..Len(s) : Append(s, x)[i] = s[i]
         /\ Len(Append(s, x)) # 0
<1>1. PICK T : T = Range(s) \cup {x}
  OBVIOUS
<1>2. s \in Seq(T) /\ x \in T
  BY <1>1, SeqInto
<1>3. PICK t : t = Append(s, x)
  OBVIOUS
<1>4. /\ t \in Seq(T) /\ Len(t) = Len(s) + 1 /\ DOMAIN t = 1..(Len(s) + 1)
      /\ \A i \in 1..Len(s) : t[i] = s[i]
      /\ t[Len(s) + 1] = x
      /\ Range(t) = Range(s) \cup {x}
  BY <1>2, <1>3, AppendIs
<1> QED
  BY <1>1, <1>3, <1>4

\* Where an entry leads depends on its edits and lastOpIds only.
LEMMA SameLeads ==
  ASSUME NEW e, NEW d, e.op = d.op, e.inv = d.inv, e.last = d.last, NEW isUndo, NEW from, NEW to,
         Leads(e, isUndo, from, to)
  PROVE  Leads(d, isUndo, from, to)
BY DEF Leads, Stale, Landed, Marks

\* An entry taken back is one to take again, and the other way round.
LEMMA TurnGood ==
  ASSUME NEW e, NEW next
  PROVE  Behind(e, next) => Ahead(Turned(e), next)
<1> SUFFICES ASSUME Behind(e, next) PROVE Ahead(Turned(e), next)
  OBVIOUS
<1>1. PICK d, g : d = Turned(e) /\ g = Turned(d)
  OBVIOUS
<1>2. /\ DOMAIN d = EntryFields
      /\ d.op = e.op /\ d.inv = e.fwd /\ d.fwd = e.inv
      /\ d.last = e.last /\ d.pre = e.pre /\ d.post = e.post
  BY <1>1, TurnedIs DEF Behind, Good
<1>3. g.op = e.op /\ g.inv = e.inv /\ g.last = e.last
  BY <1>1, <1>2, TurnedIs
<1>4. Leads(g, TRUE, d.post, d.pre)
  BY <1>2, <1>3, SameLeads DEF Behind
<1> QED
  BY <1>1, <1>2, <1>4 DEF Behind, Ahead, Good

\* What leads forward leads back once turned.
LEMMA TurnBack ==
  ASSUME NEW e, NEW next
  PROVE  Ahead(e, next) => Behind(Turned(e), next)
<1> SUFFICES ASSUME Ahead(e, next) PROVE Behind(Turned(e), next)
  OBVIOUS
<1>1. PICK d, g : d = Turned(e) /\ g = Turned(d)
  OBVIOUS
<1>2. /\ DOMAIN d = EntryFields
      /\ d.op = e.op /\ d.inv = e.fwd /\ d.fwd = e.inv
      /\ d.last = e.last /\ d.pre = e.pre /\ d.post = e.post
  BY <1>1, TurnedIs DEF Ahead, Good
<1>3. g.op = e.op /\ g.inv = e.inv /\ g.last = e.last
  BY <1>1, <1>2, TurnedIs
<1>4. Leads(g, FALSE, d.pre, d.post)
  BY <1>2, <1>3, SameLeads DEF Ahead
<1> QED
  BY <1>1, <1>2, <1>4 DEF Behind, Ahead, Good

\* Undo goes to the page before the newest entry, and the entry is the one to
\* take again.
LEMMA UndoIs ==
  ASSUME NEW d, DocOK(d), NEW new, new = UndoNow(d)
  PROVE  /\ DocOK(new) /\ new.latched = d.latched /\ new.next = d.next /\ new.op = d.op
         /\ d.undo # << >> => /\ new.undo = Front(d.undo)
                              /\ new.redo = Append(d.redo, Turned(Last(d.undo)))
                              /\ Outline(new.page) = Outline(Last(d.undo).pre)
<1>1. CASE d.undo = << >>
  BY <1>1 DEF UndoNow
<1>2. CASE d.undo # << >>
  <2>1. PICK s, n, e, c : s = d.undo /\ n = Len(s) /\ e = s[n] /\ c = [d EXCEPT !.undo = Front(@)]
    OBVIOUS
  <2>2. /\ DOMAIN d = DocFields /\ Tree(d.page) /\ Past(s, d.page, d.next) /\ Future(d.redo, d.page, d.next)
    BY <2>1 DEF DocOK, DocShape, PageOK, Rings
  <2>3. /\ n \in Nat /\ n # 0 /\ n \in 1..n /\ Last(s) = e
        /\ Front(s) \in Seq(Range(Front(s))) /\ Len(Front(s)) = n - 1
        /\ \A i \in 1..(n - 1) : Front(s)[i] = s[i]
    BY <1>2, <2>1, <2>2, FrontIs DEF Past
  <2>4. Behind(e, d.next) /\ Outline(e.post) = Outline(d.page)
    BY <2>1, <2>2, <2>3 DEF Past
  <2>5. /\ DOMAIN c = DocFields /\ c.undo = Front(s) /\ c.page = d.page /\ c.redo = d.redo
        /\ c.next = d.next /\ c.op = d.op /\ c.stuck = d.stuck /\ c.latched = d.latched
    BY <2>1, <2>2 DEF DocFields
  <2>6. /\ ~Stale(d.page, e, TRUE) /\ Replay(d.page, e.inv).applied
        /\ Tree(Landed(d.page, e, TRUE)) /\ Outline(Landed(d.page, e, TRUE)) = Outline(e.pre)
    BY <2>2, <2>4 DEF Behind, Leads
  <2>7. new = Replayed(c, e, TRUE, Replay(c.page, e.inv))
    BY <1>2, <2>1, <2>3 DEF UndoNow, History
  <2>8. PICK landed : landed = Landed(d.page, e, TRUE)
    OBVIOUS
  <2>9. /\ DOMAIN new = DocFields /\ new.page = landed /\ new.undo = Front(s)
        /\ new.redo = Append(d.redo, Turned(e))
        /\ new.next = d.next /\ new.op = d.op /\ new.stuck = d.stuck /\ new.latched = d.latched
    <3>1. PICK b, r : b = [c EXCEPT !.page = landed] /\ r = Append(d.redo, Turned(e))
      OBVIOUS
    <3>2. /\ DOMAIN b = DocFields /\ b.page = landed /\ b.undo = c.undo /\ b.redo = c.redo
          /\ b.next = d.next /\ b.op = d.op /\ b.stuck = d.stuck /\ b.latched = d.latched
      BY <2>5, <3>1 DEF DocFields
    <3>3. new = [b EXCEPT !.undo = IF TRUE THEN @ ELSE Append(@, Turned(e)),
                          !.redo = IF TRUE THEN Append(@, Turned(e)) ELSE @]
      BY <2>5, <2>6, <2>7, <2>8, <3>1 DEF Replayed, Landed, Marks, Turned
    <3>4. new = [b EXCEPT !.undo = Front(s), !.redo = r]
      BY <2>5, <3>1, <3>2, <3>3 DEF DocFields
    <3> QED
      BY <3>1, <3>2, <3>4 DEF DocFields
  <2>10. PICK r, t : r = d.redo /\ t = Turned(e)
    OBVIOUS
  <2>11. /\ Append(r, t) \in Seq(Range(Append(r, t))) /\ Len(Append(r, t)) = Len(r) + 1 /\ Len(r) \in Nat
         /\ Append(r, t)[Len(r) + 1] = t /\ \A i \in 1..Len(r) : Append(r, t)[i] = r[i]
         /\ Len(Append(r, t)) # 0
    BY <2>2, <2>10, AppendEnd DEF Future
  <2>12. Ahead(t, d.next) /\ t.pre = e.pre /\ t.post = e.post
    BY <2>4, <2>10, TurnGood, TurnedIs DEF Behind, Good
  <2>13. Outline(landed) = Outline(e.pre) /\ Tree(landed) /\ PageOK(landed, d.next)
    BY <2>4, <2>6, <2>8 DEF PageOK, Behind, Good
  <2>14. Past(Front(s), landed, d.next)
    <3>1. \A i \in 1..(n - 1) : Behind(Front(s)[i], d.next)
      BY <2>1, <2>2, <2>3 DEF Past
    <3>2. \A i \in 1..(n - 1 - 1) : Outline(Front(s)[i].post) = Outline(Front(s)[i + 1].pre)
      <4> TAKE i \in 1..(n - 1 - 1)
      <4>1. i \in 1..(n - 1) /\ i + 1 \in 1..(n - 1)
        BY <2>3
      <4> QED
        BY <2>1, <2>2, <2>3, <4>1 DEF Past
    <3>3. n - 1 # 0 => Outline(Front(s)[n - 1].post) = Outline(landed)
      <4> SUFFICES ASSUME n - 1 # 0 PROVE Outline(Front(s)[n - 1].post) = Outline(landed)
        OBVIOUS
      <4>1. n - 1 \in 1..(n - 1) /\ (n - 1) + 1 = n
        BY <2>3
      <4>2. Outline(s[n - 1].post) = Outline(s[n].pre)
        BY <2>1, <2>2, <4>1 DEF Past
      <4> QED
        BY <2>1, <2>3, <2>13, <4>1, <4>2
    <3> QED
      BY <2>3, <3>1, <3>2, <3>3 DEF Past
  <2>15. Future(Append(r, t), landed, d.next)
    <3>1. ASSUME NEW i \in 1..(Len(r) + 1) PROVE Ahead(Append(r, t)[i], d.next)
      <4>1. i \in 1..Len(r) \/ i = Len(r) + 1
        BY <2>11
      <4> QED
        BY <2>2, <2>10, <2>11, <2>12, <4>1 DEF Future
    <3>2. ASSUME NEW i \in 1..((Len(r) + 1) - 1)
          PROVE  Outline(Append(r, t)[i + 1].post) = Outline(Append(r, t)[i].pre)
      <4>1. i \in 1..Len(r) /\ ((i \in 1..(Len(r) - 1) /\ i + 1 \in 1..Len(r)) \/ (i = Len(r) /\ Len(r) # 0))
        BY <2>11
      <4>2. CASE i \in 1..(Len(r) - 1) /\ i + 1 \in 1..Len(r)
        BY <2>2, <2>10, <2>11, <4>1, <4>2 DEF Future
      <4>3. CASE i = Len(r) /\ Len(r) # 0
        BY <2>2, <2>4, <2>10, <2>11, <2>12, <4>1, <4>3 DEF Future
      <4> QED
        BY <4>1, <4>2, <4>3
    <3>3. Outline(Append(r, t)[Len(r) + 1].pre) = Outline(landed)
      BY <2>11, <2>12, <2>13
    <3> QED
      BY <2>11, <3>1, <3>2, <3>3 DEF Future
  <2>16. DocOK(new)
    BY <2>9, <2>10, <2>13, <2>14, <2>15 DEF DocOK, DocShape, Rings
  <2> QED
    BY <2>1, <2>3, <2>9, <2>13, <2>16
<1> QED
  BY <1>1, <1>2

\* Redo, the other way.
LEMMA RedoIs ==
  ASSUME NEW d, DocOK(d), NEW new, new = RedoNow(d)
  PROVE  /\ DocOK(new) /\ new.latched = d.latched /\ new.next = d.next /\ new.op = d.op
         /\ d.redo # << >> => /\ new.redo = Front(d.redo)
                              /\ new.undo = Append(d.undo, Turned(Last(d.redo)))
                              /\ Outline(new.page) = Outline(Last(d.redo).post)
<1>1. CASE d.redo = << >>
  BY <1>1 DEF RedoNow
<1>2. CASE d.redo # << >>
  <2>1. PICK s, n, e, c : s = d.redo /\ n = Len(s) /\ e = s[n] /\ c = [d EXCEPT !.redo = Front(@)]
    OBVIOUS
  <2>2. /\ DOMAIN d = DocFields /\ Tree(d.page) /\ Future(s, d.page, d.next) /\ Past(d.undo, d.page, d.next)
    BY <2>1 DEF DocOK, DocShape, PageOK, Rings
  <2>3. /\ n \in Nat /\ n # 0 /\ n \in 1..n /\ Last(s) = e
        /\ Front(s) \in Seq(Range(Front(s))) /\ Len(Front(s)) = n - 1
        /\ \A i \in 1..(n - 1) : Front(s)[i] = s[i]
    BY <1>2, <2>1, <2>2, FrontIs DEF Future
  <2>4. Ahead(e, d.next) /\ Outline(e.pre) = Outline(d.page)
    BY <2>1, <2>2, <2>3 DEF Future
  <2>5. /\ DOMAIN c = DocFields /\ c.redo = Front(s) /\ c.page = d.page /\ c.undo = d.undo
        /\ c.next = d.next /\ c.op = d.op /\ c.stuck = d.stuck /\ c.latched = d.latched
    BY <2>1, <2>2 DEF DocFields
  <2>6. /\ ~Stale(d.page, e, FALSE) /\ Replay(d.page, e.inv).applied
        /\ Tree(Landed(d.page, e, FALSE)) /\ Outline(Landed(d.page, e, FALSE)) = Outline(e.post)
    BY <2>2, <2>4 DEF Ahead, Leads
  <2>7. new = Replayed(c, e, FALSE, Replay(c.page, e.inv))
    BY <1>2, <2>1, <2>3 DEF RedoNow, History
  <2>8. PICK landed : landed = Landed(d.page, e, FALSE)
    OBVIOUS
  <2>9. /\ DOMAIN new = DocFields /\ new.page = landed /\ new.redo = Front(s)
        /\ new.undo = Append(d.undo, Turned(e))
        /\ new.next = d.next /\ new.op = d.op /\ new.stuck = d.stuck /\ new.latched = d.latched
    <3>1. PICK b, r : b = [c EXCEPT !.page = landed] /\ r = Append(d.undo, Turned(e))
      OBVIOUS
    <3>2. /\ DOMAIN b = DocFields /\ b.page = landed /\ b.undo = c.undo /\ b.redo = c.redo
          /\ b.next = d.next /\ b.op = d.op /\ b.stuck = d.stuck /\ b.latched = d.latched
      BY <2>5, <3>1 DEF DocFields
    <3>3. new = [b EXCEPT !.undo = IF FALSE THEN @ ELSE Append(@, Turned(e)),
                          !.redo = IF FALSE THEN Append(@, Turned(e)) ELSE @]
      BY <2>5, <2>6, <2>7, <2>8, <3>1 DEF Replayed, Landed, Marks, Turned
    <3>4. new = [b EXCEPT !.redo = Front(s), !.undo = r]
      BY <2>5, <3>1, <3>2, <3>3 DEF DocFields
    <3> QED
      BY <3>1, <3>2, <3>4 DEF DocFields
  <2>10. PICK r, t : r = d.undo /\ t = Turned(e)
    OBVIOUS
  <2>11. /\ Append(r, t) \in Seq(Range(Append(r, t))) /\ Len(Append(r, t)) = Len(r) + 1 /\ Len(r) \in Nat
         /\ Append(r, t)[Len(r) + 1] = t /\ \A i \in 1..Len(r) : Append(r, t)[i] = r[i]
         /\ Len(Append(r, t)) # 0
    BY <2>2, <2>10, AppendEnd DEF Past
  <2>12. Behind(t, d.next) /\ t.pre = e.pre /\ t.post = e.post
    BY <2>4, <2>10, TurnBack, TurnedIs DEF Ahead, Good
  <2>13. Outline(landed) = Outline(e.post) /\ Tree(landed) /\ PageOK(landed, d.next)
    BY <2>4, <2>6, <2>8 DEF PageOK, Ahead, Good
  <2>14. Future(Front(s), landed, d.next)
    <3>1. \A i \in 1..(n - 1) : Ahead(Front(s)[i], d.next)
      BY <2>1, <2>2, <2>3 DEF Future
    <3>2. \A i \in 1..(n - 1 - 1) : Outline(Front(s)[i + 1].post) = Outline(Front(s)[i].pre)
      <4> TAKE i \in 1..(n - 1 - 1)
      <4>1. i \in 1..(n - 1) /\ i + 1 \in 1..(n - 1)
        BY <2>3
      <4> QED
        BY <2>1, <2>2, <2>3, <4>1 DEF Future
    <3>3. n - 1 # 0 => Outline(Front(s)[n - 1].pre) = Outline(landed)
      <4> SUFFICES ASSUME n - 1 # 0 PROVE Outline(Front(s)[n - 1].pre) = Outline(landed)
        OBVIOUS
      <4>1. n - 1 \in 1..(n - 1) /\ (n - 1) + 1 = n
        BY <2>3
      <4>2. Outline(s[n].post) = Outline(s[n - 1].pre)
        BY <2>1, <2>2, <4>1 DEF Future
      <4> QED
        BY <2>1, <2>3, <2>13, <4>1, <4>2
    <3> QED
      BY <2>3, <3>1, <3>2, <3>3 DEF Future
  <2>15. Past(Append(r, t), landed, d.next)
    <3>1. ASSUME NEW i \in 1..(Len(r) + 1) PROVE Behind(Append(r, t)[i], d.next)
      <4>1. i \in 1..Len(r) \/ i = Len(r) + 1
        BY <2>11
      <4> QED
        BY <2>2, <2>10, <2>11, <2>12, <4>1 DEF Past
    <3>2. ASSUME NEW i \in 1..((Len(r) + 1) - 1)
          PROVE  Outline(Append(r, t)[i].post) = Outline(Append(r, t)[i + 1].pre)
      <4>1. i \in 1..Len(r) /\ ((i \in 1..(Len(r) - 1) /\ i + 1 \in 1..Len(r)) \/ (i = Len(r) /\ Len(r) # 0))
        BY <2>11
      <4>2. CASE i \in 1..(Len(r) - 1) /\ i + 1 \in 1..Len(r)
        BY <2>2, <2>10, <2>11, <4>1, <4>2 DEF Past
      <4>3. CASE i = Len(r) /\ Len(r) # 0
        BY <2>2, <2>4, <2>10, <2>11, <2>12, <4>1, <4>3 DEF Past
      <4> QED
        BY <4>1, <4>2, <4>3
    <3>3. Outline(Append(r, t)[Len(r) + 1].post) = Outline(landed)
      BY <2>11, <2>12, <2>13
    <3> QED
      BY <2>11, <3>1, <3>2, <3>3 DEF Past
  <2>16. DocOK(new)
    BY <2>9, <2>10, <2>13, <2>14, <2>15 DEF DocOK, DocShape, Rings
  <2> QED
    BY <2>1, <2>3, <2>9, <2>13, <2>16
<1> QED
  BY <1>1, <1>2

-----------------------------------------------------------------------------
\* What a gesture's edits have to be for its commit to be one that undo takes
\* back: `live' is the page they were planned on, `run' what they made of it.
Undoable(live, pre, run, inv, edits, next) ==
    /\ Ids(live) = Ids(pre) /\ \A x \in Ids(pre) : live.node[x].last = pre.node[x].last
    /\ Tree(run) /\ Known(Outline(run), next) /\ Unnamed(Outline(run), Outline(pre))
    /\ Reverts(inv, DOMAIN Targets(live, edits), Outline(pre), Outline(run))
    /\ Repeats(edits, pre, Outline(run))
    /\ \A i \in DOMAIN edits : edits[i].kind \in CreateKinds => edits[i].id \notin Ids(pre)

\* Pushing and popping an entry.
LEMMA FrontAppend ==
  ASSUME NEW s, s \in Seq(Range(s)), NEW x
  PROVE  Front(Append(s, x)) = s /\ Last(Append(s, x)) = x /\ Append(s, x) # << >>
<1>1. PICK t : t = Append(s, x)
  OBVIOUS
<1>2. t \in Seq(Range(t)) /\ Len(t) = Len(s) + 1 /\ Len(s) \in Nat
      /\ t[Len(s) + 1] = x /\ \A i \in 1..Len(s) : t[i] = s[i]
  BY <1>1, AppendEnd
<1>3. t # << >>
  BY <1>2
<1>4. /\ Last(t) = t[Len(t)] /\ Front(t) \in Seq(Range(Front(t))) /\ Len(Front(t)) = Len(t) - 1
      /\ \A i \in 1..(Len(t) - 1) : Front(t)[i] = t[i]
  BY <1>2, <1>3, FrontIs
<1>5. PICK f, T : f = Front(t) /\ T = Range(f) \cup Range(s)
  OBVIOUS
<1>6. f \in Seq(T) /\ s \in Seq(T)
  BY <1>4, <1>5, SeqInto
<1>7. Len(f) = Len(s) /\ \A i \in 1..Len(s) : f[i] = s[i]
  BY <1>2, <1>4, <1>5
<1>8. f = s
  BY <1>6, <1>7, SeqEqual
<1> QED
  BY <1>1, <1>2, <1>3, <1>4, <1>5, <1>8

\* Stamps and refreshes name no new id.
LEMMA SettledKnown ==
  ASSUME NEW a, Sound(a), NEW marks, Stamps(marks, DOMAIN a.node), NEW next, Known(a, next),
         NEW b, b = Refresh(Stamp(a, marks))
  PROVE  Known(b, next)
<1>1. a = [node |-> a.node, up |-> a.up] /\ \A x \in DOMAIN a.node : a.node[x] \in Node
  BY SoundIs DEF Sound
<1>2. /\ DOMAIN b.node = DOMAIN a.node
      /\ \A x \in DOMAIN a.node :
            /\ b.node[x].kind = a.node[x].kind
            /\ \A f \in DOMAIN a.node[x] : f \notin {"last", "p", "q"} => b.node[x][f] = a.node[x][f]
  BY <1>1, SettledIs
<1>3. ASSUME NEW x \in DOMAIN a.node, a.node[x].kind = "conn"
      PROVE  b.node[x].from = a.node[x].from /\ b.node[x].to = a.node[x].to
  <2>1. "from" \in DOMAIN a.node[x] /\ "to" \in DOMAIN a.node[x]
    BY <1>1, <1>3, NodeFields DEF ConnFields
  <2> QED
    BY <1>2, <2>1
<1> QED
  BY <1>2, <1>3 DEF Known

\* The document once a gesture is recorded, and before a latched undo runs.
Taken(c, d, pre, run) ==
    /\ DocOK(c) /\ c.redo = << >>
    /\ \E e, marks :
          /\ c.undo = Append(d.undo, e) /\ e.pre = pre /\ e.post = c.page
          /\ Stamps(marks, DOMAIN Outline(run).node)
          /\ Outline(c.page) = Refresh(Stamp(Outline(run), marks))

Followed(d, pre, run, new) == \E c : Taken(c, d, pre, run) /\ (new = c \/ new = UndoNow(c))

\* The commit of such a gesture, and of one during which an undo was latched.
LEMMA RecordedOK ==
  ASSUME NEW d, DocShape(d), ~d.stuck, NEW pre, PageOK(pre, d.next), Rings(d, pre),
         NEW run, NEW inv, NEW edits, Undoable(d.page, pre, run, inv, edits, d.next),
         NEW new, new = Recorded(d, run, inv, edits, pre)
  PROVE  /\ DocOK(new) /\ ~new.latched /\ new.next = d.next /\ new.op = d.op + 1
         /\ d.latched => Outline(new.page) = Outline(pre) /\ new.undo = d.undo
         /\ ~d.latched => /\ new.page = Refresh(Stamp(run, [x \in DOMAIN Targets(d.page, edits) |-> d.op + 1]))
                          /\ Outline(new.page) = Refresh(Stamp(Outline(run),
                                 [x \in DOMAIN Targets(d.page, edits) |-> d.op + 1]))
         /\ Followed(d, pre, run, new)
<1>1. PICK marks, op, done, e, s :
         /\ marks = Targets(d.page, edits) /\ op = d.op + 1
         /\ done = Refresh(Stamp(run, [x \in DOMAIN marks |-> op]))
         /\ e = Entry(op, inv, edits, marks, pre, done) /\ s = d.undo
  OBVIOUS
<1>2. DOMAIN d = DocFields /\ op \in Nat /\ d.op \in Nat /\ d.next \in Nat \ {0} /\ d.latched \in BOOLEAN
  BY <1>1 DEF DocShape
<1>3. PICK c : c = [d EXCEPT !.page = done, !.op = op, !.redo = << >>, !.undo = Append(@, e)]
  OBVIOUS
<1>4. /\ DOMAIN c = DocFields /\ c.page = done /\ c.op = op /\ c.redo = << >> /\ c.undo = Append(s, e)
      /\ c.next = d.next /\ c.stuck = d.stuck /\ c.latched = d.latched
  BY <1>1, <1>2, <1>3 DEF DocFields
<1>5. new = RunLatched(c)
  BY <1>1, <1>3 DEF Recorded
<1>6. /\ Tree(pre) /\ Refresh(Outline(pre)) = Outline(pre) /\ Tree(run)
      /\ Reverts(inv, DOMAIN marks, Outline(pre), Outline(run)) /\ Unnamed(Outline(run), Outline(pre))
      /\ Repeats(edits, pre, Outline(run)) /\ Known(Outline(run), d.next)
      /\ \A i \in DOMAIN edits : edits[i].kind \in CreateKinds => edits[i].id \notin Ids(pre)
  BY <1>1 DEF PageOK, Undoable
<1>7. \A x \in DOMAIN marks \cap Ids(pre) : marks[x] = pre.node[x].last
  BY <1>1 DEF Targets, Undoable, Has
<1>8. /\ Tree(done) /\ Still(Outline(done))
      /\ Leads(e, TRUE, done, pre) /\ Leads(Turned(e), FALSE, pre, done)
  <2>1. op \in Nat
    BY <1>2
  <2>3. done = Refresh(Stamp(run, AllAt(op, DOMAIN marks)))
    BY <1>1 DEF AllAt
  <2>2. e = Entry(op, inv, edits, marks, pre, done)
    BY <1>1
  <2>4. Paired(pre, run, inv, edits, marks)
    BY <1>6, <1>7 DEF Paired
  <2> QED
    BY <2>1, <2>2, <2>3, <2>4, EntryGood
<1>9. Outline(done) = Refresh(Stamp(Outline(run), [x \in DOMAIN marks |-> op])) /\ Known(Outline(done), d.next)
  <2>1. PICK new_marks : new_marks = [x \in DOMAIN marks |-> op]
    OBVIOUS
  <2>2. Stamps(new_marks, Ids(run)) /\ Stamps(new_marks, DOMAIN Outline(run).node)
    BY <1>2, <2>1 DEF Stamps
  <2>3. Outline(done) = Refresh(Stamp(Outline(run), new_marks))
    BY <1>1, <1>6, <2>1, <2>2, LandIs
  <2>4. Sound(Outline(run))
    BY <1>6, TreeIs
  <2>5. Known(Outline(done), d.next)
    BY <1>6, <2>2, <2>3, <2>4, SettledKnown
  <2> QED
    BY <2>1, <2>3, <2>5
<1>10. DOMAIN e = EntryFields /\ e.pre = pre /\ e.post = done
  BY <1>1, EntryIs
<1>11. PageOK(done, d.next) /\ Behind(e, d.next)
  BY <1>6, <1>8, <1>9, <1>10 DEF PageOK, Behind, Good, Still
<1>12. Past(s, pre, d.next)
  BY <1>1 DEF Rings
<1>13. s \in Seq(Range(s))
  BY <1>12 DEF Past
<1>14. PICK t : t = Append(s, e)
  OBVIOUS
<1>15. /\ t \in Seq(Range(t)) /\ Len(t) = Len(s) + 1 /\ Len(s) \in Nat
       /\ t[Len(s) + 1] = e /\ \A i \in 1..Len(s) : t[i] = s[i]
       /\ Len(t) # 0
  BY <1>13, <1>14, AppendEnd
<1>16. Past(t, done, d.next)
  <2>1. ASSUME NEW i \in 1..(Len(s) + 1) PROVE Behind(t[i], d.next)
    <3>1. i \in 1..Len(s) \/ i = Len(s) + 1
      BY <1>15
    <3> QED
      BY <1>11, <1>12, <1>15, <3>1 DEF Past
  <2>2. ASSUME NEW i \in 1..((Len(s) + 1) - 1) PROVE Outline(t[i].post) = Outline(t[i + 1].pre)
    <3>1. i \in 1..Len(s) /\ ((i \in 1..(Len(s) - 1) /\ i + 1 \in 1..Len(s)) \/ (i = Len(s) /\ Len(s) # 0))
      BY <1>15
    <3>2. CASE i \in 1..(Len(s) - 1) /\ i + 1 \in 1..Len(s)
      BY <1>12, <1>15, <3>1, <3>2 DEF Past
    <3>3. CASE i = Len(s) /\ Len(s) # 0
      BY <1>10, <1>12, <1>15, <3>1, <3>3 DEF Past
    <3> QED
      BY <3>1, <3>2, <3>3
  <2> QED
    BY <1>10, <1>15, <2>1, <2>2 DEF Past
<1>17. Future(<< >>, done, d.next)
  <2>1. << >> \in Seq(Range(<< >>)) /\ Len(<< >>) = 0
    OBVIOUS
  <2> QED
    BY <2>1 DEF Future
<1>18. DocOK(c)
  BY <1>2, <1>4, <1>11, <1>14, <1>16, <1>17 DEF DocOK, DocShape, Rings
<1>21. PICK new_marks : new_marks = [x \in DOMAIN marks |-> op]
  OBVIOUS
<1>22. /\ Stamps(new_marks, DOMAIN Outline(run).node)
       /\ Outline(done) = Refresh(Stamp(Outline(run), new_marks))
  BY <1>2, <1>9, <1>21 DEF Stamps
<1>19. CASE ~d.latched
  <2>1. new = c
    BY <1>4, <1>5, <1>19 DEF RunLatched
  <2>2. Taken(c, d, pre, run)
    BY <1>1, <1>4, <1>10, <1>18, <1>22 DEF Taken
  <2> QED
    BY <1>1, <1>4, <1>9, <1>18, <1>19, <2>1, <2>2 DEF Followed
<1>20. CASE d.latched
  <2>1. PICK b : b = [c EXCEPT !.latched = FALSE]
    OBVIOUS
  <2>2. /\ DOMAIN b = DocFields /\ b.page = c.page /\ b.op = c.op /\ b.redo = c.redo /\ b.undo = c.undo
        /\ b.next = c.next /\ b.stuck = c.stuck /\ b.latched = FALSE
    BY <1>4, <2>1 DEF DocFields
  <2>3. DocOK(b)
    BY <1>18, <2>2 DEF DocOK, DocShape, Rings
  <2>4. new = UndoNow(b)
    BY <1>4, <1>5, <1>20, <2>1 DEF RunLatched
  <2>5. Front(t) = s /\ Last(t) = e /\ t # << >>
    BY <1>13, <1>14, FrontAppend
  <2>6. b.undo = t
    BY <1>4, <1>14, <2>2
  <2>7. /\ DocOK(new) /\ new.latched = FALSE /\ new.next = b.next /\ new.op = b.op
        /\ new.undo = Front(t) /\ Outline(new.page) = Outline(Last(t).pre)
    BY <2>2, <2>3, <2>4, <2>5, <2>6, UndoIs
  <2>8. Taken(b, d, pre, run)
    BY <1>1, <1>4, <1>10, <1>22, <2>2, <2>3 DEF Taken
  <2> QED
    BY <1>1, <1>4, <1>10, <1>20, <2>2, <2>4, <2>5, <2>7, <2>8 DEF Followed
<1> QED
  BY <1>2, <1>19, <1>20

-----------------------------------------------------------------------------
(***************************************************************************)
(* Sequences of edits and of bodies, put together.                         *)
(***************************************************************************)
Apart(s, M) == \A i, j \in DOMAIN s : i # j => M[s[i]] \cap M[s[j]] = {}

\* What concatenation does to length, places and range.
LEMMA ConcatIs ==
  ASSUME NEW T, NEW s \in Seq(T), NEW t \in Seq(T)
  PROVE  /\ s \o t \in Seq(T) /\ Len(s \o t) = Len(s) + Len(t) /\ Range(s \o t) = Range(s) \cup Range(t)
         /\ DOMAIN (s \o t) = 1..(Len(s) + Len(t)) /\ Len(s) \in Nat /\ Len(t) \in Nat
         /\ \A i \in 1..(Len(s) + Len(t)) : (s \o t)[i] = IF i <= Len(s) THEN s[i] ELSE t[i - Len(s)]
<1>1. PICK u, m, n : u = s \o t /\ m = Len(s) /\ n = Len(t)
  OBVIOUS
<1>2. /\ u \in Seq(T) /\ Len(u) = m + n /\ DOMAIN u = 1..(m + n) /\ m \in Nat /\ n \in Nat
      /\ \A i \in 1..(m + n) : u[i] = IF i <= m THEN s[i] ELSE t[i - m]
      /\ DOMAIN s = 1..m /\ DOMAIN t = 1..n
  BY <1>1
<1>3. Range(u) \subseteq Range(s) \cup Range(t)
  <2> SUFFICES ASSUME NEW i \in 1..(m + n) PROVE u[i] \in Range(s) \cup Range(t)
    BY <1>2 DEF Range
  <2>1. CASE i <= m
    <3>1. i \in DOMAIN s /\ u[i] = s[i]
      BY <1>2, <2>1
    <3> QED
      BY <3>1 DEF Range
  <2>2. CASE ~(i <= m)
    <3>1. i - m \in DOMAIN t /\ u[i] = t[i - m]
      BY <1>2, <2>2
    <3> QED
      BY <3>1 DEF Range
  <2> QED
    BY <2>1, <2>2
<1>4. Range(s) \subseteq Range(u)
  <2> SUFFICES ASSUME NEW i \in 1..m PROVE s[i] \in Range(u)
    BY <1>2 DEF Range
  <2>1. i \in DOMAIN u /\ u[i] = s[i]
    BY <1>2
  <2> QED
    BY <2>1 DEF Range
<1>5. Range(t) \subseteq Range(u)
  <2> SUFFICES ASSUME NEW i \in 1..n PROVE t[i] \in Range(u)
    BY <1>2 DEF Range
  <2>1. i + m \in 1..(m + n) /\ ~(i + m <= m) /\ (i + m) - m = i
    BY <1>2
  <2>2. i + m \in DOMAIN u /\ u[i + m] = t[i]
    BY <1>2, <2>1
  <2> QED
    BY <2>2 DEF Range
<1> QED
  BY <1>1, <1>2, <1>3, <1>4, <1>5

\* Parts that share nothing, put together.
LEMMA ConcatApart ==
  ASSUME NEW T, NEW s \in Seq(T), NEW t \in Seq(T), NEW M, Apart(s, M), Apart(t, M),
         \A i \in DOMAIN s, j \in DOMAIN t : M[s[i]] \cap M[t[j]] = {}
  PROVE  Apart(s \o t, M)
<1>1. PICK u, m, n : u = s \o t /\ m = Len(s) /\ n = Len(t)
  OBVIOUS
<1>2. /\ DOMAIN u = 1..(m + n) /\ m \in Nat /\ n \in Nat
      /\ \A i \in 1..(m + n) : u[i] = IF i <= m THEN s[i] ELSE t[i - m]
      /\ DOMAIN s = 1..m /\ DOMAIN t = 1..n
  BY <1>1
<1>3. ASSUME NEW i \in 1..(m + n), NEW j \in 1..(m + n), i # j PROVE M[u[i]] \cap M[u[j]] = {}
  <2>1. CASE i <= m /\ j <= m
    <3>1. i \in DOMAIN s /\ j \in DOMAIN s /\ u[i] = s[i] /\ u[j] = s[j]
      BY <1>2, <2>1
    <3> QED
      BY <1>3, <3>1 DEF Apart
  <2>2. CASE i <= m /\ ~(j <= m)
    <3>1. i \in DOMAIN s /\ j - m \in DOMAIN t /\ u[i] = s[i] /\ u[j] = t[j - m]
      BY <1>2, <2>2
    <3> QED
      BY <3>1
  <2>3. CASE ~(i <= m) /\ j <= m
    <3>1. j \in DOMAIN s /\ i - m \in DOMAIN t /\ u[j] = s[j] /\ u[i] = t[i - m]
      BY <1>2, <2>3
    <3>2. M[s[j]] \cap M[t[i - m]] = {}
      BY <3>1
    <3> QED
      BY <3>1, <3>2
  <2>4. CASE ~(i <= m) /\ ~(j <= m)
    <3>1. i - m \in DOMAIN t /\ j - m \in DOMAIN t /\ u[i] = t[i - m] /\ u[j] = t[j - m] /\ i - m # j - m
      BY <1>2, <1>3, <2>4
    <3> QED
      BY <3>1 DEF Apart
  <2> QED
    BY <2>1, <2>2, <2>3, <2>4
<1> QED
  BY <1>1, <1>2, <1>3 DEF Apart

-----------------------------------------------------------------------------
\* The sequences FlattenSeq goes through.
FlattenRun(f, ss) ==
    /\ f[1] = ss[1]
    /\ \A i \in 2..Len(ss) : f[i] = f[i - 1] \o ss[i]
    /\ FlattenSeq(ss) = f[Len(ss)]

\* FlattenSeq takes the lists one by one.
LEMMA FlattenUnfold ==
  ASSUME NEW ss, Len(ss) \in Nat, Len(ss) # 0
  PROVE  \E f : FlattenRun(f, ss)
<1> DEFINE n == Len(ss)
           Eq(f, m) == f = [i \in 1..m |-> IF i = 1 THEN ss[i] ELSE f[i - 1] \o ss[i]]
           Reached == {m \in Nat : \E f : Eq(f, m)}
<1>1. 0 \in Reached
  <2>1. PICK f : f = [i \in 1..0 |-> ss[i]]
    OBVIOUS
  <2>2. Eq(f, 0)
    BY <2>1
  <2> HIDE DEF Eq
  <2> QED
    BY <2>2
<1>2. ASSUME NEW m \in Nat, m \in Reached PROVE m + 1 \in Reached
  <2>1. PICK f : Eq(f, m)
    BY <1>2
  <2> DEFINE g == [i \in 1..(m + 1) |-> IF i = m + 1 THEN (IF m = 0 THEN ss[1] ELSE f[m] \o ss[m + 1]) ELSE f[i]]
             w == [i \in 1..(m + 1) |-> IF i = 1 THEN ss[i] ELSE g[i - 1] \o ss[i]]
  <2>2. \A i \in 1..(m + 1) : g[i] = w[i]
    <3> TAKE i \in 1..(m + 1)
    <3>1. CASE i = 1 /\ m = 0
      BY <3>1
    <3>2. CASE i = m + 1 /\ m # 0
      <4>0. i - 1 = m /\ i # 1 /\ m \in 1..(m + 1) /\ m # m + 1
        BY <3>2
      <4>01. g[i] = f[m] \o ss[m + 1]
        BY <3>2
      <4>1. g[i] = f[m] \o ss[m + 1] /\ i - 1 = m /\ i # 1 /\ m \in 1..(m + 1) /\ m # m + 1
        BY <4>0, <4>01
      <4>2. g[m] = f[m]
        BY <4>1
      <4>3. w[i] = g[m] \o ss[m + 1]
        BY <3>2, <4>1
      <4> QED
        BY <4>1, <4>2, <4>3
    <3>3. CASE i \in 1..m
      <4>1. i # m + 1 /\ g[i] = f[i]
        BY <3>3
      <4>2. CASE i = 1
        BY <2>1, <3>3, <4>1, <4>2
      <4>3. CASE i # 1
        <5>1. i - 1 \in 1..m /\ i - 1 \in 1..(m + 1) /\ i - 1 # m + 1
          BY <3>3, <4>3
        <5>2. g[i - 1] = f[i - 1]
          BY <5>1
        <5>3. f[i] = f[i - 1] \o ss[i]
          BY <2>1, <3>3, <4>3
        <5>4. w[i] = g[i - 1] \o ss[i]
          BY <4>3
        <5> QED
          BY <4>1, <5>2, <5>3, <5>4
      <4> QED
        BY <4>2, <4>3
    <3> QED
      BY <3>1, <3>2, <3>3
  <2>3. g = w
    BY <2>2
  <2> HIDE DEF g
  <2>4. Eq(g, m + 1)
    BY <2>3
  <2> HIDE DEF Eq
  <2> QED
    BY <2>4
<1> HIDE DEF Reached
<1>3. n \in Reached
  BY <1>1, <1>2, InductionSet
<1>4. PICK f : Eq(f, n)
  BY <1>3 DEF Reached
<1> DEFINE a == CHOOSE h : Eq(h, n)
<1>5. Eq(a, n)
  <2> HIDE DEF Eq
  <2> QED
    BY <1>4
<1>6. FlattenSeq(ss) = a[n]
  BY DEF FlattenSeq
<1> HIDE DEF a
<1>7. a[1] = ss[1] /\ \A i \in 2..n : a[i] = a[i - 1] \o ss[i]
  <2>1. a = [i \in 1..n |-> IF i = 1 THEN ss[i] ELSE a[i - 1] \o ss[i]]
    BY <1>5
  <2>2. 1 \in 1..n /\ \A i \in 2..n : i \in 1..n /\ i # 1
    OBVIOUS
  <2>3. a[1] = ss[1]
    BY <2>1, <2>2
  <2>4. ASSUME NEW i \in 2..n PROVE a[i] = a[i - 1] \o ss[i]
    <3>1. PICK v : v = a[i - 1] \o ss[i]
      OBVIOUS
    <3>2. i \in 1..n /\ i # 1
      BY <2>2
    <3> HIDE DEF n
    <3>3. a[i] = v
      BY <2>1, <3>1, <3>2
    <3> QED
      BY <3>1, <3>3
  <2> QED
    BY <2>3, <2>4
<1> QED
  BY <1>6, <1>7 DEF FlattenRun

\* What FlattenSeq makes of sequences over T.
LEMMA FlattenIs ==
  ASSUME NEW T, NEW ss \in Seq(Seq(T))
  PROVE  /\ FlattenSeq(ss) \in Seq(T)
         /\ Range(FlattenSeq(ss)) = UNION {Range(ss[i]) : i \in 1..Len(ss)}
         /\ Len(ss) # 0 /\ Len(ss[1]) # 0 => Len(FlattenSeq(ss)) # 0 /\ FlattenSeq(ss)[1] = ss[1][1]
         /\ Len(ss) = 0 => FlattenSeq(ss) = << >>
         /\ (\A i \in 1..Len(ss) : Len(ss[i]) = 1) =>
               Len(FlattenSeq(ss)) = Len(ss) /\ \A i \in 1..Len(ss) : FlattenSeq(ss)[i] = ss[i][1]
         /\ \A M : (\A i \in 1..Len(ss) : Apart(ss[i], M))
                   /\ (\A i, j \in 1..Len(ss) : i # j =>
                         \A k \in DOMAIN ss[i], l \in DOMAIN ss[j] : M[ss[i][k]] \cap M[ss[j][l]] = {})
                   => Apart(FlattenSeq(ss), M)
<1>1. PICK n : n = Len(ss)
  OBVIOUS
<1>2. n \in Nat /\ DOMAIN ss = 1..n /\ \A i \in 1..n : ss[i] \in Seq(T)
  BY <1>1
<1>3. CASE n = 0
  <2>1. ss = << >> /\ FlattenSeq(ss) = << >>
    BY <1>1, <1>3, EmptySeq DEF FlattenSeq
  <2>2. Range(<< >>) = {} /\ DOMAIN << >> = {} /\ << >> \in Seq(T) /\ 1..0 = {}
    BY DEF Range
  <2> QED
    BY <1>1, <1>3, <2>1, <2>2 DEF Apart
<1>4. CASE n # 0
  <2>1. PICK f : FlattenRun(f, ss)
    BY <1>1, <1>2, <1>4, FlattenUnfold
  <2>2. f[1] = ss[1] /\ (\A i \in 2..n : f[i] = f[i - 1] \o ss[i]) /\ FlattenSeq(ss) = f[n]
    BY <1>1, <2>1 DEF FlattenRun
  <2> DEFINE Q(i) == 1 <= i /\ i <= n =>
               /\ f[i] \in Seq(T)
               /\ \A x : x \in Range(f[i]) <=> \E j \in 1..i : x \in Range(ss[j])
               /\ Len(ss[1]) # 0 => Len(f[i]) # 0 /\ f[i][1] = ss[1][1]
               /\ (\A j \in 1..n : Len(ss[j]) = 1) => Len(f[i]) = i /\ \A j \in 1..i : f[i][j] = ss[j][1]
               /\ \A M : (\A j \in 1..n : Apart(ss[j], M))
                         /\ (\A j, l \in 1..n : j # l =>
                              \A k \in DOMAIN ss[j], m \in DOMAIN ss[l] : M[ss[j][k]] \cap M[ss[l][m]] = {})
                         => Apart(f[i], M)
  <2>3. Q(0)
    OBVIOUS
  <2>4. ASSUME NEW i \in Nat, Q(i) PROVE Q(i + 1)
    <3> SUFFICES ASSUME 1 <= i + 1, i + 1 <= n
                 PROVE  /\ f[i + 1] \in Seq(T)
                        /\ \A x : x \in Range(f[i + 1]) <=> \E j \in 1..(i + 1) : x \in Range(ss[j])
                        /\ Len(ss[1]) # 0 => Len(f[i + 1]) # 0 /\ f[i + 1][1] = ss[1][1]
                        /\ (\A j \in 1..n : Len(ss[j]) = 1) =>
                               Len(f[i + 1]) = i + 1 /\ \A j \in 1..(i + 1) : f[i + 1][j] = ss[j][1]
                        /\ \A M : (\A j \in 1..n : Apart(ss[j], M))
                              /\ (\A j, l \in 1..n : j # l =>
                              \A k \in DOMAIN ss[j], m \in DOMAIN ss[l] : M[ss[j][k]] \cap M[ss[l][m]] = {})
                              => Apart(f[i + 1], M)
      OBVIOUS
    <3>1. CASE i = 0
      <4>1. f[i + 1] = ss[1] /\ 1 \in 1..n /\ 1..(i + 1) = {1} /\ i + 1 = 1
        BY <1>2, <1>4, <2>2, <3>1
      <4> QED
        BY <1>2, <4>1
    <3>2. CASE i # 0
      <4>1. i + 1 \in 2..n /\ i + 1 \in 1..n /\ (i + 1) - 1 = i /\ i \in 1..n /\ 1 <= i /\ i <= n
        BY <1>2, <3>2
      <4>2. PICK g, t, u : g = f[i] /\ t = ss[i + 1] /\ u = f[i + 1]
        OBVIOUS
      <4>3. u = g \o t /\ g \in Seq(T) /\ t \in Seq(T)
        BY <1>2, <2>2, <2>4, <4>1, <4>2
      <4>4. /\ u \in Seq(T) /\ Len(u) = Len(g) + Len(t) /\ Range(u) = Range(g) \cup Range(t)
            /\ DOMAIN u = 1..(Len(g) + Len(t)) /\ Len(g) \in Nat /\ Len(t) \in Nat
            /\ \A j \in 1..(Len(g) + Len(t)) : u[j] = IF j <= Len(g) THEN g[j] ELSE t[j - Len(g)]
        BY <4>3, ConcatIs
      <4>5. \A x : x \in Range(g) <=> \E j \in 1..i : x \in Range(ss[j])
        BY <2>4, <4>1, <4>2
      <4>6. \A x : x \in Range(u) <=> \E j \in 1..(i + 1) : x \in Range(ss[j])
        <5>1. \A j : j \in 1..(i + 1) <=> j \in 1..i \/ j = i + 1
          BY <4>1
        <5> QED
          BY <4>2, <4>4, <4>5, <5>1
      <4>7. Len(ss[1]) # 0 => Len(u) # 0 /\ u[1] = ss[1][1]
        <5>1. Len(ss[1]) # 0 => Len(g) # 0 /\ g[1] = ss[1][1]
          BY <2>4, <4>1, <4>2
        <5> QED
          BY <4>4, <5>1
      <4>8. ASSUME \A j \in 1..n : Len(ss[j]) = 1 PROVE Len(u) = i + 1 /\ \A j \in 1..(i + 1) : u[j] = ss[j][1]
        <5>1. Len(g) = i /\ \A j \in 1..i : g[j] = ss[j][1]
          BY <2>4, <4>1, <4>2, <4>8
        <5>2. Len(t) = 1
          BY <4>1, <4>2, <4>8
        <5>3. ASSUME NEW j \in 1..(i + 1) PROVE u[j] = ss[j][1]
          <6>1. j \in 1..i \/ (j = i + 1 /\ j - i = 1)
            BY <4>1
          <6>2. u[j] = IF j <= i THEN g[j] ELSE t[j - i]
            BY <4>4, <5>1, <5>2
          <6>3. CASE j \in 1..i
            <7>1. j <= i
              BY <6>3
            <7>2. u[j] = g[j]
              BY <6>2, <7>1
            <7> QED
              BY <5>1, <6>3, <7>2
          <6>4. CASE j = i + 1 /\ j - i = 1
            <7>1. ~(j <= i)
              BY <6>4
            <7>2. u[j] = t[1]
              BY <6>2, <6>4, <7>1
            <7> QED
              BY <4>2, <6>4, <7>2
          <6> QED
            BY <6>1, <6>3, <6>4
        <5> QED
          BY <4>4, <5>1, <5>2, <5>3
      <4>9. ASSUME NEW M, \A j \in 1..n : Apart(ss[j], M),
                   \A j, l \in 1..n : j # l =>
                        \A k \in DOMAIN ss[j], m \in DOMAIN ss[l] : M[ss[j][k]] \cap M[ss[l][m]] = {}
            PROVE  Apart(u, M)
        <5>1. Apart(g, M)
          BY <2>4, <4>1, <4>2, <4>9
        <5>2. Apart(t, M)
          BY <4>1, <4>2, <4>9
        <5>3. ASSUME NEW k \in DOMAIN g, NEW m \in DOMAIN t PROVE M[g[k]] \cap M[t[m]] = {}
          <6>1. g[k] \in Range(g)
            BY DEF Range
          <6>2. PICK j \in 1..i : g[k] \in Range(ss[j])
            BY <4>5, <6>1
          <6>3. PICK h \in DOMAIN ss[j] : g[k] = ss[j][h]
            BY <6>2 DEF Range
          <6>4. j \in 1..n /\ j # i + 1
            BY <1>2, <4>1
          <6>5. i + 1 \in 1..n /\ t = ss[i + 1]
            BY <4>1, <4>2
          <6>6. \A l \in DOMAIN ss[i + 1] : M[ss[j][h]] \cap M[ss[i + 1][l]] = {}
            BY <4>9, <6>4, <6>5
          <6> QED
            BY <6>3, <6>5, <6>6
        <5> QED
          BY <4>3, <5>1, <5>2, <5>3, ConcatApart
      <4> QED
        BY <4>2, <4>4, <4>6, <4>7, <4>8, <4>9
    <3> QED
      BY <3>1, <3>2
  <2>5. Q(n)
    <3> HIDE DEF Q
    <3>1. PICK S : S = {i \in Nat : Q(i)}
      OBVIOUS
    <3>2. 0 \in S /\ \A i \in Nat : i \in S => i + 1 \in S
      BY <2>3, <2>4, <3>1
    <3>3. n \in S
      BY <1>2, <3>2, InductionSet
    <3> QED
      BY <3>1, <3>3
  <2>6. PICK F : F = FlattenSeq(ss)
    OBVIOUS
  <2>7. F = f[n] /\ 1 <= n /\ n <= n
    BY <1>2, <1>4, <2>2, <2>6
  <2>8. F \in Seq(T) /\ \A x : x \in Range(F) <=> \E j \in 1..n : x \in Range(ss[j])
    BY <2>5, <2>7
  <2>9. Range(F) = UNION {Range(ss[i]) : i \in 1..n}
    BY <2>8
  <2>10. Len(ss[1]) # 0 => Len(F) # 0 /\ F[1] = ss[1][1]
    BY <2>5, <2>7
  <2>11. (\A j \in 1..n : Len(ss[j]) = 1) => Len(F) = n /\ \A j \in 1..n : F[j] = ss[j][1]
    BY <2>5, <2>7
  <2>12. \A M : (\A j \in 1..n : Apart(ss[j], M))
                /\ (\A j, l \in 1..n : j # l =>
                      \A k \in DOMAIN ss[j], m \in DOMAIN ss[l] : M[ss[j][k]] \cap M[ss[l][m]] = {})
                => Apart(F, M)
    BY <2>5, <2>7
  <2> HIDE DEF Q
  <2>13. Range(F) = UNION {Range(ss[i]) : i \in 1..Len(ss)}
    BY <1>1, <2>9
  <2>14. (\A i \in 1..Len(ss) : Len(ss[i]) = 1) => Len(F) = Len(ss) /\ \A i \in 1..Len(ss) : F[i] = ss[i][1]
    BY <1>1, <2>11
  <2>15. \A M : (\A i \in 1..Len(ss) : Apart(ss[i], M))
                /\ (\A i, j \in 1..Len(ss) : i # j =>
                      \A k \in DOMAIN ss[i], l \in DOMAIN ss[j] : M[ss[i][k]] \cap M[ss[j][l]] = {})
                => Apart(F, M)
    <3> SUFFICES ASSUME NEW M, \A i \in 1..Len(ss) : Apart(ss[i], M),
                        \A i, j \in 1..Len(ss) : i # j =>
                           \A k \in DOMAIN ss[i], l \in DOMAIN ss[j] : M[ss[i][k]] \cap M[ss[j][l]] = {}
                 PROVE  Apart(F, M)
      OBVIOUS
    <3>1. \A j \in 1..n : Apart(ss[j], M)
      BY <1>1
    <3>2. \A j, l \in 1..n : j # l =>
             \A k \in DOMAIN ss[j], m \in DOMAIN ss[l] : M[ss[j][k]] \cap M[ss[l][m]] = {}
      BY <1>1
    <3> QED
      BY <2>12, <3>1, <3>2
  <2>16. Len(ss) # 0 /\ F \in Seq(T) /\ (Len(ss[1]) # 0 => Len(F) # 0 /\ F[1] = ss[1][1])
    BY <1>1, <1>4, <2>8, <2>10
  <2> HIDE <1>1, <1>4
  <2> QED
    BY <2>6, <2>13, <2>14, <2>15, <2>16
<1> QED
  BY <1>3, <1>4

-----------------------------------------------------------------------------
(***************************************************************************)
(* Gestures of several parts.  P is the outline the parts were planned on, *)
(* a the outline when the first k of them have run.                        *)
(***************************************************************************)
Creates == {"append_ink", "restore"}
Makes(e) ==
    CASE e.kind = "append_ink" -> {e.id}
      [] e.kind = "restore" -> DOMAIN e.body.node
      [] OTHER -> {}
Brought(e, x) == IF e.kind = "append_ink" THEN e.rec ELSE e.body.node[x]

\* A part that names what is there, or brings what is new.
PartOK(P, e) ==
    \/ /\ e.kind = "append_ink" /\ e.id \in Nat \ {Root} /\ e.id \notin DOMAIN P.node /\ e.rec \in InkNode
       /\ \/ e.after \in DOMAIN P.node /\ P.node[e.after].kind = "ink" /\ e.parent = P.up[e.after]
          \/ e.after = Root /\ e.parent = Root
    \/ e.kind = "remove_node" /\ e.id \in DOMAIN P.node
    \/ /\ e.kind = "restore" /\ BodyOK(e.body) /\ e.body.top = e.id /\ e.index \in Nat \ {0}
       /\ DOMAIN e.body.node \cap DOMAIN P.node = {}
       /\ e.parent \in DOMAIN P.node \cup {Root}
       /\ e.parent # Root => Holds(P.node[e.parent].kind, e.body.node[e.id].kind)
    \/ /\ e.kind = "set_ink_samples" /\ Of(P, e.id, "ink")
       /\ e.lo \in Int /\ e.hi \in Int /\ e.lo <= e.hi
    \/ /\ e.kind = "set_endpoint_ink" /\ Of(P, e.id, "conn") /\ e.fromEnd \in BOOLEAN
       /\ e.strokes \in Seq(Interval) /\ "strokes" \in DOMAIN e

\* The fields of x that the first k parts set.
Reset(es, k, x) == {f \in Fields : \E j \in 1..k : es[j].id = x /\ f \in Sets(es[j])}
Torn(a, P, es, k) ==
    \A x \in DOMAIN P.node \ DOMAIN a.node :
        \E j \in 1..k : es[j].kind = "remove_node" /\ x \in Below(P.up, {es[j].id})
Left(a, P, es, k) ==
    \A x \in DOMAIN P.node \cap DOMAIN a.node :
        a.up[x] = P.up[x] /\ Agree(a.node[x], P.node[x], Reset(es, k, x))
Born(a, P, es, k) ==
    \A x \in DOMAIN a.node \ DOMAIN P.node :
        \E j \in 1..k : /\ es[j].kind \in Creates /\ x \in Below(a.up, {es[j].id})
                       /\ x \in Makes(es[j]) /\ a.node[x] = Brought(es[j], x)
Marring(a, P, es, k) == Torn(a, P, es, k) /\ Left(a, P, es, k) /\ Born(a, P, es, k)

\* b is a, and more.
Grown(a, b) ==
    /\ DOMAIN b.up = DOMAIN b.node /\ DOMAIN a.node \subseteq DOMAIN b.node
    /\ \A x \in DOMAIN a.node : b.node[x] = a.node[x] /\ b.up[x] = a.up[x]

\* The fields reset by the first k parts grow with k.
LEMMA ResetMore ==
  ASSUME NEW es, NEW k \in Nat \ {0}, NEW x
  PROVE  /\ Reset(es, k - 1, x) \subseteq Reset(es, k, x)
         /\ es[k].id = x => Sets(es[k]) \cap Fields \subseteq Reset(es, k, x)
<1>1. \A j : j \in 1..(k - 1) => j \in 1..k
  OBVIOUS
<1>2. k \in 1..k
  OBVIOUS
<1> QED
  BY <1>1, <1>2 DEF Reset

\* Agreement but for some fields is agreement but for more.
LEMMA AgreeMore ==
  ASSUME NEW m, NEW n, NEW F, NEW H, F \subseteq H, Agree(m, n, F)
  PROVE  Agree(m, n, H)
BY DEF Agree

\* A part that adds.
LEMMA MarGrow ==
  ASSUME NEW a, Sound(a), NEW P, NEW es, NEW k \in Nat \ {0}, Marring(a, P, es, k - 1),
         NEW b, Grown(a, b), es[k].kind \in Creates,
         \A x \in DOMAIN b.node \ DOMAIN a.node :
            /\ x \notin DOMAIN P.node /\ x \in Below(b.up, {es[k].id}) /\ x \in Makes(es[k])
            /\ b.node[x] = Brought(es[k], x)
  PROVE  Marring(b, P, es, k)
<1>0. (\A j : j \in 1..(k - 1) => j \in 1..k) /\ k \in 1..k
  OBVIOUS
<1>1. Torn(b, P, es, k)
  BY <1>0 DEF Marring, Torn, Grown
<1>2. Left(b, P, es, k)
  <2> SUFFICES ASSUME NEW x \in DOMAIN P.node \cap DOMAIN b.node
               PROVE  b.up[x] = P.up[x] /\ Agree(b.node[x], P.node[x], Reset(es, k, x))
    BY DEF Left
  <2>1. x \in DOMAIN a.node
    OBVIOUS
  <2>2. b.node[x] = a.node[x] /\ b.up[x] = a.up[x]
    BY <2>1 DEF Grown
  <2>3. a.up[x] = P.up[x] /\ Agree(a.node[x], P.node[x], Reset(es, k - 1, x))
    BY <2>1 DEF Marring, Left
  <2>4. Reset(es, k - 1, x) \subseteq Reset(es, k, x)
    BY ResetMore
  <2>5. Agree(a.node[x], P.node[x], Reset(es, k, x))
    BY <2>3, <2>4, AgreeMore
  <2> QED
    BY <2>2, <2>3, <2>5
<1>3. Born(b, P, es, k)
  <2> SUFFICES ASSUME NEW x \in DOMAIN b.node \ DOMAIN P.node
               PROVE  \E j \in 1..k : /\ es[j].kind \in Creates /\ x \in Below(b.up, {es[j].id})
                                     /\ x \in Makes(es[j]) /\ b.node[x] = Brought(es[j], x)
    BY DEF Born
  <2>1. CASE x \notin DOMAIN a.node
    BY <1>0, <2>1
  <2>2. CASE x \in DOMAIN a.node
    <3>1. PICK j \in 1..(k - 1) : /\ es[j].kind \in Creates /\ x \in Below(a.up, {es[j].id})
                                    /\ x \in Makes(es[j]) /\ a.node[x] = Brought(es[j], x)
      BY <2>2 DEF Marring, Born
    <3>2. Below(a.up, {}) = {}
      BY BelowNone
    <3>3. DOMAIN a.node \ Below(a.up, {}) \subseteq DOMAIN b.node
          /\ \A y \in DOMAIN a.node \ Below(a.up, {}) : b.up[y] = a.up[y]
      BY DEF Grown
    <3>4. Below(a.up, {es[j].id}) \subseteq Below(a.up, {}) \cup Below(b.up, {es[j].id})
      BY <3>3, PrunedBelow DEF Grown
    <3>5. b.node[x] = a.node[x]
      BY <2>2 DEF Grown
    <3> QED
      BY <1>0, <3>1, <3>2, <3>4, <3>5
  <2> QED
    BY <2>1, <2>2
<1> QED
  BY <1>1, <1>2, <1>3 DEF Marring

\* A part that removes.
LEMMA MarPrune ==
  ASSUME NEW a, Sound(a), NEW P, Sound(P), NEW es, NEW k \in Nat \ {0}, Marring(a, P, es, k - 1),
         es[k].kind = "remove_node", es[k].id \in DOMAIN P.node
  PROVE  Marring(Pruned(a, {es[k].id}), P, es, k)
<1> DEFINE t == es[k].id
           b == Pruned(a, {t})
<1>0. (\A j : j \in 1..(k - 1) => j \in 1..k) /\ k \in 1..k
  OBVIOUS
<1>1. /\ DOMAIN b.node = DOMAIN a.node \ Below(a.up, {t}) /\ DOMAIN b.up = DOMAIN b.node
      /\ \A x \in DOMAIN b.node : b.node[x] = a.node[x] /\ b.up[x] = a.up[x]
  <2>1. DOMAIN a.up = DOMAIN a.node
    BY SoundIs
  <2> QED
    BY <2>1 DEF Pruned, Restrict
<1>2. PICK c : c = b
  OBVIOUS
<1> HIDE DEF b
<1>3. Torn(c, P, es, k)
  <2> SUFFICES ASSUME NEW x \in DOMAIN P.node \ DOMAIN c.node
               PROVE  \E j \in 1..k : es[j].kind = "remove_node" /\ x \in Below(P.up, {es[j].id})
    BY DEF Torn
  <2>1. CASE x \notin DOMAIN a.node
    BY <1>0, <2>1 DEF Marring, Torn
  <2>2. CASE x \in DOMAIN a.node
    <3>1. x \in Below(a.up, {t})
      BY <1>1, <1>2, <2>2
    <3>2. {t} \subseteq Below(P.up, {t})
      <4>1. DOMAIN P.up = DOMAIN P.node
        BY SoundIs
      <4> QED
        BY <4>1, BelowIs
    <3>3. Below(a.up, {t}) \subseteq Below(a.up, Below(P.up, {t}))
      BY <3>2, BelowSome
    <3>4. \A y \in DOMAIN P.node \cap DOMAIN a.node : a.up[y] = P.up[y] \/ a.up[y] \in {}
      BY DEF Marring, Left
    <3>5. Below(a.up, Below(P.up, {t})) \cap DOMAIN P.node \subseteq Below(P.up, {t})
      <4>1. /\ \A z \in {} \cap DOMAIN a.node : a.up[z] \in {} \cup {Root}
            /\ {} \cap Below(P.up, {t}) = {} /\ t \in DOMAIN P.node
        OBVIOUS
      <4>2. PICK G : G = {}
        OBVIOUS
      <4>3. /\ \A y \in DOMAIN P.node \cap DOMAIN a.node : a.up[y] = P.up[y] \/ a.up[y] \in G
            /\ \A z \in G \cap DOMAIN a.node : a.up[z] \in G \cup {Root}
            /\ G \cap Below(P.up, {t}) = {}
        BY <3>4, <4>1, <4>2
      <4> HIDE DEF t
      <4> QED
        BY <4>1, <4>3, TakesOwn
    <3> QED
      BY <1>0, <3>1, <3>3, <3>5
  <2> QED
    BY <2>1, <2>2
<1>4. Left(c, P, es, k)
  <2> SUFFICES ASSUME NEW x \in DOMAIN P.node \cap DOMAIN c.node
               PROVE  c.up[x] = P.up[x] /\ Agree(c.node[x], P.node[x], Reset(es, k, x))
    BY DEF Left
  <2>2. x \in DOMAIN a.node /\ c.node[x] = a.node[x] /\ c.up[x] = a.up[x]
    BY <1>1, <1>2
  <2>3. a.up[x] = P.up[x] /\ Agree(a.node[x], P.node[x], Reset(es, k - 1, x))
    BY <2>2 DEF Marring, Left
  <2>4. Reset(es, k - 1, x) \subseteq Reset(es, k, x)
    BY ResetMore
  <2>5. Agree(a.node[x], P.node[x], Reset(es, k, x))
    BY <2>3, <2>4, AgreeMore
  <2> QED
    BY <2>2, <2>3, <2>5
<1>5. Born(c, P, es, k)
  <2> SUFFICES ASSUME NEW x \in DOMAIN c.node \ DOMAIN P.node
               PROVE  \E j \in 1..k : /\ es[j].kind \in Creates /\ x \in Below(c.up, {es[j].id})
                                     /\ x \in Makes(es[j]) /\ c.node[x] = Brought(es[j], x)
    BY DEF Born
  <2>1. x \in DOMAIN a.node /\ x \notin Below(a.up, {t}) /\ c.node[x] = a.node[x]
    BY <1>1, <1>2
  <2>2. PICK j \in 1..(k - 1) : /\ es[j].kind \in Creates /\ x \in Below(a.up, {es[j].id})
                                    /\ x \in Makes(es[j]) /\ a.node[x] = Brought(es[j], x)
    BY <2>1 DEF Marring, Born
  <2>3. /\ DOMAIN c.up = DOMAIN c.node /\ DOMAIN a.node \ Below(a.up, {t}) \subseteq DOMAIN c.node
        /\ \A y \in DOMAIN a.node \ Below(a.up, {t}) : c.up[y] = a.up[y]
    BY <1>1, <1>2
  <2>4. Below(a.up, {es[j].id}) \subseteq Below(a.up, {t}) \cup Below(c.up, {es[j].id})
    BY <2>3, PrunedBelow
  <2> QED
    BY <1>0, <2>1, <2>2, <2>4
<1>6. Marring(c, P, es, k)
  BY <1>3, <1>4, <1>5 DEF Marring
<1> QED
  BY <1>2, <1>6 DEF b

\* A part that sets.
LEMMA MarSet ==
  ASSUME NEW a, Sound(a), NEW P, NEW es, NEW k \in Nat \ {0}, Marring(a, P, es, k - 1),
         NEW b, DOMAIN b.node = DOMAIN a.node, b.up = a.up,
         \A x \in DOMAIN a.node : x # es[k].id => b.node[x] = a.node[x],
         es[k].id \in DOMAIN a.node => Agree(b.node[es[k].id], a.node[es[k].id], Sets(es[k])),
         Sets(es[k]) \subseteq Fields, es[k].id \in DOMAIN P.node
  PROVE  Marring(b, P, es, k)
<1>0. (\A j : j \in 1..(k - 1) => j \in 1..k) /\ k \in 1..k
  OBVIOUS
<1>1. Torn(b, P, es, k)
  BY <1>0 DEF Marring, Torn
<1>2. Left(b, P, es, k)
  <2> SUFFICES ASSUME NEW x \in DOMAIN P.node \cap DOMAIN b.node
               PROVE  b.up[x] = P.up[x] /\ Agree(b.node[x], P.node[x], Reset(es, k, x))
    BY DEF Left
  <2>3. a.up[x] = P.up[x] /\ Agree(a.node[x], P.node[x], Reset(es, k - 1, x))
    BY DEF Marring, Left
  <2>4. Reset(es, k - 1, x) \subseteq Reset(es, k, x) /\ (es[k].id = x => Sets(es[k]) \subseteq Reset(es, k, x))
    BY ResetMore
  <2>5. CASE x # es[k].id
    <3>1. Agree(a.node[x], P.node[x], Reset(es, k, x))
      BY <2>3, <2>4, AgreeMore
    <3> QED
      BY <2>3, <2>5, <3>1
  <2>6. CASE x = es[k].id
    <3>1. Agree(b.node[x], a.node[x], Sets(es[k]))
      BY <2>6
    <3>2. Agree(b.node[x], P.node[x], Reset(es, k, x))
      BY <2>3, <2>4, <2>6, <3>1 DEF Agree
    <3> QED
      BY <2>3, <3>2
  <2> QED
    BY <2>5, <2>6
<1>3. Born(b, P, es, k)
  <2> SUFFICES ASSUME NEW x \in DOMAIN b.node \ DOMAIN P.node
               PROVE  \E j \in 1..k : /\ es[j].kind \in Creates /\ x \in Below(b.up, {es[j].id})
                                     /\ x \in Makes(es[j]) /\ b.node[x] = Brought(es[j], x)
    BY DEF Born
  <2>1. PICK j \in 1..(k - 1) : /\ es[j].kind \in Creates /\ x \in Below(a.up, {es[j].id})
                                    /\ x \in Makes(es[j]) /\ a.node[x] = Brought(es[j], x)
    BY DEF Marring, Born
  <2>2. b.node[x] = a.node[x]
    OBVIOUS
  <2> QED
    BY <1>0, <2>1, <2>2
<1> QED
  BY <1>1, <1>2, <1>3 DEF Marring

-----------------------------------------------------------------------------
\* A body hangs below its top.
LEMMA PlantedBelow ==
  ASSUME NEW body, BodyOK(body), NEW b, DOMAIN body.node \subseteq DOMAIN b.up,
         \A x \in DOMAIN body.node : x # body.top => b.up[x] = Plan(body).up[x]
  PROVE  DOMAIN body.node \subseteq Below(b.up, {body.top})
<1> DEFINE D == DOMAIN body.node
           B == Below(b.up, {body.top})
           S == D \ B
<1>1. /\ DOMAIN Plan(body).up = D /\ Sound(Plan(body)) /\ Plan(body).node = body.node
      /\ \A x \in D : (Plan(body).up[x] = Root) <=> (x = body.top)
      /\ body.top \in D
  BY BodyIs
<1>2. body.top \in B /\ \A z \in DOMAIN b.up : b.up[z] \in B => z \in B
  BY <1>1, BelowIs
<1>3. S \in SUBSET D
  OBVIOUS
<1> HIDE DEF S
<1>4. ASSUME S # {} PROVE FALSE
  <2>1. PICK x \in S : Plan(body).up[x] \notin S
    BY <1>1, <1>3, <1>4 DEF Sound, Founded
  <2>2. x \in D /\ x \notin B /\ x # body.top
    BY <1>2 DEF S
  <2>3. Plan(body).up[x] \in D
    BY <1>1, <2>2, SoundIs
  <2>4. Plan(body).up[x] \in B
    BY <2>1, <2>3 DEF S
  <2> QED
    BY <1>2, <2>2, <2>4
<1> QED
  BY <1>4 DEF S

\* What is planted beside what is there.
LEMMA PlantedIs ==
  ASSUME NEW a, NEW b, NEW parent, DOMAIN a.node \cap DOMAIN b.node = {}
  PROVE  /\ Grown(a, Planted(a, b, parent))
         /\ DOMAIN Planted(a, b, parent).node = DOMAIN a.node \cup DOMAIN b.node
         /\ \A x \in DOMAIN b.node : /\ Planted(a, b, parent).node[x] = b.node[x]
                                     /\ Planted(a, b, parent).up[x] = Hung(b, parent, x)
BY DEF Planted, Grown

\* A part that appends ink.
LEMMA PartAppend ==
  ASSUME NEW page, Tree(page), NEW P, Sound(P), NEW es, NEW k \in Nat \ {0}, NEW e, e = es[k],
         PartOK(P, e), e.kind = "append_ink", Marring(Outline(page), P, es, k - 1), Apply(page, e).ok
  PROVE  /\ Fits(Outline(page), e) /\ Marring(After(Outline(page), e), P, es, k)
         /\ e.id \in DOMAIN After(Outline(page), e).node
<1>1. PICK a : a = Outline(page)
  OBVIOUS
<1>2. /\ Sound(a) /\ DOMAIN a.node = Ids(page) /\ a.up = Up(page) /\ Root \notin Ids(page)
      /\ DOMAIN page.kids = Ids(page) \cup {Root} /\ Placed(page)
      /\ (\A x : Has(a, x) <=> x \in Ids(page)) /\ (\A x : Has(page, x) <=> x \in Ids(page))
  BY <1>1, TreeIs, OutlineIs
<1>3. ApplyAppend(page, e).ok
  BY DEF Apply
<1>4. /\ e.id \in Nat \ {Root} /\ e.id \notin DOMAIN P.node /\ e.rec \in InkNode
      /\ \/ e.after \in DOMAIN P.node /\ P.node[e.after].kind = "ink" /\ e.parent = P.up[e.after]
         \/ e.after = Root /\ e.parent = Root
  BY DEF PartOK
<1>5. e.id \notin Ids(page)
  BY <1>2, <1>3 DEF ApplyAppend, Threw
<1>6. /\ Has(page, e.after) => Home(a, e) = ParentOf(page, e.after)
      /\ ~Has(page, e.after) => Home(a, e) = e.parent
  BY <1>2, PlaceOf DEF Home
<1>7. Home(a, e) \in DOMAIN a.node \cup {Root}
  <2>1. (IF Has(page, e.after) THEN ParentOf(page, e.after) ELSE e.parent) \in DOMAIN page.kids
    BY <1>3 DEF ApplyAppend, Threw, Place
  <2> QED
    BY <1>2, <1>6, <2>1
<1>8. ASSUME Home(a, e) # Root PROVE Holds(a.node[Home(a, e)].kind, "ink")
  <2>1. e.after # Root
    <3>1. Root \notin DOMAIN P.node
      BY SoundIs
    <3>2. ASSUME e.after = Root PROVE FALSE
      <4>1. e.parent = Root /\ ~Has(page, e.after)
        BY <1>2, <1>4, <3>1, <3>2
      <4> QED
        BY <1>6, <1>8, <4>1
    <3> QED
      BY <3>2
  <2>2. e.after \in DOMAIN P.node /\ P.node[e.after].kind = "ink" /\ e.parent = P.up[e.after]
    BY <1>4, <2>1
  <2>3. Home(a, e) = P.up[e.after]
    <3>1. CASE Has(page, e.after)
      BY <1>1, <1>2, <2>2, <3>1 DEF Marring, Left, Home
    <3>2. CASE ~Has(page, e.after)
      BY <1>6, <2>2, <3>2
    <3> QED
      BY <3>1, <3>2
  <2>4. Holds(P.node[P.up[e.after]].kind, "ink") /\ P.up[e.after] \in DOMAIN P.node
    BY <1>8, <2>2, <2>3, SoundIs DEF Sound
  <2>5. a.node[Home(a, e)].kind = P.node[P.up[e.after]].kind
    <3>1. PICK h : h = Home(a, e)
      OBVIOUS
    <3>2. h \in DOMAIN P.node \cap DOMAIN a.node /\ h = P.up[e.after]
      BY <1>7, <1>8, <2>3, <2>4, <3>1
    <3>3. a.node[h].kind = P.node[h].kind
      BY <1>1, <3>2 DEF Marring, Left, Agree
    <3> QED
      BY <3>1, <3>2, <3>3
  <2> QED
    BY <2>4, <2>5
<1>9. Fits(a, e)
  BY <1>2, <1>4, <1>5, <1>7, <1>8 DEF Fits, FitsAppend
<1>10. PICK b : b = After(a, e)
  OBVIOUS
<1>11. b = Planted(a, Alone(e.id, e.rec), Home(a, e))
  BY <1>10 DEF After, AfterAppend
<1>12. DOMAIN Alone(e.id, e.rec).node = {e.id}
  BY DEF Alone
<1>13. Grown(a, b) /\ DOMAIN b.node = DOMAIN a.node \cup {e.id}
  BY <1>2, <1>5, <1>11, <1>12, PlantedIs
<1>14. e.id \in Below(b.up, {e.id})
  BY <1>13, BelowIs DEF Grown
<1>15. e.id \in Makes(e) /\ e.kind \in Creates
  BY DEF Makes, Creates
<1>17. b.node[e.id] = Brought(e, e.id)
  <2>1. b.node[e.id] = Alone(e.id, e.rec).node[e.id]
    BY <1>2, <1>5, <1>11, <1>12, PlantedIs
  <2> QED
    BY <2>1 DEF Alone, Brought
<1>16. Marring(b, P, es, k)
  <2>1. es[k].kind \in Creates /\ \A x \in DOMAIN b.node \ DOMAIN a.node :
            /\ x \notin DOMAIN P.node /\ x \in Below(b.up, {es[k].id}) /\ x \in Makes(es[k])
            /\ b.node[x] = Brought(es[k], x)
    BY <1>4, <1>13, <1>14, <1>15, <1>17
  <2> QED
    BY <1>1, <1>2, <1>13, <2>1, MarGrow
<1> QED
  BY <1>1, <1>9, <1>10, <1>13, <1>16

\* A part that puts a body in.
LEMMA PartRestore ==
  ASSUME NEW page, Tree(page), NEW P, Sound(P), NEW es, NEW k \in Nat \ {0}, NEW e, e = es[k],
         PartOK(P, e), e.kind = "restore", Marring(Outline(page), P, es, k - 1), Apply(page, e).ok,
         \A j \in 1..(k - 1) : Makes(es[j]) \cap Makes(e) = {}
  PROVE  /\ Fits(Outline(page), e) /\ Marring(After(Outline(page), e), P, es, k)
         /\ e.id \in DOMAIN After(Outline(page), e).node
<1>1. PICK a, D : a = Outline(page) /\ D = DOMAIN e.body.node
  OBVIOUS
<1>2. /\ Sound(a) /\ DOMAIN a.node = Ids(page) /\ a.up = Up(page) /\ Root \notin Ids(page)
  BY <1>1, TreeIs, OutlineIs
<1>3. ApplyMove(page, e.body, e.parent, e.index).ok
  BY DEF Apply
<1>4. /\ BodyOK(e.body) /\ e.body.top = e.id /\ e.index \in Nat \ {0}
      /\ D \cap DOMAIN P.node = {}
      /\ e.parent \in DOMAIN P.node \cup {Root}
      /\ e.parent # Root => Holds(P.node[e.parent].kind, e.body.node[e.id].kind)
  BY <1>1 DEF PartOK
<1>5. e.parent \in (Ids(page) \ Below(Up(page), D)) \cup {Root}
  BY <1>1, <1>3, MoveLost
<1>6. FitsMove(a, e.body, e.parent, e.index)
  <2>1. ASSUME e.parent # Root PROVE Holds(a.node[e.parent].kind, e.body.node[e.body.top].kind)
    <3>1. e.parent \in DOMAIN P.node \cap DOMAIN a.node
      BY <1>2, <1>4, <1>5, <2>1
    <3>2. a.node[e.parent].kind = P.node[e.parent].kind
      BY <1>1, <3>1 DEF Marring, Left, Agree
    <3> QED
      BY <1>4, <2>1, <3>2
  <2> QED
    BY <1>1, <1>2, <1>4, <1>5, <2>1 DEF FitsMove
<1>7. Fits(a, e)
  BY <1>6 DEF Fits
<1>8. D \cap DOMAIN a.node = {}
  <2> SUFFICES ASSUME NEW x \in D, x \in DOMAIN a.node PROVE FALSE
    OBVIOUS
  <2>1. x \in DOMAIN a.node \ DOMAIN P.node
    BY <1>4
  <2>2. PICK j \in 1..(k - 1) : x \in Makes(es[j])
    BY <1>1, <2>1 DEF Marring, Born
  <2>3. x \in Makes(e)
    BY <1>1 DEF Makes
  <2> QED
    BY <2>2, <2>3
<1>9. PICK b, c : b = After(a, e) /\ c = Pruned(a, D)
  OBVIOUS
<1>10. b = Planted(c, Plan(e.body), e.parent)
  BY <1>1, <1>9 DEF After, AfterMove
<1>11. DOMAIN a.up = DOMAIN a.node
  BY <1>2, SoundIs
<1>12. Below(a.up, D) = {}
  BY <1>8, <1>11, BelowNone
<1>13. DOMAIN c.node = DOMAIN a.node /\ \A x \in DOMAIN a.node : c.node[x] = a.node[x] /\ c.up[x] = a.up[x]
  BY <1>9, <1>11, <1>12 DEF Pruned, Restrict
<1>14. /\ DOMAIN Plan(e.body).node = D /\ e.id \in D /\ Plan(e.body).node = e.body.node
       /\ \A x \in D : (Plan(e.body).up[x] = Root) <=> (x = e.id)
  BY <1>1, <1>4, BodyIs
<1>15. /\ Grown(c, b) /\ DOMAIN b.node = DOMAIN c.node \cup D
       /\ \A x \in D : b.up[x] = Hung(Plan(e.body), e.parent, x) /\ b.node[x] = e.body.node[x]
  BY <1>8, <1>10, <1>13, <1>14, PlantedIs
<1>16. Grown(a, b)
  BY <1>13, <1>15 DEF Grown
<1>17. D \subseteq Below(b.up, {e.id})
  <2>1. \A x \in D : x # e.body.top => b.up[x] = Plan(e.body).up[x]
    BY <1>4, <1>14, <1>15 DEF Hung
  <2>2. D \subseteq DOMAIN b.up
    BY <1>15 DEF Grown
  <2> QED
    BY <1>1, <1>4, <2>1, <2>2, PlantedBelow
<1>18. D \subseteq Makes(e) /\ e.kind \in Creates /\ \A x : Brought(e, x) = e.body.node[x]
  BY <1>1 DEF Makes, Creates, Brought
<1>19. Marring(b, P, es, k)
  <2>1. es[k].kind \in Creates /\ \A x \in DOMAIN b.node \ DOMAIN a.node :
            /\ x \notin DOMAIN P.node /\ x \in Below(b.up, {es[k].id}) /\ x \in Makes(es[k])
            /\ b.node[x] = Brought(es[k], x)
    <3>1. DOMAIN b.node \ DOMAIN a.node \subseteq D
      BY <1>13, <1>15
    <3>2. es[k] = e /\ \A x \in D : x \notin DOMAIN P.node
      BY <1>4
    <3>3. \A x \in D : b.node[x] = Brought(e, x)
      BY <1>15, <1>18
    <3> QED
      BY <1>17, <1>18, <3>1, <3>2, <3>3
  <2> QED
    BY <1>1, <1>2, <1>16, <2>1, MarGrow
<1> QED
  BY <1>1, <1>7, <1>9, <1>14, <1>15, <1>19

\* A part that removes a node.
LEMMA PartRemove ==
  ASSUME NEW page, Tree(page), NEW P, Sound(P), NEW es, NEW k \in Nat \ {0}, NEW e, e = es[k],
         PartOK(P, e), e.kind = "remove_node", Marring(Outline(page), P, es, k - 1), Apply(page, e).ok
  PROVE  Fits(Outline(page), e) /\ Marring(After(Outline(page), e), P, es, k)
<1>1. PICK a : a = Outline(page)
  OBVIOUS
<1>2. Sound(a) /\ (\A x : Has(a, x) <=> Has(page, x))
  BY <1>1, TreeIs, OutlineIs
<1>3. e.id \in DOMAIN P.node
  BY DEF PartOK
<1>4. Has(page, e.id)
  BY DEF Apply, ApplyRemove, Threw
<1>5. Fits(a, e)
  BY <1>2, <1>4 DEF Fits, FitsRemove
<1>6. After(a, e) = Pruned(a, {es[k].id})
  BY DEF After
<1>7. Marring(Pruned(a, {es[k].id}), P, es, k)
  BY <1>1, <1>2, <1>3, MarPrune
<1> QED
  BY <1>1, <1>5, <1>6, <1>7

\* A part that sets samples.
LEMMA PartSamples ==
  ASSUME NEW page, Tree(page), NEW P, Sound(P), NEW es, NEW k \in Nat \ {0}, NEW e, e = es[k],
         PartOK(P, e), e.kind = "set_ink_samples", Marring(Outline(page), P, es, k - 1), Apply(page, e).ok
  PROVE  Fits(Outline(page), e) /\ Marring(After(Outline(page), e), P, es, k)
<1>1. PICK a : a = Outline(page)
  OBVIOUS
<1>2. Sound(a) /\ (\A x, kind : Of(a, x, kind) <=> Of(page, x, kind))
  BY <1>1, TreeIs, OutlineIs
<1>3. e.lo \in Int /\ e.hi \in Int /\ e.lo <= e.hi /\ e.id \in DOMAIN P.node
  BY DEF PartOK, Of, Has, Ids
<1>4. Of(a, e.id, "ink")
  BY <1>2 DEF Apply, ApplyInkSamples, Threw
<1>5. Fits(a, e)
  BY <1>3, <1>4 DEF Fits, FitsSamples
<1>6. PICK b : b = AfterSamples(a, e)
  OBVIOUS
<1>7. Sets(e) = {"lo", "hi"}
  BY DEF Sets
<1>8. /\ DOMAIN b.node = DOMAIN a.node /\ b.up = a.up
      /\ \A x \in DOMAIN a.node : b.node[x] = IF x = e.id THEN Resampled(a.node[x], e) ELSE a.node[x]
  BY <1>6 DEF AfterSamples
<1>9. Agree(b.node[e.id], a.node[e.id], Sets(e))
  <2>1. PICK n, m : n = a.node[e.id] /\ m = b.node[e.id]
    OBVIOUS
  <2>2. e.id \in DOMAIN a.node
    BY <1>4 DEF Of, Has, Ids
  <2>3. n \in Node /\ n.kind = "ink"
    BY <1>2, <1>4, <2>1, <2>2, SoundIs DEF Of
  <2>4. DOMAIN n = InkFields /\ m = [n EXCEPT !.lo = e.lo, !.hi = e.hi]
    BY <1>8, <2>1, <2>2, <2>3, NodeFields DEF Resampled
  <2>5. DOMAIN m = DOMAIN n /\ \A f \in DOMAIN n \ {"lo", "hi"} : m[f] = n[f]
    BY <2>4
  <2>6. "kind" \in DOMAIN n
    BY <2>4 DEF InkFields
  <2>7. Agree(m, n, {"lo", "hi"})
    BY <2>5, <2>6 DEF Agree
  <2> QED
    BY <1>7, <2>1, <2>7
<1>10. Sets(e) \subseteq Fields
  BY <1>7 DEF Fields, InkFields
<1>11. Marring(b, P, es, k)
  <2>1. \A x \in DOMAIN a.node : x # es[k].id => b.node[x] = a.node[x]
    BY <1>8
  <2> QED
    BY <1>1, <1>2, <1>3, <1>8, <1>9, <1>10, <2>1, MarSet
<1> QED
  BY <1>1, <1>5, <1>6, <1>11 DEF After

\* A part that sets the ink of an end.
LEMMA PartEndpoint ==
  ASSUME NEW page, Tree(page), NEW P, Sound(P), NEW es, NEW k \in Nat \ {0}, NEW e, e = es[k],
         PartOK(P, e), e.kind = "set_endpoint_ink", Marring(Outline(page), P, es, k - 1), Apply(page, e).ok
  PROVE  Fits(Outline(page), e) /\ Marring(After(Outline(page), e), P, es, k)
<1>1. PICK a : a = Outline(page)
  OBVIOUS
<1>2. Sound(a) /\ (\A x, kind : Of(a, x, kind) <=> Of(page, x, kind))
  BY <1>1, TreeIs, OutlineIs
<1>3. e.strokes \in Seq(Interval) /\ e.fromEnd \in BOOLEAN /\ e.id \in DOMAIN P.node
  BY DEF PartOK, Of, Has, Ids
<1>4. Of(a, e.id, "conn")
  BY <1>2 DEF Apply, ApplyEndpointInk, Threw
<1>5. Fits(a, e)
  BY <1>3, <1>4 DEF Fits, FitsEndpoint
<1>6. PICK b : b = AfterEndpoint(a, e)
  OBVIOUS
<1>7. Sets(e) = {IF e.fromEnd THEN "fromInk" ELSE "toInk"}
  BY DEF Sets
<1>8. /\ DOMAIN b.node = DOMAIN a.node /\ b.up = a.up
      /\ \A x \in DOMAIN a.node : x # e.id => b.node[x] = a.node[x]
      /\ e.id \in DOMAIN a.node => b.node[e.id] = IF e.fromEnd THEN [a.node[e.id] EXCEPT !.fromInk = e.strokes]
                                                  ELSE [a.node[e.id] EXCEPT !.toInk = e.strokes]
  BY <1>6 DEF AfterEndpoint
<1>9. Agree(b.node[e.id], a.node[e.id], Sets(e))
  <2>1. PICK n, m : n = a.node[e.id] /\ m = b.node[e.id]
    OBVIOUS
  <2>2. e.id \in DOMAIN a.node
    BY <1>4 DEF Of, Has, Ids
  <2>3. n \in Node /\ n.kind = "conn"
    BY <1>2, <1>4, <2>1, <2>2, SoundIs DEF Of
  <2>4. DOMAIN n = ConnFields /\ m = IF e.fromEnd THEN [n EXCEPT !.fromInk = e.strokes]
                                    ELSE [n EXCEPT !.toInk = e.strokes]
    BY <1>8, <2>1, <2>2, <2>3, NodeFields
  <2>6. "kind" \in DOMAIN n
    BY <2>4 DEF ConnFields
  <2>7. CASE e.fromEnd
    <3>1. m = [n EXCEPT !.fromInk = e.strokes] /\ Sets(e) = {"fromInk"}
      BY <1>7, <2>4, <2>7
    <3>2. DOMAIN m = DOMAIN n /\ \A f \in DOMAIN n \ {"fromInk"} : m[f] = n[f]
      BY <3>1
    <3> QED
      BY <2>1, <2>6, <3>1, <3>2 DEF Agree
  <2>8. CASE ~e.fromEnd
    <3>1. m = [n EXCEPT !.toInk = e.strokes] /\ Sets(e) = {"toInk"}
      BY <1>7, <2>4, <2>8
    <3>2. DOMAIN m = DOMAIN n /\ \A f \in DOMAIN n \ {"toInk"} : m[f] = n[f]
      BY <3>1
    <3> QED
      BY <2>1, <2>6, <3>1, <3>2 DEF Agree
  <2> QED
    BY <2>7, <2>8
<1>10. Sets(e) \subseteq Fields
  BY <1>7 DEF Fields, ConnFields
<1>11. Marring(b, P, es, k)
  BY <1>1, <1>2, <1>3, <1>8, <1>9, <1>10, MarSet
<1> QED
  BY <1>1, <1>5, <1>6, <1>11 DEF After

\* One more part: it is refused, or it fits and mars no more than it says.
LEMMA PartStep ==
  ASSUME NEW page, Tree(page), NEW P, Sound(P), NEW es, NEW k \in Nat \ {0}, PartOK(P, es[k]),
         \A j \in 1..(k - 1) : Makes(es[j]) \cap Makes(es[k]) = {},
         Marring(Outline(page), P, es, k - 1), Apply(page, es[k]).ok
  PROVE  /\ Fits(Outline(page), es[k]) /\ Marring(After(Outline(page), es[k]), P, es, k)
         /\ es[k].kind \in Creates => es[k].id \in DOMAIN After(Outline(page), es[k]).node
<1>1. PICK e : e = es[k]
  OBVIOUS
<1>2. PartOK(P, e) /\ Apply(page, e).ok /\ \A j \in 1..(k - 1) : Makes(es[j]) \cap Makes(e) = {}
  BY <1>1
<1>3. CASE e.kind = "append_ink"
  BY <1>1, <1>2, <1>3, PartAppend
<1>4. CASE e.kind = "restore"
  BY <1>1, <1>2, <1>4, PartRestore
<1>5. CASE e.kind = "remove_node"
  BY <1>1, <1>2, <1>5, PartRemove DEF Creates
<1>6. CASE e.kind = "set_ink_samples"
  BY <1>1, <1>2, <1>6, PartSamples DEF Creates
<1>7. CASE e.kind = "set_endpoint_ink"
  BY <1>1, <1>2, <1>7, PartEndpoint DEF Creates
<1> QED
  BY <1>2, <1>3, <1>4, <1>5, <1>6, <1>7 DEF PartOK

-----------------------------------------------------------------------------
\* What RunParts goes through.
PartsGo(f, page, edits) ==
    /\ f[0] = Done(page)
    /\ \A i \in 1..Len(edits) : f[i] = (IF f[i - 1].ok THEN Apply(f[i - 1].page, edits[i]) ELSE f[i - 1])
    /\ RunParts(page, edits) = f[Len(edits)]

\* The recursion of RunParts, step by step.
LEMMA RunPartsUnfold ==
  ASSUME NEW page, NEW edits, Len(edits) \in Nat
  PROVE  \E f : PartsGo(f, page, edits)
<1> DEFINE n == Len(edits)
           Eq(f, m) == f = [i \in 0..m |-> IF i = 0 THEN Done(page)
                           ELSE (IF f[i - 1].ok THEN Apply(f[i - 1].page, edits[i]) ELSE f[i - 1])]
           Reached == {m \in Nat : \E f : Eq(f, m)}
<1>1. 0 \in Reached
  <2>1. Eq([i \in 0..0 |-> Done(page)], 0)
    OBVIOUS
  <2> HIDE DEF Eq
  <2> QED
    BY <2>1
<1>2. ASSUME NEW m \in Nat, m \in Reached PROVE m + 1 \in Reached
  <2>1. PICK f : Eq(f, m)
    BY <1>2
  <2> DEFINE g == [i \in 0..(m + 1) |-> IF i = m + 1 THEN (IF f[m].ok THEN Apply(f[m].page, edits[m + 1]) ELSE f[m])
                      ELSE f[i]]
             w == [i \in 0..(m + 1) |-> IF i = 0 THEN Done(page)
                      ELSE (IF g[i - 1].ok THEN Apply(g[i - 1].page, edits[i]) ELSE g[i - 1])]
  <2>2. \A i \in 0..(m + 1) : g[i] = w[i]
    <3> TAKE i \in 0..(m + 1)
    <3>1. CASE i = 0
      BY <2>1, <3>1
    <3>2. CASE i = m + 1
      <4>1. g[i] = (IF f[m].ok THEN Apply(f[m].page, edits[m + 1]) ELSE f[m]) /\ i - 1 = m /\ i # 0
                /\ m \in 0..(m + 1) /\ m # m + 1
        BY <3>2
      <4>2. g[m] = f[m]
        BY <4>1
      <4> QED
        BY <3>2, <4>1, <4>2
    <3>3. CASE i \in 1..m
      <4>1. i \in 0..m /\ i # 0 /\ i # m + 1 /\ i - 1 \in 0..m /\ i - 1 # m + 1 /\ i - 1 \in 0..(m + 1)
        BY <3>3
      <4>2. g[i] = f[i] /\ g[i - 1] = f[i - 1]
        BY <4>1
      <4>3. f[i] = (IF f[i - 1].ok THEN Apply(f[i - 1].page, edits[i]) ELSE f[i - 1])
        BY <2>1, <4>1
      <4> QED
        BY <4>1, <4>2, <4>3
    <3> QED
      BY <3>1, <3>2, <3>3
  <2>3. g = w
    BY <2>2
  <2> HIDE DEF g
  <2>4. Eq(g, m + 1)
    BY <2>3
  <2> HIDE DEF Eq
  <2> QED
    BY <2>4
<1> HIDE DEF Reached
<1>3. n \in Reached
  BY <1>1, <1>2, InductionSet
<1>4. PICK f : Eq(f, n)
  BY <1>3 DEF Reached
<1> DEFINE a == CHOOSE h : Eq(h, n)
<1>5. Eq(a, n)
  <2> HIDE DEF Eq
  <2> QED
    BY <1>4
<1>6. RunParts(page, edits) = a[n]
  BY DEF RunParts
<1> HIDE DEF a
<1>7. a[0] = Done(page) /\ \A i \in 1..n : a[i] = (IF a[i - 1].ok THEN Apply(a[i - 1].page, edits[i]) ELSE a[i - 1])
  <2>1. a = [i \in 0..n |-> IF i = 0 THEN Done(page)
            ELSE (IF a[i - 1].ok THEN Apply(a[i - 1].page, edits[i]) ELSE a[i - 1])]
    BY <1>5
  <2>2. 0 \in 0..n /\ \A i \in 1..n : i \in 0..n /\ i # 0
    OBVIOUS
  <2>3. a[0] = Done(page)
    BY <2>1, <2>2
  <2>4. ASSUME NEW i \in 1..n PROVE a[i] = (IF a[i - 1].ok THEN Apply(a[i - 1].page, edits[i]) ELSE a[i - 1])
    <3>1. PICK v : v = (IF a[i - 1].ok THEN Apply(a[i - 1].page, edits[i]) ELSE a[i - 1])
      OBVIOUS
    <3>2. i \in 0..n /\ i # 0
      BY <2>2
    <3> HIDE DEF n
    <3>3. a[i] = v
      BY <2>1, <3>1, <3>2
    <3> QED
      BY <3>1, <3>3
  <2> QED
    BY <2>3, <2>4
<1> QED
  BY <1>6, <1>7 DEF PartsGo

\* Edits that each fit what the ones before it made.
Traced(o, P, es) ==
    /\ o[0] = P
    /\ \A i \in 1..Len(es) : Fits(o[i - 1], es[i]) /\ o[i] = After(o[i - 1], es[i])
PartsOK(P, es) ==
    /\ es \in Seq(Range(es)) /\ \A i \in DOMAIN es : PartOK(P, es[i])
    /\ \A i, j \in DOMAIN es : i # j => Makes(es[i]) \cap Makes(es[j]) = {}

\* Before the first part nothing is changed.
LEMMA MarNone ==
  ASSUME NEW a, NEW es
  PROVE  Marring(a, a, es, 0)
BY DEF Marring, Torn, Left, Born, Agree

\* Parts that are all applied.
LEMMA PartsRun ==
  ASSUME NEW page, Tree(page), NEW es, PartsOK(Outline(page), es), NEW r, r = RunParts(page, es), r.ok
  PROVE  /\ Tree(r.page) /\ Marring(Outline(r.page), Outline(page), es, Len(es))
         /\ Len(es) # 0 /\ es[Len(es)].kind \in Creates => es[Len(es)].id \in Ids(r.page)
         /\ \E o : Traced(o, Outline(page), es) /\ o[Len(es)] = Outline(r.page)
<1>1. PICK n, P : n = Len(es) /\ P = Outline(page)
  OBVIOUS
<1>2. n \in Nat /\ DOMAIN es = 1..n /\ Sound(P)
  BY <1>1, TreeIs DEF PartsOK
<1>3. PICK f : PartsGo(f, page, es)
  BY <1>1, <1>2, RunPartsUnfold
<1>4. f[0] = Done(page) /\ (\A i \in 1..n : f[i] = (IF f[i - 1].ok THEN Apply(f[i - 1].page, es[i]) ELSE f[i - 1]))
          /\ r = f[n]
  BY <1>1, <1>3 DEF PartsGo
<1> DEFINE Q(i) == i <= n /\ f[i].ok =>
               /\ Tree(f[i].page) /\ Marring(Outline(f[i].page), P, es, i)
               /\ i # 0 /\ es[i].kind \in Creates => es[i].id \in Ids(f[i].page)
               /\ \A j \in 1..i : /\ Fits(Outline(f[j - 1].page), es[j])
                                  /\ Outline(f[j].page) = After(Outline(f[j - 1].page), es[j])
<1>5. Q(0)
  <2>1. f[0].page = page
    BY <1>4 DEF Done
  <2> QED
    BY <1>1, <2>1, MarNone
<1>6. ASSUME NEW i \in Nat, Q(i) PROVE Q(i + 1)
  <2> SUFFICES ASSUME i + 1 <= n, f[i + 1].ok
               PROVE  /\ Tree(f[i + 1].page) /\ Marring(Outline(f[i + 1].page), P, es, i + 1)
                      /\ es[i + 1].kind \in Creates => es[i + 1].id \in Ids(f[i + 1].page)
                      /\ \A j \in 1..(i + 1) : /\ Fits(Outline(f[j - 1].page), es[j])
                                               /\ Outline(f[j].page) = After(Outline(f[j - 1].page), es[j])
    OBVIOUS
  <2>1. PICK k : k = i + 1
    OBVIOUS
  <2>2. k \in 1..n /\ k \in Nat \ {0} /\ k - 1 = i /\ i <= n
    BY <1>2, <2>1
  <2>3. f[k] = (IF f[i].ok THEN Apply(f[i].page, es[k]) ELSE f[i]) /\ f[k].ok
    BY <1>4, <2>1, <2>2
  <2>4. f[i].ok /\ f[k] = Apply(f[i].page, es[k])
    BY <2>3
  <2>5. Tree(f[i].page) /\ Marring(Outline(f[i].page), P, es, k - 1)
    BY <1>6, <2>2, <2>4
  <2>6. \A j \in 1..i : /\ Fits(Outline(f[j - 1].page), es[j])
                        /\ Outline(f[j].page) = After(Outline(f[j - 1].page), es[j])
    BY <1>6, <2>2, <2>4
  <2>7. PartOK(P, es[k]) /\ \A j \in 1..(k - 1) : Makes(es[j]) \cap Makes(es[k]) = {}
    <3>1. \A j \in 1..(k - 1) : j \in DOMAIN es /\ j # k
      BY <1>2, <2>2
    <3>2. k \in DOMAIN es
      BY <1>2, <2>2
    <3>3. PartOK(P, es[k])
      BY <1>1, <3>2 DEF PartsOK
    <3>4. \A i1, j1 \in DOMAIN es : i1 # j1 => Makes(es[i1]) \cap Makes(es[j1]) = {}
      BY DEF PartsOK
    <3>5. \A j \in 1..(k - 1) : Makes(es[j]) \cap Makes(es[k]) = {}
      BY <3>1, <3>2, <3>4
    <3> QED
      BY <3>3, <3>5
  <2>8. Apply(f[i].page, es[k]).ok
    BY <2>3, <2>4
  <2>9. /\ Fits(Outline(f[i].page), es[k]) /\ Marring(After(Outline(f[i].page), es[k]), P, es, k)
        /\ es[k].kind \in Creates => es[k].id \in DOMAIN After(Outline(f[i].page), es[k]).node
    BY <1>2, <2>2, <2>5, <2>7, <2>8, PartStep
  <2>10. Made(Apply(f[i].page, es[k]), After(Outline(f[i].page), es[k]))
    BY <2>5, <2>9, ApplyFits
  <2>11. Tree(f[k].page) /\ Outline(f[k].page) = After(Outline(f[i].page), es[k])
    BY <2>4, <2>10 DEF Made
  <2>12. DOMAIN Outline(f[k].page).node = Ids(f[k].page)
    BY OutlineIs
  <2>13. ASSUME NEW j \in 1..k PROVE Fits(Outline(f[j - 1].page), es[j])
                    /\ Outline(f[j].page) = After(Outline(f[j - 1].page), es[j])
    <3>1. CASE j = k
      BY <2>2, <2>9, <2>11, <3>1
    <3>2. CASE j # k
      <4>1. j \in 1..i
        BY <2>2, <3>2
      <4> QED
        BY <2>6, <4>1
    <3> QED
      BY <3>1, <3>2
  <2> QED
    BY <2>1, <2>9, <2>11, <2>12, <2>13
<1>7. Q(n)
  <2> HIDE DEF Q
  <2>1. PICK S : S = {i \in Nat : Q(i)}
    OBVIOUS
  <2>2. 0 \in S /\ \A i \in Nat : i \in S => i + 1 \in S
    BY <1>5, <1>6, <2>1
  <2>3. n \in S
    BY <1>2, <2>2, InductionSet
  <2> QED
    BY <2>1, <2>3
<1>8. /\ Tree(r.page) /\ Marring(Outline(r.page), P, es, n)
      /\ n # 0 /\ es[n].kind \in Creates => es[n].id \in Ids(r.page)
      /\ \A j \in 1..n : /\ Fits(Outline(f[j - 1].page), es[j])
                         /\ Outline(f[j].page) = After(Outline(f[j - 1].page), es[j])
  BY <1>2, <1>4, <1>7
<1> HIDE DEF Q
<1>9. PICK o : o = [i \in 0..n |-> Outline(f[i].page)]
  OBVIOUS
<1>10. \A i \in 1..n : i - 1 \in 0..n /\ i \in 0..n
  BY <1>2
<1>11. 0 \in 0..n /\ n \in 0..n
  BY <1>2
<1>12. o[0] = P /\ o[n] = Outline(r.page)
  BY <1>1, <1>4, <1>9, <1>11 DEF Done
<1>13. \A i \in 1..n : Fits(o[i - 1], es[i]) /\ o[i] = After(o[i - 1], es[i])
  BY <1>8, <1>9, <1>10
<1>14. Traced(o, P, es)
  BY <1>1, <1>12, <1>13 DEF Traced
<1> QED
  BY <1>1, <1>8, <1>12, <1>14

\* The same edits on a page with the same outline.
LEMMA TracedReplay ==
  ASSUME NEW page, Tree(page), NEW es, Len(es) \in Nat, Len(es) # 0, NEW o, Traced(o, Outline(page), es)
  PROVE  Replay(page, es).applied /\ Tree(Replay(page, es).page) /\ Outline(Replay(page, es).page) = o[Len(es)]
<1>1. PICK n : n = Len(es)
  OBVIOUS
<1>2. PICK f : ReplayRun(f, page, es)
  BY ReplayUnfold
<1>3. /\ f[0] = [page |-> page, applied |-> FALSE]
      /\ \A i \in 1..n : f[i] = (IF Skipped(f[i - 1].page, es[i]) THEN f[i - 1]
                                 ELSE Step(f[i - 1], Apply(f[i - 1].page, es[i])))
      /\ Replay(page, es) = f[n]
  BY <1>1, <1>2 DEF ReplayRun
<1>4. o[0] = Outline(page) /\ \A i \in 1..n : Fits(o[i - 1], es[i]) /\ o[i] = After(o[i - 1], es[i])
  BY <1>1 DEF Traced
<1> DEFINE Q(i) == i <= n => Tree(f[i].page) /\ Outline(f[i].page) = o[i] /\ (i # 0 => f[i].applied)
<1>5. Q(0)
  BY <1>3, <1>4
<1>6. ASSUME NEW i \in Nat, Q(i) PROVE Q(i + 1)
  <2> SUFFICES ASSUME i + 1 <= n PROVE Tree(f[i + 1].page) /\ Outline(f[i + 1].page) = o[i + 1] /\ f[i + 1].applied
    OBVIOUS
  <2>1. PICK k, acc, e : k = i + 1 /\ acc = f[i] /\ e = es[k]
    OBVIOUS
  <2>2. k \in 1..n /\ k - 1 = i /\ i <= n
    BY <1>1, <2>1
  <2>3. Tree(acc.page) /\ Outline(acc.page) = o[i]
    BY <1>6, <2>1, <2>2
  <2>4. Fits(o[i], e) /\ o[k] = After(o[i], e)
    BY <1>4, <2>1, <2>2
  <2>5. Turn(Outline(acc.page), e, o[k])
    BY <2>3, <2>4 DEF Turn
  <2>6. PICK new : new = IF Skipped(acc.page, e) THEN acc ELSE Step(acc, Apply(acc.page, e))
    OBVIOUS
  <2>7. f[k] = new
    BY <1>3, <2>1, <2>2, <2>6
  <2>8. Tree(new.page) /\ Outline(new.page) = o[k] /\ new.applied
    <3>1. PICK q : q = acc.page
      OBVIOUS
    <3> QED
      BY <2>3, <2>4, <2>5, <2>6, <3>1, TurnIs
  <2> QED
    BY <2>1, <2>7, <2>8
<1>7. Q(n)
  <2> HIDE DEF Q
  <2>1. PICK S : S = {i \in Nat : Q(i)}
    OBVIOUS
  <2>2. 0 \in S /\ \A i \in Nat : i \in S => i + 1 \in S
    BY <1>5, <1>6, <2>1
  <2>3. n \in S
    BY <1>1, <2>2, InductionSet
  <2> QED
    BY <2>1, <2>3
<1> QED
  BY <1>1, <1>3, <1>7

\* An outline is close to itself.
LEMMA CloseSame ==
  ASSUME NEW a, NEW L
  PROVE  Close(a, a, L)
BY DEF Close, Agree

\* A redo runs the same parts from the same page.
LEMMA TracedRepeats ==
  ASSUME NEW pre, NEW es, Len(es) \in Nat, Len(es) # 0, NEW o, Traced(o, Outline(pre), es)
  PROVE  Repeats(es, pre, o[Len(es)])
<1> SUFFICES ASSUME NEW page, Tree(page), Outline(page) = Outline(pre)
             PROVE  /\ Replay(page, es).applied /\ Tree(Replay(page, es).page)
                    /\ Close(Outline(Replay(page, es).page), o[Len(es)], {})
  BY DEF Repeats
<1>1. Traced(o, Outline(page), es)
  OBVIOUS
<1> QED
  BY <1>1, TracedReplay, CloseSame

-----------------------------------------------------------------------------
(***************************************************************************)
(* Inverses of parts.                                                      *)
(***************************************************************************)
\* A restore of what an outline has, where it has it.
PutsBack(P, u, x) ==
    /\ u.kind = "restore" /\ u.id = x /\ x \in DOMAIN P.node /\ BodyOK(u.body) /\ u.body.top = x
    /\ u.index \in Nat \ {0} /\ u.parent = P.up[x]
    /\ DOMAIN u.body.node = Below(P.up, {x}) /\ Plan(u.body).up = Part(P, x).up
    /\ \A y \in DOMAIN u.body.node : u.body.node[y] = P.node[y]

\* The inverse of a removal puts the node back where it was.
LEMMA RestoreIs ==
  ASSUME NEW page, Tree(page), NEW x \in Ids(page), NEW u, u = RestoreEdit(page, x)
  PROVE  PutsBack(Outline(page), u, x)
<1>1. PICK pl, body, P : pl = Place(page, x) /\ body = Body(page, x) /\ P = Outline(page)
  OBVIOUS
<1>2. u.kind = "restore" /\ u.id = body.top /\ u.body = body /\ u.parent = pl.parent /\ u.index = pl.index
  BY <1>1 DEF RestoreEdit, Restore
<1>3. /\ BodyOK(body) /\ body.top = x /\ Plan(body) = Part(P, x)
      /\ DOMAIN body.node = Below(Up(page), {x}) /\ body.node = Restrict(page.node, Below(Up(page), {x}))
  BY <1>1, BodyTree
<1>4. P.node = page.node /\ P.up = Up(page) /\ DOMAIN P.node = Ids(page) /\ Placed(page)
  BY <1>1, OutlineIs, TreeIs
<1>5. /\ x \in Range(page.kids[ParentOf(page, x)]) /\ Up(page)[x] = ParentOf(page, x)
      /\ ParentOf(page, x) \in Ids(page) \cup {Root}
  BY <1>4, PlaceOf
<1>6. page.kids[ParentOf(page, x)] \in Seq(Ids(page))
  BY <1>4, <1>5, KidsUp
<1>7. pl.parent = P.up[x]
  BY <1>1, <1>4, <1>5 DEF Place
<1>8. pl.index \in Nat \ {0}
  <2>1. PICK s : s = page.kids[ParentOf(page, x)]
    OBVIOUS
  <2>2. s \in Seq(Ids(page)) /\ x \in Range(s)
    BY <1>5, <1>6, <2>1
  <2>3. \E i \in DOMAIN s : s[i] = x
    BY <2>2 DEF Range
  <2>4. (CHOOSE i \in DOMAIN s : s[i] = x) \in DOMAIN s
    BY <2>3
  <2>5. DOMAIN s \subseteq Nat \ {0}
    BY <2>2
  <2> QED
    BY <1>1, <2>1, <2>4, <2>5 DEF Place
<1>9. \A y \in DOMAIN body.node : body.node[y] = P.node[y]
  BY <1>3, <1>4 DEF Restrict
<1> QED
  BY <1>1, <1>2, <1>3, <1>4, <1>7, <1>8, <1>9 DEF PutsBack

\* It undoes whatever else is to be undone.
LEMMA PutsBackUndoes ==
  ASSUME NEW P, NEW L, NEW fs, NEW j, NEW x, PutsBack(P, fs[j], x)
  PROVE  Undoes(P, L, fs, j)
<1>1. PICK e : e = fs[j]
  OBVIOUS
<1>2. PutsBack(P, e, x)
  BY <1>1
<1>3. /\ e.kind = "restore" /\ e.id \in DOMAIN P.node /\ BodyOK(e.body) /\ e.body.top = e.id
      /\ e.index \in Nat \ {0} /\ e.parent = P.up[e.id]
      /\ DOMAIN e.body.node = Below(P.up, {e.id}) /\ Plan(e.body).up = Part(P, e.id).up
  BY <1>2 DEF PutsBack
<1>4. \A y \in DOMAIN e.body.node : Agree(e.body.node[y], P.node[y], Open(P, L, fs, j + 1, y))
  BY <1>2 DEF PutsBack, Agree
<1> QED
  BY <1>1, <1>3, <1>4 DEF Undoes

\* u takes back the part e.
Counters(P, e, u) ==
    \/ e.kind = "remove_node" /\ PutsBack(P, u, e.id)
    \/ e.kind \in Creates /\ u.kind = "remove_node" /\ u.id = e.id /\ u.id \notin DOMAIN P.node
    \/ /\ e.kind = "set_ink_samples" /\ u.kind = "set_ink_samples" /\ u.id = e.id /\ Of(P, e.id, "ink")
       /\ u.lo = P.node[e.id].lo /\ u.hi = P.node[e.id].hi
    \/ /\ e.kind = "set_endpoint_ink" /\ u.kind = "set_endpoint_ink" /\ u.id = e.id /\ Of(P, e.id, "conn")
       /\ u.fromEnd = e.fromEnd /\ e.fromEnd \in BOOLEAN
       /\ u.strokes = IF e.fromEnd THEN P.node[e.id].fromInk ELSE P.node[e.id].toInk

Answers(e, u) ==
    /\ u.id = e.id /\ Sets(u) = Sets(e)
    /\ e.kind = "remove_node" => u.kind = "restore"
    /\ (e.kind \in Creates) <=> (u.kind = "remove_node")

\* An inverse that counters its part is one that mending can run.
LEMMA CountersUndoes ==
  ASSUME NEW P, NEW L, NEW fs, NEW j, NEW e, Counters(P, e, fs[j])
  PROVE  Undoes(P, L, fs, j) /\ Answers(e, fs[j])
<1>1. PICK u : u = fs[j]
  OBVIOUS
<1>2. Counters(P, e, u)
  BY <1>1
<1>3. CASE e.kind = "remove_node" /\ PutsBack(P, u, e.id)
  <2>1. Undoes(P, L, fs, j)
    BY <1>1, <1>3, PutsBackUndoes
  <2>2. u.kind = "restore" /\ u.id = e.id
    BY <1>3 DEF PutsBack
  <2>3. Sets(u) = {} /\ Sets(e) = {}
    BY <1>3, <2>2 DEF Sets
  <2> QED
    BY <1>1, <1>3, <2>1, <2>2, <2>3 DEF Creates, Answers
<1>4. CASE e.kind \in Creates /\ u.kind = "remove_node" /\ u.id = e.id /\ u.id \notin DOMAIN P.node
  BY <1>1, <1>4 DEF Undoes, Creates, Sets, Answers
<1>5. CASE /\ e.kind = "set_ink_samples" /\ u.kind = "set_ink_samples" /\ u.id = e.id /\ Of(P, e.id, "ink")
           /\ u.lo = P.node[e.id].lo /\ u.hi = P.node[e.id].hi
  BY <1>1, <1>5 DEF Undoes, Creates, Sets, Answers
<1>6. CASE /\ e.kind = "set_endpoint_ink" /\ u.kind = "set_endpoint_ink" /\ u.id = e.id /\ Of(P, e.id, "conn")
           /\ u.fromEnd = e.fromEnd /\ e.fromEnd \in BOOLEAN
           /\ u.strokes = IF e.fromEnd THEN P.node[e.id].fromInk ELSE P.node[e.id].toInk
  BY <1>1, <1>6 DEF Undoes, Creates, Sets, Answers
<1> QED
  BY <1>2, <1>3, <1>4, <1>5, <1>6 DEF Counters

\* Every part of a gesture has one inverse, and it counters the part.
LEMMA PartInverse ==
  ASSUME NEW page, Tree(page), NEW e, PartOK(Outline(page), e)
  PROVE  \E u : GenerateUndo(page, e) = <<u>> /\ Counters(Outline(page), e, u)
<1>1. PICK P : P = Outline(page)
  OBVIOUS
<1>2. /\ P.node = page.node /\ DOMAIN P.node = Ids(page)
      /\ (\A x : Has(page, x) <=> x \in Ids(page)) /\ \A x, kind : Of(P, x, kind) <=> Of(page, x, kind)
  BY <1>1, OutlineIs
<1>3. PartOK(P, e)
  BY <1>1
<1>4. CASE e.kind = "append_ink"
  <2>1. PICK u : u = RemoveNode(e.id)
    OBVIOUS
  <2>2. GenerateUndo(page, e) = <<u>>
    BY <1>4, <2>1 DEF GenerateUndo
  <2>3. Counters(P, e, u)
    BY <1>3, <1>4, <2>1 DEF Counters, Creates, RemoveNode, PartOK
  <2> QED
    BY <1>1, <2>2, <2>3
<1>5. CASE e.kind = "remove_node"
  <2>1. PICK u : u = RestoreEdit(page, e.id)
    OBVIOUS
  <2>2. e.id \in Ids(page)
    BY <1>2, <1>3, <1>5 DEF PartOK
  <2>3. GenerateUndo(page, e) = <<u>>
    BY <1>2, <1>5, <2>1, <2>2 DEF GenerateUndo, UndoRemove
  <2>4. PutsBack(P, u, e.id)
    BY <1>1, <2>1, <2>2, RestoreIs
  <2>5. Counters(P, e, u)
    BY <1>5, <2>4 DEF Counters
  <2> QED
    BY <1>1, <2>3, <2>5
<1>6. CASE e.kind = "restore"
  <2>1. PICK u : u = RemoveNode(e.id)
    OBVIOUS
  <2>2. e.id \notin Ids(page)
    <3>1. BodyOK(e.body) /\ e.body.top = e.id /\ DOMAIN e.body.node \cap DOMAIN P.node = {}
      BY <1>3, <1>6 DEF PartOK
    <3>2. e.id \in DOMAIN e.body.node
      BY <3>1, BodyIs
    <3> QED
      BY <1>2, <3>1, <3>2
  <2>3. GenerateUndo(page, e) = <<u>>
    BY <1>2, <1>6, <2>1, <2>2 DEF GenerateUndo, UndoMove
  <2>4. Counters(P, e, u)
    BY <1>2, <1>6, <2>1, <2>2 DEF Counters, Creates, RemoveNode
  <2> QED
    BY <1>1, <2>3, <2>4
<1>7. CASE e.kind = "set_ink_samples"
  <2>1. PICK u : u = SetInkSamples(e.id, page.node[e.id].lo, page.node[e.id].hi)
    OBVIOUS
  <2>2. Of(P, e.id, "ink")
    BY <1>3, <1>7 DEF PartOK
  <2>3. GenerateUndo(page, e) = <<u>>
    BY <1>2, <1>7, <2>1, <2>2 DEF GenerateUndo, UndoInkSamples
  <2>4. Counters(P, e, u)
    BY <1>2, <1>7, <2>1, <2>2 DEF Counters, SetInkSamples
  <2> QED
    BY <1>1, <2>3, <2>4
<1>8. CASE e.kind = "set_endpoint_ink"
  <2>1. PICK u : u = UndoEndpointInk(page, e)
    OBVIOUS
  <2>2. Of(P, e.id, "conn") /\ e.fromEnd \in BOOLEAN /\ "strokes" \in DOMAIN e
    BY <1>3, <1>8 DEF PartOK
  <2>3. GenerateUndo(page, e) = <<u>>
    BY <1>8, <2>1 DEF GenerateUndo
  <2>4. Counters(P, e, u)
    BY <1>2, <1>8, <2>1, <2>2 DEF Counters, UndoEndpointInk
  <2> QED
    BY <1>1, <2>3, <2>4
<1> QED
  BY <1>3, <1>4, <1>5, <1>6, <1>7, <1>8 DEF PartOK

-----------------------------------------------------------------------------
\* Edits with one inverse each, and those in the other order.
Singly(page, es, n, g) ==
    /\ n \in Nat /\ Len(es) = n /\ DOMAIN es = 1..n
    /\ \A i \in 1..n : GenerateUndo(page, es[i]) = <<g[i]>>
Backwards(fs, n, g) == Len(fs) = n /\ \A i \in 1..n : fs[(n + 1) - i] = g[i]

\* Inverses of single steps, the last edit's first.
LEMMA InversesIs ==
  ASSUME NEW page, NEW es, NEW n, NEW g, Singly(page, es, n, g), NEW fs, fs = Inverses(page, es)
  PROVE  Backwards(fs, n, g)
<1>. USE DEF Singly, Backwards
<1>1. PICK T, u : T = {g[i] : i \in 1..n} /\ u = [i \in 1..n |-> <<g[i]>>]
  OBVIOUS
<1>2. u = [i \in DOMAIN es |-> GenerateUndo(page, es[i])]
  BY <1>1
<1>3. \A i \in 1..n : <<g[i]>> \in Seq(T)
  BY <1>1
<1>4. u \in Seq(Seq(T)) /\ Len(u) = n
  BY <1>1, <1>3
<1>5. PICK r : r = Reverse(u)
  OBVIOUS
<1>6. r = [i \in 1..n |-> u[(n - i) + 1]]
  BY <1>4, <1>5 DEF Reverse
<1>7. \A i \in 1..n : (n - i) + 1 \in 1..n
  OBVIOUS
<1>8. r \in Seq(Seq(T)) /\ Len(r) = n /\ \A i \in 1..n : r[i] = <<g[(n - i) + 1]>>
  BY <1>1, <1>3, <1>6, <1>7
<1>9. \A i \in 1..Len(r) : Len(r[i]) = 1
  BY <1>8
<1>10. Len(FlattenSeq(r)) = Len(r) /\ \A i \in 1..Len(r) : FlattenSeq(r)[i] = r[i][1]
  BY <1>8, <1>9, FlattenIs
<1>11. fs = FlattenSeq(r)
  BY <1>2, <1>5 DEF Inverses
<1>12. \A i \in 1..n : (n + 1) - i \in 1..n /\ (n - ((n + 1) - i)) + 1 = i
  OBVIOUS
<1>13. \A i \in 1..n : fs[i] = g[(n - i) + 1]
  BY <1>8, <1>10, <1>11
<1>14. ASSUME NEW i \in 1..n PROVE fs[(n + 1) - i] = g[i]
  <2>1. PICK j : j = (n + 1) - i
    OBVIOUS
  <2>2. j \in 1..n /\ (n - j) + 1 = i
    BY <1>12, <2>1
  <2>3. fs[j] = g[(n - j) + 1]
    BY <1>13, <2>2
  <2> QED
    BY <2>1, <2>2, <2>3
<1> QED
  BY <1>8, <1>10, <1>11, <1>14

\* The inverses of a run of parts mend what the parts marred.
LEMMA PartsMend ==
  ASSUME NEW page, Tree(page), NEW es, PartsOK(Outline(page), es), Len(es) # 0,
         NEW a, Marring(a, Outline(page), es, Len(es)), NEW L, NEW fs, fs = Inverses(page, es),
         \/ es[1].kind \notin Creates
         \/ es[Len(es)].kind \in Creates /\ es[Len(es)].id \in DOMAIN a.node
  PROVE  Reverts(fs, L, Outline(page), a)
<1>1. PICK n, P : n = Len(es) /\ P = Outline(page)
  OBVIOUS
<1>2. n \in Nat /\ n # 0 /\ DOMAIN es = 1..n
  BY <1>1 DEF PartsOK
<1>3. \A i \in 1..n : \E u : GenerateUndo(page, es[i]) = <<u>> /\ Counters(P, es[i], u)
  BY <1>1, <1>2, PartInverse DEF PartsOK
<1>4. PICK g : g = [i \in 1..n |-> CHOOSE u : GenerateUndo(page, es[i]) = <<u>> /\ Counters(P, es[i], u)]
  OBVIOUS
<1>5. \A i \in 1..n : GenerateUndo(page, es[i]) = <<g[i]>> /\ Counters(P, es[i], g[i])
  BY <1>3, <1>4
<1>6. Len(fs) = n /\ \A i \in 1..n : fs[(n + 1) - i] = g[i]
  <2>1. Singly(page, es, n, g)
    BY <1>1, <1>2, <1>5 DEF Singly
  <2>2. Backwards(fs, n, g)
    BY <2>1, InversesIs
  <2> QED
    BY <2>2 DEF Backwards
<1>7. \A j \in 1..n : (n + 1) - j \in 1..n /\ (n + 1) - ((n + 1) - j) = j
  BY <1>2
<1>8. ASSUME NEW i \in 1..n
      PROVE  LET j == (n + 1) - i
             IN  /\ j \in 1..n /\ Undoes(P, L, fs, j) /\ fs[j].id = es[i].id /\ Sets(fs[j]) = Sets(es[i])
                 /\ es[i].kind = "remove_node" => fs[j].kind = "restore"
                 /\ es[i].kind \in Creates <=> fs[j].kind = "remove_node"
  <2>1. PICK j : j = (n + 1) - i
    OBVIOUS
  <2>2. j \in 1..n
    BY <1>7, <2>1
  <2>3. Counters(P, es[i], fs[j])
    BY <1>5, <1>6, <2>1
  <2>5. Undoes(P, L, fs, j) /\ Answers(es[i], fs[j])
    BY <2>3, CountersUndoes
  <2>4. /\ Undoes(P, L, fs, j) /\ fs[j].id = es[i].id /\ Sets(fs[j]) = Sets(es[i])
        /\ es[i].kind = "remove_node" => fs[j].kind = "restore"
        /\ es[i].kind \in Creates <=> fs[j].kind = "remove_node"
    BY <2>5 DEF Answers
  <2> QED
    BY <2>1, <2>2, <2>4
<1>9. UndoesAll(P, L, fs)
  <2>1. ASSUME NEW j \in 1..n PROVE Undoes(P, L, fs, j)
    <3>1. PICK i : i = (n + 1) - j
      OBVIOUS
    <3>2. i \in 1..n /\ j = (n + 1) - i
      BY <1>7, <3>1
    <3> QED
      BY <1>8, <3>2
  <2> QED
    BY <1>2, <1>6, <2>1 DEF UndoesAll
<1>10. Lacking(a, P, fs, 1)
  <2> SUFFICES ASSUME NEW x \in DOMAIN P.node \ DOMAIN a.node PROVE Covered(P, fs, 1, x)
    BY DEF Lacking
  <2>1. PICK i \in 1..n : es[i].kind = "remove_node" /\ x \in Below(P.up, {es[i].id})
    BY <1>1 DEF Marring, Torn
  <2>2. PICK j : j = (n + 1) - i
    OBVIOUS
  <2>3. j \in 1..n /\ fs[j].kind = "restore" /\ fs[j].id = es[i].id
    BY <1>8, <2>1, <2>2
  <2> QED
    BY <1>6, <2>1, <2>3 DEF Covered
<1>11. Standing(a, P, L, {}, fs, 1)
  <2> SUFFICES ASSUME NEW x \in DOMAIN P.node \cap DOMAIN a.node
               PROVE  /\ a.node[x].kind = P.node[x].kind /\ a.up[x] = P.up[x]
                      /\ Agree(a.node[x], P.node[x], Open(P, L, fs, 1, x))
    BY DEF Standing
  <2>1. a.up[x] = P.up[x] /\ Agree(a.node[x], P.node[x], Reset(es, n, x))
    BY <1>1 DEF Marring, Left
  <2>2. ASSUME NEW f \in Reset(es, n, x) PROVE f \in Open(P, L, fs, 1, x)
    <3>1. f \in Fields
      BY DEF Reset
    <3>2. PICK i \in 1..n : es[i].id = x /\ f \in Sets(es[i])
      BY DEF Reset
    <3>3. PICK j : j = (n + 1) - i
      OBVIOUS
    <3>4. j \in 1..n /\ fs[j].id = x /\ f \in Sets(fs[j])
      BY <1>8, <3>2, <3>3
    <3> QED
      BY <1>6, <3>1, <3>4 DEF Open
  <2>3. Agree(a.node[x], P.node[x], Open(P, L, fs, 1, x))
    BY <2>1, <2>2, AgreeMore
  <2>4. a.node[x].kind = P.node[x].kind
    BY <2>1 DEF Agree
  <2> QED
    BY <2>1, <2>3, <2>4
<1>12. Strangers(a, P, fs, 1)
  <2> SUFFICES ASSUME NEW x \in DOMAIN a.node \ DOMAIN P.node
               PROVE  \E j \in 1..Len(fs) : fs[j].kind = "remove_node" /\ x \in Below(a.up, {fs[j].id})
    BY DEF Strangers
  <2>1. PICK i \in 1..n : es[i].kind \in Creates /\ x \in Below(a.up, {es[i].id})
    BY <1>1 DEF Marring, Born
  <2>2. PICK j : j = (n + 1) - i
    OBVIOUS
  <2>3. j \in 1..n /\ fs[j].kind = "remove_node" /\ fs[j].id = es[i].id
    BY <1>8, <2>1, <2>2
  <2> QED
    BY <1>6, <2>1, <2>3
<1>13. Hosts(a, P, {}, fs)
  BY DEF Hosts
<1>14. Mending(a, P, L, {}, fs, 1)
  BY <1>10, <1>11, <1>12, <1>13 DEF Mending
<1>15. Ends(fs, DOMAIN a.node, a.up)
  <2>1. CASE es[1].kind \notin Creates
    <3>1. 1 \in 1..n /\ (n + 1) - 1 = n
      BY <1>2
    <3>2. fs[n].kind # "remove_node"
      BY <1>8, <2>1, <3>1
    <3> QED
      BY <1>6, <3>2 DEF Ends
  <2>2. CASE es[n].kind \in Creates /\ es[n].id \in DOMAIN a.node
    <3>1. n \in 1..n /\ (n + 1) - n = 1
      BY <1>2
    <3>2. fs[1].kind = "remove_node" /\ fs[1].id = es[n].id
      BY <1>8, <2>2, <3>1
    <3> QED
      BY <2>2, <3>2 DEF Ends
  <2> QED
    BY <1>1, <2>1, <2>2
<1>16. PICK G : G = {}
  OBVIOUS
<1>17. UndoesAll(P, L, fs) /\ Len(fs) # 0 /\ Mending(a, P, L, G, fs, 1) /\ Ends(fs, DOMAIN a.node, a.up)
  BY <1>2, <1>6, <1>9, <1>14, <1>15, <1>16
<1> QED
  BY <1>1, <1>17 DEF Reverts

-----------------------------------------------------------------------------
(***************************************************************************)
(* Committing parts.                                                       *)
(***************************************************************************)
\* What a part brings is new, and names nothing that is not to be.
Named(n, next) == n.kind = "conn" => n.from < next /\ n.to < next
Brings(e, base, next) ==
    \A x \in Makes(e) : base <= x /\ x < next /\ Named(Brought(e, x), next)
\* Parts planned on a page, whose ids are below base.
Planned(page, next, base, es) ==
    /\ base \in Nat /\ next \in Nat /\ base <= next /\ Tree(page) /\ Known(Outline(page), base)
    /\ PartsOK(Outline(page), es) /\ \A i \in DOMAIN es : Brings(es[i], base, next)
    /\ Len(es) # 0 => es[1].kind \notin Creates \/ es[Len(es)].kind \in Creates

\* Ids below the next fresh one, on the page and on its outline.
LEMMA KnownIs ==
  ASSUME NEW page, Tree(page), NEW next \in Nat
  PROVE  Known(Outline(page), next) <=>
            /\ \A x \in Ids(page) : x < next
            /\ \A x \in Ids(page) : Named(page.node[x], next)
<1>1. Outline(page).node = page.node /\ DOMAIN page.node = Ids(page) /\ Ids(page) \subseteq Nat
          /\ 0 \notin Ids(page)
  BY TreeIs, OutlineIs DEF Root
<1>2. \A x \in Ids(page) : x \in 1..(next - 1) <=> x < next
  BY <1>1
<1> QED
  BY <1>1, <1>2 DEF Known, Named

\* A gesture whose parts all succeeded can be undone and redone.
LEMMA PartsUndoable ==
  ASSUME NEW page, NEW next, NEW base, NEW es, Planned(page, next, base, es), Len(es) # 0,
         NEW r, r = RunParts(page, es), r.ok
  PROVE  Undoable(page, page, r.page, Inverses(page, es), es, next)
<1>1. PICK P, n, a, fs, L : P = Outline(page) /\ n = Len(es) /\ a = Outline(r.page) /\ fs = Inverses(page, es)
                            /\ L = DOMAIN Targets(page, es)
  OBVIOUS
<1>2. /\ base \in Nat /\ next \in Nat /\ base <= next /\ Tree(page) /\ Known(P, base) /\ PartsOK(P, es)
      /\ (\A i \in DOMAIN es : Brings(es[i], base, next))
      /\ es[1].kind \notin Creates \/ es[n].kind \in Creates
  BY <1>1 DEF Planned
<1>3. n \in Nat /\ DOMAIN es = 1..n /\ n # 0
  BY <1>1, <1>2 DEF PartsOK
<1>4. /\ Tree(r.page) /\ Marring(a, P, es, n)
      /\ es[n].kind \in Creates => es[n].id \in Ids(r.page)
      /\ \E o : Traced(o, P, es) /\ o[n] = a
  BY <1>1, <1>2, <1>3, PartsRun
<1>5. /\ DOMAIN P.node = Ids(page) /\ P.node = page.node
      /\ DOMAIN a.node = Ids(r.page) /\ a.node = r.page.node /\ Sound(a) /\ Sound(P) /\ Ids(page) \subseteq Nat
  BY <1>1, <1>2, <1>4, TreeIs, OutlineIs
<1>6. Reverts(fs, L, P, a)
  <2>1. \/ es[1].kind \notin Creates
        \/ es[n].kind \in Creates /\ es[n].id \in DOMAIN a.node
    BY <1>2, <1>4, <1>5
  <2> QED
    BY <1>1, <1>2, <1>3, <1>4, <2>1, PartsMend
<1>7. Repeats(es, page, a)
  <2>1. PICK o : Traced(o, P, es) /\ o[n] = a
    BY <1>4
  <2>2. Repeats(es, page, o[Len(es)])
    BY <1>1, <1>3, <2>1, TracedRepeats
  <2> QED
    BY <1>1, <2>1, <2>2
<1>8. /\ \A x \in Ids(page) : x < base /\ Named(page.node[x], base)
  BY <1>1, <1>2, KnownIs
<1>9. ASSUME NEW x \in Ids(r.page) PROVE x < next /\ Named(r.page.node[x], next)
                 /\ (x \notin Ids(page) => base <= x)
  <2>1. CASE x \in Ids(page)
    <3>1. Agree(a.node[x], P.node[x], Reset(es, n, x))
      BY <1>4, <1>5, <2>1 DEF Marring, Left
    <3>2. x < base /\ Named(P.node[x], base) /\ x \in Nat
      BY <1>5, <1>8, <2>1
    <3>3. ASSUME a.node[x].kind = "conn" PROVE a.node[x].from < next /\ a.node[x].to < next
      <4>1. P.node[x].kind = "conn" /\ DOMAIN a.node[x] = DOMAIN P.node[x]
        BY <3>1, <3>3 DEF Agree
      <4>2. P.node[x] \in Node
        BY <1>5, <2>1, SoundIs
      <4>3. P.node[x] \in ConnNode /\ DOMAIN P.node[x] = ConnFields
        BY <4>1, <4>2, KindIs, NodeFields
      <4>4. P.node[x].from \in Nat /\ P.node[x].to \in Nat
        BY <4>3, ConnIs
      <4>5. "from" \in ConnFields /\ "to" \in ConnFields
        BY DEF ConnFields
      <4>6. {"from", "to"} \cap Reset(es, n, x) = {}
        <5>1. \A e : "from" \notin Sets(e) /\ "to" \notin Sets(e)
          BY DEF Sets
        <5> QED
          BY <5>1 DEF Reset
      <4>7. a.node[x].from = P.node[x].from /\ a.node[x].to = P.node[x].to
        BY <3>1, <4>1, <4>3, <4>5, <4>6 DEF Agree
      <4>8. P.node[x].from < base /\ P.node[x].to < base
        BY <3>2, <4>1 DEF Named
      <4> QED
        BY <1>2, <4>4, <4>7, <4>8
    <3> QED
      BY <1>2, <1>5, <2>1, <3>2, <3>3 DEF Named
  <2>2. CASE x \notin Ids(page)
    <3>1. PICK j \in 1..n : x \in Makes(es[j]) /\ a.node[x] = Brought(es[j], x)
      BY <1>4, <1>5, <2>2 DEF Marring, Born
    <3> QED
      BY <1>2, <1>3, <1>5, <3>1 DEF Brings
  <2> QED
    BY <2>1, <2>2
<1>10. Known(a, next)
  BY <1>1, <1>2, <1>4, <1>9, KnownIs
<1>11. Unnamed(a, P)
  <2> SUFFICES ASSUME NEW x \in Ids(page), page.node[x].kind = "conn", NEW y \in Ids(r.page) \ Ids(page),
                      y \in {page.node[x].from, page.node[x].to}
               PROVE  FALSE
    BY <1>5 DEF Unnamed
  <2>1. base <= y
    BY <1>9
  <2>2. y < base
    BY <1>8 DEF Named
  <2>3. y \in Nat
    BY <1>4, TreeIs
  <2> QED
    BY <1>2, <2>1, <2>2, <2>3
<1>12. \A i \in DOMAIN es : es[i].kind \in CreateKinds => es[i].id \notin Ids(page)
  <2> SUFFICES ASSUME NEW i \in DOMAIN es, es[i].kind \in CreateKinds PROVE es[i].id \notin Ids(page)
    OBVIOUS
  <2>1. PartOK(P, es[i])
    BY <1>2 DEF PartsOK
  <2> QED
    BY <1>5, <2>1 DEF PartOK, CreateKinds
<1> QED
  BY <1>1, <1>4, <1>6, <1>7, <1>10, <1>11, <1>12 DEF Undoable

-----------------------------------------------------------------------------
\* A document that refused a commit: its page is still a tree.
Broken(d) == DocShape(d) /\ d.stuck /\ Tree(d.page) /\ Known(Outline(d.page), d.next)
Sane(d) == (DocOK(d) /\ ~d.latched) \/ Broken(d)

\* What a commit of parts may do: nothing, be refused, or take the page all of
\* them make.
PartsDo(d, es, new) ==
    \/ new = d
    \/ new.stuck
    \/ RunParts(d.page, es).ok /\ Followed(d, d.page, RunParts(d.page, es).page, new)

\* Committing a gesture of planned parts keeps the document sane: either
\* all of them are done, or one was refused.
LEMMA CommitPartsOK ==
  ASSUME NEW d, DocOK(d), ~d.latched, NEW base, NEW es, Planned(d.page, d.next, base, es)
  PROVE  Sane(CommitParts(d, es)) /\ PartsDo(d, es, CommitParts(d, es))
<1>1. CASE es = << >>
  BY <1>1 DEF CommitParts, CommitPartsFrom, Sane, PartsDo
<1>2. CASE es # << >>
  <2>1. Len(es) # 0
    BY <1>2 DEF Planned, PartsOK
  <2>2. PICK r : r = RunParts(d.page, es)
    OBVIOUS
  <2>3. CommitParts(d, es) = IF r.ok THEN Recorded(d, r.page, Inverses(d.page, es), es, d.page)
                             ELSE [d EXCEPT !.stuck = TRUE]
    BY <1>2, <2>2 DEF CommitParts, CommitPartsFrom, CommitRun
  <2>4. DocShape(d) /\ ~d.stuck /\ PageOK(d.page, d.next) /\ Rings(d, d.page)
    BY DEF DocOK
  <2>5. CASE r.ok
    <3>1. PICK new : new = Recorded(d, r.page, Inverses(d.page, es), es, d.page)
      OBVIOUS
    <3>2. Undoable(d.page, d.page, r.page, Inverses(d.page, es), es, d.next)
      BY <2>1, <2>2, <2>5, PartsUndoable
    <3>3. DocOK(new) /\ ~new.latched /\ Followed(d, d.page, r.page, new)
      BY <2>4, <3>1, <3>2, RecordedOK
    <3> QED
      BY <2>2, <2>3, <2>5, <3>1, <3>3 DEF Sane, PartsDo
  <2>6. CASE ~r.ok
    <3>1. PICK new : new = [d EXCEPT !.stuck = TRUE]
      OBVIOUS
    <3>2. DOMAIN d = DocFields
      BY <2>4 DEF DocShape
    <3>3. DOMAIN new = DocFields /\ new.stuck /\ new.page = d.page /\ new.next = d.next /\ new.op = d.op
          /\ new.latched = d.latched
      BY <3>1, <3>2 DEF DocFields
    <3>4. Broken(new)
      BY <2>4, <3>3 DEF Broken, DocShape, PageOK
    <3> QED
      BY <2>3, <2>6, <3>1, <3>3, <3>4 DEF Sane, PartsDo
  <2> QED
    BY <2>5, <2>6
<1> QED
  BY <1>1, <1>2

\* More ids handed out.
LEMMA PageMore ==
  ASSUME NEW page, NEW m \in Nat, PageOK(page, m), NEW n \in Nat, m <= n
  PROVE  PageOK(page, n)
<1>1. Tree(page) /\ Refresh(Outline(page)) = Outline(page) /\ Known(Outline(page), m)
  BY DEF PageOK
<1>2. \A x \in Ids(page) : x < m /\ Named(page.node[x], m) /\ x \in Nat /\ page.node[x] \in Node
  BY <1>1, KnownIs, TreeIs
<1>3. ASSUME NEW x \in Ids(page) PROVE x < n /\ Named(page.node[x], n)
  <2>1. x < m /\ Named(page.node[x], m) /\ x \in Nat /\ page.node[x] \in Node
    BY <1>2
  <2>2. ASSUME page.node[x].kind = "conn" PROVE page.node[x].from < n /\ page.node[x].to < n
    <3>1. page.node[x] \in ConnNode
      BY <2>1, <2>2, KindIs
    <3>2. page.node[x].from \in Nat /\ page.node[x].to \in Nat
      BY <3>1, ConnIs
    <3> QED
      BY <2>1, <2>2, <3>2 DEF Named
  <2> QED
    BY <2>1, <2>2 DEF Named
<1>4. Known(Outline(page), n)
  BY <1>1, <1>3, KnownIs
<1> QED
  BY <1>1, <1>4 DEF PageOK

\* Handing out ids does not disturb the rings.
LEMMA RingsMore ==
  ASSUME NEW d, NEW m \in Nat, NEW n \in Nat, m <= n, d.next = m, NEW page, Rings(d, page),
         NEW c, c.undo = d.undo, c.redo = d.redo, c.next = n
  PROVE  Rings(c, page)
<1>1. ASSUME NEW e, Good(e, m) PROVE Good(e, n)
  BY <1>1, PageMore DEF Good
<1>2. Past(d.undo, page, m) /\ Future(d.redo, page, m)
  BY DEF Rings
<1>3. Past(d.undo, page, n)
  BY <1>1, <1>2 DEF Past, Behind
<1>4. Future(d.redo, page, n)
  BY <1>1, <1>2 DEF Future, Ahead
<1> QED
  BY <1>3, <1>4 DEF Rings

\* Nor the document.
LEMMA NextMore ==
  ASSUME NEW d, DocOK(d), NEW k \in Nat, NEW c, c = WithIds(d, k)
  PROVE  /\ DocOK(c) /\ c.page = d.page /\ c.next = d.next + k /\ c.latched = d.latched
<1>1. DocShape(d) /\ ~d.stuck /\ PageOK(d.page, d.next) /\ Rings(d, d.page)
  BY DEF DocOK
<1>2. DOMAIN d = DocFields /\ d.next \in Nat \ {0} /\ d.op \in Nat /\ d.latched \in BOOLEAN
  BY <1>1 DEF DocShape
<1>3. PICK v : v = d.next + k
  OBVIOUS
<1>4. c = [d EXCEPT !.next = v]
  BY <1>3 DEF WithIds
<1>5. /\ DOMAIN c = DocFields /\ c.page = d.page /\ c.undo = d.undo /\ c.redo = d.redo /\ c.op = d.op
      /\ c.stuck = d.stuck /\ c.latched = d.latched /\ c.next = v
  BY <1>2, <1>4 DEF DocFields
<1>6. v \in Nat \ {0} /\ d.next <= v
  BY <1>2, <1>3
<1>7. DocShape(c)
  BY <1>2, <1>5, <1>6 DEF DocShape
<1>8. PageOK(c.page, c.next)
  BY <1>1, <1>2, <1>5, <1>6, PageMore
<1>9. Rings(c, c.page)
  <2>1. PICK m : m = d.next
    OBVIOUS
  <2> QED
    BY <1>1, <1>2, <1>5, <1>6, <2>1, RingsMore
<1> QED
  BY <1>1, <1>3, <1>5, <1>7, <1>8, <1>9 DEF DocOK

-----------------------------------------------------------------------------
(***************************************************************************)
(* Parts put together: what erasers do.  M has the ids they hand out.      *)
(***************************************************************************)
Bit(P, e, M) == PartOK(P, e) /\ e.kind # "restore" /\ Makes(e) \subseteq M
Bits(P, es, M) ==
    /\ es \in Seq(Range(es)) /\ \A i \in DOMAIN es : Bit(P, es[i], M)
    /\ \A i, j \in DOMAIN es : i # j => Makes(es[i]) \cap Makes(es[j]) = {}
    /\ Len(es) # 0 => es[1].kind \notin Creates

\* No parts.
LEMMA BitsNone ==
  ASSUME NEW P, NEW M
  PROVE  Bits(P, << >>, M)
<1>1. << >> \in Seq(Range(<< >>)) /\ DOMAIN << >> = {} /\ Len(<< >>) = 0
  OBVIOUS
<1> QED
  BY <1>1 DEF Bits

\* One part that makes no node.
LEMMA BitsOne ==
  ASSUME NEW P, NEW M, NEW e, Bit(P, e, M), e.kind \notin Creates
  PROVE  Bits(P, <<e>>, M)
<1>1. PICK s : s = <<e>>
  OBVIOUS
<1>2. DOMAIN s = {1} /\ s[1] = e /\ s \in Seq({e}) /\ Range(s) = {e}
  BY <1>1 DEF Range
<1>3. Bits(P, s, M)
  BY <1>2 DEF Bits
<1> QED
  BY <1>1, <1>3

\* Parts may hand out fewer ids than they are given.
LEMMA BitsMore ==
  ASSUME NEW P, NEW M, NEW N, M \subseteq N, NEW es, Bits(P, es, M)
  PROVE  Bits(P, es, N)
BY DEF Bits, Bit

\* Parts with ids of their own, put together.
LEMMA BitsConcat ==
  ASSUME NEW P, NEW M, NEW N, M \cap N = {}, NEW s, Bits(P, s, M), NEW t, Bits(P, t, N)
  PROVE  Bits(P, s \o t, M \cup N)
<1>1. PICK T, u, m, n : T = Range(s) \cup Range(t) /\ u = s \o t /\ m = Len(s) /\ n = Len(t)
  OBVIOUS
<1>2. s \in Seq(T) /\ t \in Seq(T)
  <2>1. s \in Seq(Range(s)) /\ t \in Seq(Range(t))
    BY DEF Bits
  <2> QED
    BY <1>1, <2>1
<1>3. /\ u \in Seq(T) /\ Len(u) = m + n /\ DOMAIN u = 1..(m + n) /\ m \in Nat /\ n \in Nat
      /\ Range(u) = T
      /\ \A i \in 1..(m + n) : u[i] = IF i <= m THEN s[i] ELSE t[i - m]
  BY <1>1, <1>2, ConcatIs
<1>4. DOMAIN s = 1..m /\ DOMAIN t = 1..n
  BY <1>1, <1>2
<1>5. \A i \in 1..m : Bit(P, s[i], M)
  BY <1>4 DEF Bits
<1>6. \A i \in 1..n : Bit(P, t[i], N)
  BY <1>4 DEF Bits
<1>7. \A i \in 1..(m + n) : \/ i \in 1..m /\ u[i] = s[i]
                            \/ i > m /\ i - m \in 1..n /\ u[i] = t[i - m]
  <2> TAKE i \in 1..(m + n)
  <2>1. CASE i <= m
    BY <1>3, <2>1
  <2>2. CASE ~(i <= m)
    <3>1. i > m /\ i - m \in 1..n
      BY <1>3, <2>2
    <3> QED
      BY <1>3, <2>2, <3>1
  <2> QED
    BY <2>1, <2>2
<1>8. \A i \in 1..(m + n) : Bit(P, u[i], M \cup N)
  BY <1>5, <1>6, <1>7 DEF Bit
<1>9. ASSUME NEW i \in 1..(m + n), NEW j \in 1..(m + n), i # j PROVE Makes(u[i]) \cap Makes(u[j]) = {}
  <2>1. CASE i \in 1..m /\ u[i] = s[i] /\ j \in 1..m /\ u[j] = s[j]
    <3>1. \A k, l \in 1..m : k # l => Makes(s[k]) \cap Makes(s[l]) = {}
      BY <1>4 DEF Bits
    <3> QED
      BY <1>9, <2>1, <3>1
  <2>2. CASE i \in 1..m /\ u[i] = s[i] /\ j - m \in 1..n /\ u[j] = t[j - m]
    BY <1>5, <1>6, <2>2 DEF Bit
  <2>3. CASE j \in 1..m /\ u[j] = s[j] /\ i - m \in 1..n /\ u[i] = t[i - m]
    BY <1>5, <1>6, <2>3 DEF Bit
  <2>4. CASE j - m \in 1..n /\ u[j] = t[j - m] /\ i - m \in 1..n /\ u[i] = t[i - m]
    <3>1. \A k, l \in 1..n : k # l => Makes(t[k]) \cap Makes(t[l]) = {}
      BY <1>4 DEF Bits
    <3>2. i - m # j - m
      BY <1>3, <1>9
    <3> QED
      BY <2>4, <3>1, <3>2
  <2> QED
    BY <1>7, <2>1, <2>2, <2>3, <2>4
<1>10. m + n # 0 => u[1].kind \notin Creates
  <2>1. CASE m # 0
    <3>1. 1 \in 1..(m + n) /\ 1 <= m
      BY <1>3, <2>1
    <3>2. u[1] = s[1]
      BY <1>3, <3>1
    <3> QED
      BY <1>1, <2>1, <3>2 DEF Bits
  <2>2. CASE m = 0 /\ n # 0
    <3>1. 1 \in 1..(m + n) /\ ~(1 <= m) /\ 1 - m = 1
      BY <1>3, <2>2
    <3>2. u[1] = t[1]
      BY <1>3, <3>1
    <3> QED
      BY <1>1, <2>2, <3>2 DEF Bits
  <2> QED
    BY <1>3, <2>1, <2>2
<1>11. Bits(P, u, M \cup N)
  BY <1>3, <1>8, <1>9, <1>10 DEF Bits
<1> QED
  BY <1>1, <1>11

\* One list after another; M[i] has the ids the i-th hands out.
LEMMA BitsFlatten ==
  ASSUME NEW P, NEW ss, NEW n \in Nat, Len(ss) = n, DOMAIN ss = 1..n, n = 0 => ss = << >>, NEW M,
         \A i \in 1..n : Bits(P, ss[i], M[i]), \A i, j \in 1..n : i # j => M[i] \cap M[j] = {},
         NEW N, \A i \in 1..n : M[i] \subseteq N
  PROVE  Bits(P, FlattenSeq(ss), N)
<1>1. CASE n = 0
  <2>1. FlattenSeq(ss) = << >>
    BY <1>1, EmptySeq DEF FlattenSeq
  <2> QED
    BY <2>1, BitsNone
<1>2. CASE n # 0
  <2>1. PICK f : FlattenRun(f, ss)
    BY <1>2, FlattenUnfold
  <2>2. f[1] = ss[1] /\ (\A i \in 2..n : f[i] = f[i - 1] \o ss[i]) /\ FlattenSeq(ss) = f[n]
    BY <2>1 DEF FlattenRun
  <2> DEFINE U(i) == UNION {M[j] : j \in 1..i}
             Q(i) == 1 <= i /\ i <= n => Bits(P, f[i], U(i))
  <2>3. Q(0)
    OBVIOUS
  <2>4. ASSUME NEW i \in Nat, Q(i) PROVE Q(i + 1)
    <3> SUFFICES ASSUME i + 1 <= n PROVE Bits(P, f[i + 1], U(i + 1))
      OBVIOUS
    <3>1. CASE i = 0
      <4>1. f[i + 1] = ss[1] /\ U(i + 1) = M[1] /\ 1 \in 1..n
        BY <2>2, <3>1
      <4>2. Bits(P, ss[1], M[1])
        BY <4>1
      <4> HIDE DEF U
      <4> QED
        BY <4>1, <4>2
    <3>2. CASE i # 0
      <4>1. i + 1 \in 2..n /\ i + 1 \in 1..n /\ (i + 1) - 1 = i /\ 1 <= i /\ i <= n
        BY <3>2
      <4>2. f[i + 1] = f[i] \o ss[i + 1]
        BY <2>2, <4>1
      <4>3. Bits(P, f[i], U(i)) /\ Bits(P, ss[i + 1], M[i + 1])
        BY <2>4, <4>1
      <4>4. U(i) \cap M[i + 1] = {}
        <5>1. \A j \in 1..i : j \in 1..n /\ j # i + 1
          BY <4>1
        <5> QED
          BY <4>1, <5>1
      <4>5. U(i + 1) = U(i) \cup M[i + 1]
        <5>1. \A j : j \in 1..(i + 1) <=> j \in 1..i \/ j = i + 1
          BY <4>1
        <5> QED
          BY <5>1
      <4> HIDE DEF U
      <4>6. Bits(P, f[i] \o ss[i + 1], U(i) \cup M[i + 1])
        BY <4>3, <4>4, BitsConcat
      <4> QED
        BY <4>2, <4>5, <4>6
    <3> QED
      BY <3>1, <3>2
  <2>5. Q(n)
    <3> HIDE DEF Q
    <3>1. PICK S : S = {i \in Nat : Q(i)}
      OBVIOUS
    <3>2. 0 \in S /\ \A i \in Nat : i \in S => i + 1 \in S
      BY <2>3, <2>4, <3>1
    <3>3. n \in S
      BY <3>2, InductionSet
    <3> QED
      BY <3>1, <3>3
  <2>6. Bits(P, FlattenSeq(ss), U(n)) /\ U(n) \subseteq N
    BY <1>2, <2>2, <2>5
  <2> HIDE DEF U
  <2> QED
    BY <2>6, BitsMore
<1> QED
  BY <1>1, <1>2

\* Such parts are a gesture.
LEMMA BitsPlanned ==
  ASSUME NEW page, Tree(page), NEW base \in Nat, NEW next \in Nat, base <= next, Known(Outline(page), base),
         NEW es, Bits(Outline(page), es, base..(next - 1))
  PROVE  Planned(page, next, base, es)
<1>1. PartsOK(Outline(page), es)
  BY DEF Bits, Bit, PartsOK
<1>2. ASSUME NEW i \in DOMAIN es PROVE Brings(es[i], base, next)
  <2> SUFFICES ASSUME NEW x \in Makes(es[i]) PROVE base <= x /\ x < next /\ Named(Brought(es[i], x), next)
    BY DEF Brings
  <2>1. Bit(Outline(page), es[i], base..(next - 1))
    BY DEF Bits
  <2>2. base <= x /\ x < next
    BY <2>1 DEF Bit
  <2>3. es[i].kind = "append_ink"
    BY <2>1 DEF Bit, Makes
  <2>4. es[i].rec \in InkNode
    BY <2>1, <2>3 DEF Bit, PartOK
  <2>5. es[i].rec.kind = "ink"
    BY <2>4, InkIs
  <2> QED
    BY <2>2, <2>3, <2>5 DEF Brought, Named
<1>3. Len(es) # 0 => es[1].kind \notin Creates
  BY DEF Bits
<1> QED
  BY <1>1, <1>2, <1>3 DEF Planned

\* Removing what is there.
LEMMA RemovesBits ==
  ASSUME NEW P, NEW T, NEW ids \in Seq(T), T \subseteq DOMAIN P.node, NEW es,
             es = [i \in DOMAIN ids |-> RemoveNode(ids[i])]
  PROVE  Bits(P, es, {})
<1>1. /\ DOMAIN es = DOMAIN ids /\ \A i \in DOMAIN ids : es[i] = RemoveNode(ids[i]) /\ ids[i] \in DOMAIN P.node
  OBVIOUS
<1>2. ASSUME NEW i \in DOMAIN es PROVE Bit(P, es[i], {}) /\ Makes(es[i]) = {} /\ es[i].kind \notin Creates
  <2>1. es[i].kind = "remove_node" /\ es[i].id \in DOMAIN P.node
    BY <1>1 DEF RemoveNode
  <2> QED
    BY <2>1 DEF Bit, PartOK, Makes, Creates
<1>3. es \in Seq(Range(es)) /\ (Len(es) # 0 => 1 \in DOMAIN es)
  <2>1. PICK n : n = Len(ids) /\ n \in Nat /\ DOMAIN ids = 1..n
    OBVIOUS
  <2>2. es = [i \in 1..n |-> es[i]] /\ \A i \in 1..n : es[i] \in Range(es)
    BY <1>1, <2>1 DEF Range
  <2> QED
    BY <2>1, <2>2
<1> QED
  BY <1>2, <1>3 DEF Bits

\* Two parts, the first of which makes no node.
LEMMA BitsTwo ==
  ASSUME NEW P, NEW M, NEW e, NEW f, Bit(P, e, M), Bit(P, f, M), e.kind \notin Creates, Makes(e) = {}
  PROVE  Bits(P, <<e>> \o <<f>>, M)
<1>1. PICK s : s = <<e>> \o <<f>>
  OBVIOUS
<1>2. DOMAIN s = {1, 2} /\ s[1] = e /\ s[2] = f /\ s \in Seq({e, f}) /\ Range(s) = {e, f}
  <2>1. PICK T, u, v : T = {e, f} /\ u = <<e>> /\ v = <<f>>
    OBVIOUS
  <2>2. u \in Seq(T) /\ v \in Seq(T) /\ Len(u) = 1 /\ Len(v) = 1 /\ u[1] = e /\ v[1] = f
        /\ DOMAIN u = {1} /\ DOMAIN v = {1}
    BY <2>1
  <2>3. s = u \o v /\ Range(u) = {e} /\ Range(v) = {f}
    BY <1>1, <2>1, <2>2 DEF Range
  <2>4. /\ s \in Seq(T) /\ Range(s) = Range(u) \cup Range(v) /\ DOMAIN s = 1..(Len(u) + Len(v))
        /\ \A i \in 1..(Len(u) + Len(v)) : s[i] = IF i <= Len(u) THEN u[i] ELSE v[i - Len(u)]
    BY <2>2, <2>3, ConcatIs
  <2>5. 1..(Len(u) + Len(v)) = {1, 2}
    BY <2>2
  <2>6. s[1] = e /\ s[2] = f
    BY <2>2, <2>4, <2>5
  <2> QED
    BY <2>1, <2>3, <2>4, <2>5, <2>6
<1>3. Bits(P, s, M)
  BY <1>2 DEF Bits
<1> QED
  BY <1>1, <1>3

-----------------------------------------------------------------------------
(***************************************************************************)
(* Gestures of one edit.                                                   *)
(***************************************************************************)
\* An edit that fits and that its inverses take back.
Reverted(page, e, next) ==
    /\ Fits(Outline(page), e) /\ Known(After(Outline(page), e), next)
    /\ Unnamed(After(Outline(page), e), Outline(page))
    /\ \A L : Reverts(GenerateUndo(page, e), L, Outline(page), After(Outline(page), e))
    /\ e.kind \in CreateKinds => e.id \notin Ids(page)
\* Outlines with the same tree of the same kinds.
Alike(b, a) ==
    /\ DOMAIN b.node = DOMAIN a.node /\ b.up = a.up
    /\ \A x \in DOMAIN a.node : b.node[x].kind = a.node[x].kind
    /\ \A base \in Nat : Known(a, base) => Known(b, base)
\* What a commit makes of a document, a being the outline of its edits.
Lands(d, a, new) ==
    /\ DocOK(new) /\ ~new.latched /\ new.next = d.next
    /\ d.latched => Outline(new.page) = Outline(d.page) /\ new.undo = d.undo
    /\ ~d.latched => Alike(Outline(new.page), a)
    /\ \E run : Outline(run) = a /\ Sound(a) /\ Followed(d, d.page, run, new)

\* A gesture of one edit can be run again.
LEMMA RepeatsOne ==
  ASSUME NEW page, NEW e, Fits(Outline(page), e)
  PROVE  Repeats(<<e>>, page, After(Outline(page), e))
<1>1. PICK es, o, P : es = <<e>> /\ P = Outline(page) /\ o = [i \in 0..1 |-> IF i = 0 THEN P ELSE After(P, e)]
  OBVIOUS
<1>2. Len(es) = 1 /\ es[1] = e
  BY <1>1
<1>3. o[0] = P /\ o[1] = After(P, e)
  BY <1>1
<1>4. Traced(o, P, es)
  <2>1. \A i \in 1..1 : i = 1 /\ i - 1 = 0
    OBVIOUS
  <2> QED
    BY <1>1, <1>2, <1>3, <2>1 DEF Traced
<1>5. Repeats(es, page, o[Len(es)])
  <2>1. Traced(o, Outline(page), es) /\ Len(es) \in Nat /\ Len(es) # 0
    BY <1>1, <1>2, <1>4
  <2> QED
    BY <2>1, TracedRepeats
<1> QED
  BY <1>1, <1>2, <1>3, <1>5

\* What a commit that is not latched makes of the page.
LEMMA LandsAlike ==
  ASSUME NEW a, Sound(a), NEW marks, Stamps(marks, DOMAIN a.node), NEW b, b = Refresh(Stamp(a, marks))
  PROVE  Alike(b, a)
<1>3. a = [node |-> a.node, up |-> a.up] /\ \A x \in DOMAIN a.node : a.node[x] \in Node
  BY SoundIs DEF Sound
<1>4. /\ b.up = a.up /\ DOMAIN b.node = DOMAIN a.node
      /\ \A x \in DOMAIN a.node : b.node[x].kind = a.node[x].kind
  BY <1>3, SettledIs
<1>5. ASSUME NEW base \in Nat, Known(a, base) PROVE Known(b, base)
  BY <1>5, SettledKnown
<1> QED
  BY <1>4, <1>5 DEF Alike

\* Committing one edit that fits and can be taken back.
LEMMA CommitFits ==
  ASSUME NEW d, DocOK(d), NEW e, Reverted(d.page, e, d.next), NEW new, new = Commit(d, e)
  PROVE  Lands(d, After(Outline(d.page), e), new)
<1>1. PICK page, P, a, r, run, inv, edits :
         /\ page = d.page /\ P = Outline(page) /\ a = After(P, e) /\ r = Apply(page, e) /\ run = r.page
         /\ inv = GenerateUndo(page, e) /\ edits = <<e>>
  OBVIOUS
<1>2. DocShape(d) /\ ~d.stuck /\ PageOK(page, d.next) /\ Rings(d, page) /\ Tree(page)
  BY <1>1 DEF DocOK, PageOK
<1>3. Fits(P, e) /\ Known(a, d.next) /\ Unnamed(a, P) /\ (\A L : Reverts(inv, L, P, a))
      /\ (e.kind \in CreateKinds => e.id \notin Ids(page))
  BY <1>1 DEF Reverted
<1>4. r.ok /\ Tree(run) /\ Outline(run) = a
  BY <1>1, <1>2, <1>3, ApplyFits DEF Made
<1>5. Repeats(edits, page, Outline(run))
  BY <1>1, <1>3, <1>4, RepeatsOne
<1>6. Undoable(page, page, run, inv, edits, d.next)
  <2>1. \A i \in DOMAIN edits : edits[i].kind \in CreateKinds => edits[i].id \notin Ids(page)
    BY <1>1, <1>3
  <2>2. Reverts(inv, DOMAIN Targets(page, edits), Outline(page), Outline(run))
    BY <1>1, <1>3, <1>4
  <2>3. Known(Outline(run), d.next) /\ Unnamed(Outline(run), Outline(page))
    BY <1>1, <1>3, <1>4
  <2> QED
    BY <1>4, <1>5, <2>1, <2>2, <2>3 DEF Undoable
<1>7. new = Recorded(d, run, inv, edits, page)
  BY <1>1, <1>4 DEF Commit, CommitFrom, CommitApplied
<1>8. /\ DocOK(new) /\ ~new.latched /\ new.next = d.next
      /\ d.latched => Outline(new.page) = Outline(page) /\ new.undo = d.undo
      /\ ~d.latched => Outline(new.page) = Refresh(Stamp(Outline(run),
             [x \in DOMAIN Targets(d.page, edits) |-> d.op + 1]))
      /\ Followed(d, page, run, new)
  <2>1. Undoable(d.page, page, run, inv, edits, d.next)
    BY <1>1, <1>6
  <2> QED
    BY <1>2, <1>7, <2>1, RecordedOK
<1>9. ~d.latched => Alike(Outline(new.page), a)
  <2>1. Sound(a) /\ d.op + 1 \in Nat
    BY <1>2, <1>4, TreeIs DEF DocShape
  <2>2. PICK marks : marks = [x \in DOMAIN Targets(d.page, edits) |-> d.op + 1]
    OBVIOUS
  <2>3. Stamps(marks, DOMAIN a.node)
    BY <2>1, <2>2 DEF Stamps
  <2>4. PICK b : b = Refresh(Stamp(a, marks))
    OBVIOUS
  <2>5. Alike(b, a)
    BY <2>1, <2>3, <2>4, LandsAlike
  <2> QED
    BY <1>4, <1>8, <2>2, <2>4, <2>5
<1>10. Outline(run) = a /\ Sound(a)
  BY <1>4, TreeIs
<1> QED
  BY <1>1, <1>8, <1>9, <1>10 DEF Lands

-----------------------------------------------------------------------------
\* No name of an id that is new.
LEMMA UnnamedNew ==
  ASSUME NEW P, Sound(P), NEW base \in Nat, Known(P, base), NEW a,
         \A x \in DOMAIN a.node \ DOMAIN P.node : base <= x
  PROVE  Unnamed(a, P)
<1> SUFFICES ASSUME NEW x \in DOMAIN P.node, P.node[x].kind = "conn",
                    NEW z \in DOMAIN a.node \ DOMAIN P.node, z \in {P.node[x].from, P.node[x].to}
             PROVE  FALSE
  BY DEF Unnamed
<1>1. P.node[x] \in Node
  BY SoundIs
<1>2. P.node[x].from \in Nat /\ P.node[x].to \in Nat
  BY <1>1, KindIs, ConnIs
<1>3. P.node[x].from < base /\ P.node[x].to < base /\ base <= z
  BY DEF Known
<1> QED
  BY <1>2, <1>3

\* Hosts, where nothing goes under a new parent.
LEMMA NoHosts ==
  ASSUME NEW a, NEW P, NEW fs, NEW G, G = {}
  PROVE  Hosts(a, P, G, fs)
  BY DEF Hosts

\* A new stroke at the root can be taken back.
LEMMA StrokeReverted ==
  ASSUME NEW page, Tree(page), NEW x \in Nat \ {0}, Known(Outline(page), x), NEW next \in Nat, x < next,
         NEW rec \in InkNode, NEW e, e = AppendInk(x, rec, Root, Root)
  PROVE  /\ Reverted(page, e, next)
         /\ LET a == After(Outline(page), e)
            IN  /\ Grown(Outline(page), a) /\ DOMAIN a.node = Ids(page) \cup {x}
                /\ a.node[x].kind = "ink" /\ a.up[x] = Root /\ Known(a, x + 1)
<1>1. PICK P, a : P = Outline(page) /\ a = After(P, e)
  OBVIOUS
<1>2. Sound(P) /\ DOMAIN P.node = Ids(page) /\ Root \notin DOMAIN P.node /\ DOMAIN P.up = DOMAIN P.node
  BY <1>1, TreeIs, OutlineIs, SoundIs
<1>3. x \notin DOMAIN P.node
  BY <1>1 DEF Known
<1>4. e.kind = "append_ink" /\ e.id = x /\ e.rec = rec /\ e.parent = Root /\ e.after = Root
  BY DEF AppendInk
<1>5. Home(P, e) = Root
  BY <1>2, <1>4 DEF Home, Has, Ids
<1>6. Fits(P, e)
  <2>1. e.id \in Nat \ {Root} /\ ~Has(P, e.id) /\ e.rec \in InkNode
    BY <1>3, <1>4 DEF Has, Ids, Root
  <2>2. FitsAppend(P, e)
    BY <1>5, <2>1 DEF FitsAppend
  <2> QED
    BY <1>4, <2>2 DEF Fits
<1>7. a = Planted(P, Alone(x, rec), Root)
  BY <1>1, <1>4, <1>5 DEF After, AfterAppend
<1>8. rec.kind = "ink"
  BY InkIs
<1>9. Grown(P, a) /\ DOMAIN a.node = DOMAIN P.node \cup {x} /\ a.node[x] = rec /\ a.up[x] = Root
  <2>1. PICK b : b = Alone(x, rec)
    OBVIOUS
  <2>2. DOMAIN b.node = {x} /\ b.node[x] = rec /\ b.up[x] = Root
    BY <2>1 DEF Alone
  <2>3. DOMAIN P.node \cap DOMAIN b.node = {}
    BY <1>3, <2>2
  <2>4. /\ Grown(P, Planted(P, b, Root)) /\ DOMAIN Planted(P, b, Root).node = DOMAIN P.node \cup DOMAIN b.node
        /\ \A y \in DOMAIN b.node : /\ Planted(P, b, Root).node[y] = b.node[y]
                                     /\ Planted(P, b, Root).up[y] = Hung(b, Root, y)
    BY <2>3, PlantedIs
  <2>5. Hung(b, Root, x) = Root
    BY <2>2 DEF Hung
  <2> QED
    BY <1>7, <2>1, <2>2, <2>4, <2>5
<1>10. Known(a, x + 1)
  <2>1. ASSUME NEW y \in DOMAIN a.node
        PROVE y \in 1..x /\ (a.node[y].kind = "conn" => a.node[y].from < x + 1 /\ a.node[y].to < x + 1)
    <3>1. CASE y = x
      BY <1>8, <1>9, <3>1
    <3>2. CASE y # x
      <4>1. y \in DOMAIN P.node /\ a.node[y] = P.node[y] /\ P.node[y] \in Node
        BY <1>2, <1>9, <3>2, SoundIs DEF Grown
      <4>2. a.node[y].kind = "conn" => a.node[y].from \in Nat /\ a.node[y].to \in Nat
        BY <4>1, KindIs, ConnIs
      <4>3. y \in 1..(x - 1) /\ (a.node[y].kind = "conn" => a.node[y].from < x /\ a.node[y].to < x)
        BY <1>1, <4>1 DEF Known
      <4> QED
        BY <4>2, <4>3
    <3> QED
      BY <3>1, <3>2
  <2> QED
    BY <2>1 DEF Known
<1>11. Known(a, next)
  <2>1. ASSUME NEW y \in DOMAIN a.node
        PROVE y \in 1..(next - 1) /\ (a.node[y].kind = "conn" => a.node[y].from < next /\ a.node[y].to < next)
    <3>1. a.node[y] \in Node
      BY <1>2, <1>9, SoundIs DEF Grown, Node
    <3>2. a.node[y].kind = "conn" => a.node[y].from \in Nat /\ a.node[y].to \in Nat
      BY <3>1, KindIs, ConnIs
    <3>3. y \in 1..x /\ (a.node[y].kind = "conn" => a.node[y].from < x + 1 /\ a.node[y].to < x + 1)
      BY <1>10 DEF Known
    <3> QED
      BY <3>2, <3>3
  <2> QED
    BY <2>1 DEF Known
<1>12. Unnamed(a, P)
  <2>1. \A z \in DOMAIN a.node \ DOMAIN P.node : x <= z
    BY <1>9
  <2> QED
    BY <1>1, <1>2, <2>1, UnnamedNew
<1>13. ASSUME NEW L PROVE Reverts(GenerateUndo(page, e), L, P, a)
  <2>1. PICK fs, G : fs = GenerateUndo(page, e) /\ G = {}
    OBVIOUS
  <2>2. fs = <<RemoveNode(x)>>
    BY <1>4, <2>1 DEF GenerateUndo
  <2>3. Len(fs) = 1 /\ fs[1] = RemoveNode(x) /\ fs[1].kind = "remove_node" /\ fs[1].id = x
    BY <2>2 DEF RemoveNode
  <2>4. UndoesAll(P, L, fs)
    <3>1. Undoes(P, L, fs, 1)
      BY <1>3, <2>3 DEF Undoes
    <3>2. \A j \in 1..1 : j = 1
      OBVIOUS
    <3> QED
      BY <2>3, <3>1, <3>2 DEF UndoesAll
  <2>5. Lacking(a, P, fs, 1)
    BY <1>9 DEF Lacking
  <2>6. Standing(a, P, L, G, fs, 1)
    <3>1. ASSUME NEW y \in DOMAIN P.node PROVE a.node[y] = P.node[y] /\ a.up[y] = P.up[y]
      BY <1>9 DEF Grown
    <3> QED
      BY <3>1 DEF Standing, Agree
  <2>7. Strangers(a, P, fs, 1)
    <3>1. ASSUME NEW y \in DOMAIN a.node \ DOMAIN P.node PROVE y \in Below(a.up, {fs[1].id})
      <4>1. y = x /\ x \in DOMAIN a.up
        BY <1>9 DEF Grown
      <4> QED
        BY <2>3, <4>1, BelowIs
    <3>2. 1 \in 1..Len(fs)
      BY <2>3
    <3> QED
      BY <2>3, <3>1, <3>2 DEF Strangers
  <2>8. Hosts(a, P, G, fs)
    BY <2>1, NoHosts
  <2>9. Ends(fs, DOMAIN a.node, a.up)
    BY <1>9, <2>3 DEF Ends
  <2>10. Mending(a, P, L, G, fs, 1)
    BY <2>5, <2>6, <2>7, <2>8 DEF Mending
  <2> QED
    BY <2>1, <2>3, <2>4, <2>9, <2>10 DEF Reverts
<1>14. Reverted(page, e, next)
  BY <1>1, <1>2, <1>3, <1>4, <1>6, <1>11, <1>12, <1>13 DEF Reverted
<1> QED
  BY <1>1, <1>2, <1>8, <1>9, <1>10, <1>14

-----------------------------------------------------------------------------
\* An ink of the page goes into a box on the page.
LEMMA JoinReverted ==
  ASSUME NEW page, Tree(page), NEW next \in Nat, Known(Outline(page), next),
         NEW x \in Ids(page), page.node[x].kind = "ink", NEW b \in Ids(page), page.node[b].kind = "box",
         Up(page)[b] = Root, NEW e, e = JoinSmartGroup(x, b)
  PROVE  Reverted(page, e, next)
<1>1. PICK P, a : P = Outline(page) /\ a = After(P, e)
  OBVIOUS
<1>2. Sound(P) /\ DOMAIN P.node = Ids(page) /\ Root \notin DOMAIN P.node /\ DOMAIN P.up = DOMAIN P.node
      /\ P.node = page.node /\ P.up = Up(page)
  BY <1>1, TreeIs, OutlineIs, SoundIs
<1>3. e.kind = "join_smart_group" /\ e.id = x /\ e.box = b
  BY DEF JoinSmartGroup
<1>4. Fits(P, e)
  BY <1>2, <1>3 DEF Fits, FitsJoin, Of, Has, Ids
<1>5. Below(P.up, {x}) = {x} /\ x # b
  BY <1>2, BelowInk
<1>6. PICK rec, new, q : /\ rec = Localized(P.node[x], P.node[b].at) /\ new = Alone(x, rec)
                         /\ q = Pruned(P, {x})
  OBVIOUS
<1>7. rec \in InkNode /\ rec.kind = "ink"
  <2>1. P.node[x] \in Node /\ P.node[b] \in Node
    BY <1>2, SoundIs
  <2>2. P.node[x] \in InkNode /\ P.node[b] \in BoxNode
    BY <1>2, <2>1, KindIs
  <2>3. P.node[b].at \in Int
    BY <2>2, BoxIs
  <2> QED
    BY <1>6, <2>2, <2>3, LocalizedIs
<1>8. a = Planted(q, new, b)
  BY <1>1, <1>3, <1>6 DEF After, AfterJoin
<1>9. /\ DOMAIN q.node = DOMAIN P.node \ {x} /\ DOMAIN q.up = DOMAIN P.node \ {x}
      /\ \A y \in DOMAIN P.node \ {x} : q.node[y] = P.node[y] /\ q.up[y] = P.up[y]
  BY <1>2, <1>5, <1>6 DEF Pruned, Restrict
<1>10. DOMAIN new.node = {x} /\ new.node[x] = rec /\ new.up[x] = Root
  BY <1>6 DEF Alone
<1>11. /\ DOMAIN a.node = DOMAIN P.node /\ DOMAIN a.up = DOMAIN P.node
       /\ \A y \in DOMAIN P.node \ {x} : a.node[y] = P.node[y] /\ a.up[y] = P.up[y]
       /\ a.node[x] = rec /\ a.up[x] = b
  <2>1. DOMAIN q.node \cap DOMAIN new.node = {}
    BY <1>9, <1>10
  <2>2. /\ Grown(q, Planted(q, new, b)) /\ DOMAIN Planted(q, new, b).node = DOMAIN q.node \cup DOMAIN new.node
        /\ \A y \in DOMAIN new.node : /\ Planted(q, new, b).node[y] = new.node[y]
                                     /\ Planted(q, new, b).up[y] = Hung(new, b, y)
    BY <2>1, PlantedIs
  <2>3. Hung(new, b, x) = b
    BY <1>10 DEF Hung
  <2> QED
    BY <1>2, <1>8, <1>9, <1>10, <2>2, <2>3 DEF Grown
<1>12. Known(a, next)
  BY <1>1, <1>7, <1>11 DEF Known
<1>13. Unnamed(a, P)
  BY <1>11 DEF Unnamed
<1>14. ASSUME NEW L PROVE Reverts(GenerateUndo(page, e), L, P, a)
  <2>1. PICK fs, G, u : fs = GenerateUndo(page, e) /\ G = {b} /\ u = RestoreEdit(page, x)
    OBVIOUS
  <2>2. fs = <<u>>
    BY <1>3, <2>1 DEF GenerateUndo, UndoJoin, Has
  <2>3. Len(fs) = 1 /\ fs[1] = u
    BY <2>2
  <2>4. PutsBack(P, u, x)
    BY <1>1, <2>1, RestoreIs
  <2>5. u.kind = "restore" /\ u.id = x
    BY <2>4 DEF PutsBack
  <2>6. \A j \in 1..1 : j = 1
    OBVIOUS
  <2>7. UndoesAll(P, L, fs)
    <3>1. PutsBack(P, fs[1], x)
      BY <2>3, <2>4
    <3>2. Undoes(P, L, fs, 1)
      BY <3>1, PutsBackUndoes
    <3> QED
      BY <2>3, <2>6, <3>2 DEF UndoesAll
  <2>8. Covered(P, fs, 1, x)
    <3>1. 1 \in 1..Len(fs)
      BY <2>3
    <3> QED
      BY <1>5, <2>3, <2>5, <3>1 DEF Covered
  <2>9. Lacking(a, P, fs, 1)
    BY <1>11 DEF Lacking
  <2>10. Standing(a, P, L, G, fs, 1)
    <3>1. ASSUME NEW y \in DOMAIN P.node \ {x} PROVE a.node[y] = P.node[y] /\ a.up[y] = P.up[y]
      BY <1>11
    <3>2. a.node[x].kind = P.node[x].kind /\ a.up[x] \in G
      BY <1>2, <1>7, <1>11, <2>1
    <3>3. \A y \in DOMAIN P.node \ {x} : Agree(a.node[y], P.node[y], Open(P, L, fs, 1, y))
      BY <3>1 DEF Agree
    <3> QED
      BY <2>8, <3>1, <3>2, <3>3 DEF Standing
  <2>11. Strangers(a, P, fs, 1)
    BY <1>11 DEF Strangers
  <2>12. Hosts(a, P, G, fs)
    <3>1. a.up[b] = Root
      BY <1>2, <1>5, <1>11
    <3>2. ASSUME NEW j \in 1..Len(fs) PROVE G \cap Below(P.up, {fs[j].id}) = {}
      <4>1. fs[j].id = x
        BY <2>3, <2>5, <2>6
      <4> QED
        BY <1>5, <2>1, <4>1
    <3> QED
      BY <2>1, <3>1, <3>2 DEF Hosts
  <2>13. Ends(fs, DOMAIN a.node, a.up)
    BY <2>3, <2>5 DEF Ends
  <2>14. Mending(a, P, L, G, fs, 1)
    BY <2>9, <2>10, <2>11, <2>12 DEF Mending
  <2> QED
    BY <2>1, <2>3, <2>7, <2>13, <2>14 DEF Reverts
<1>15. e.kind \notin CreateKinds
  BY <1>3 DEF CreateKinds
<1> QED
  BY <1>1, <1>4, <1>12, <1>13, <1>14, <1>15 DEF Reverted

-----------------------------------------------------------------------------
(***************************************************************************)
(* The inverses of grouping: what was captured, put back.                  *)
(***************************************************************************)
Insertion(list, e) ==
    InsertAt(list, Cardinality({i \in DOMAIN list : list[i].index <= e.index}) + 1, e)
\* What Sorted goes through.
SortRun(f, edits) ==
    /\ f[0] = << >>
    /\ \A i \in 1..Len(edits) : f[i] = Insertion(f[i - 1], edits[i])
    /\ Sorted(edits) = f[Len(edits)]

\* The recursion of Sorted, step by step.
LEMMA SortUnfold ==
  ASSUME NEW edits, Len(edits) \in Nat
  PROVE  \E f : SortRun(f, edits)
<1> DEFINE n == Len(edits)
           Eq(f, m) == f = [i \in 0..m |-> IF i = 0 THEN << >> ELSE Insertion(f[i - 1], edits[i])]
           Reached == {m \in Nat : \E f : Eq(f, m)}
<1>1. 0 \in Reached
  <2>1. Eq([i \in 0..0 |-> << >>], 0)
    OBVIOUS
  <2> HIDE DEF Eq
  <2> QED
    BY <2>1
<1>2. ASSUME NEW m \in Nat, m \in Reached PROVE m + 1 \in Reached
  <2>1. PICK f : Eq(f, m)
    BY <1>2
  <2> DEFINE g == [i \in 0..(m + 1) |-> IF i = m + 1 THEN Insertion(f[m], edits[m + 1]) ELSE f[i]]
             w == [i \in 0..(m + 1) |-> IF i = 0 THEN << >> ELSE Insertion(g[i - 1], edits[i])]
  <2>2. \A i \in 0..(m + 1) : g[i] = w[i]
    <3> TAKE i \in 0..(m + 1)
    <3>1. CASE i = 0
      BY <2>1, <3>1
    <3>2. CASE i = m + 1
      <4>1. g[i] = Insertion(f[m], edits[m + 1]) /\ i - 1 = m /\ i # 0 /\ m \in 0..(m + 1) /\ m # m + 1
        BY <3>2
      <4>2. g[m] = f[m]
        BY <4>1
      <4> QED
        BY <3>2, <4>1, <4>2
    <3>3. CASE i \in 1..m
      <4>1. i \in 0..m /\ i # 0 /\ i # m + 1 /\ i - 1 \in 0..m /\ i - 1 # m + 1 /\ i - 1 \in 0..(m + 1)
        BY <3>3
      <4>2. g[i] = f[i] /\ g[i - 1] = f[i - 1]
        BY <4>1
      <4>3. f[i] = Insertion(f[i - 1], edits[i])
        BY <2>1, <4>1
      <4> QED
        BY <4>1, <4>2, <4>3
    <3> QED
      BY <3>1, <3>2, <3>3
  <2>3. g = w
    BY <2>2
  <2> HIDE DEF g
  <2>4. Eq(g, m + 1)
    BY <2>3
  <2> HIDE DEF Eq
  <2> QED
    BY <2>4
<1> HIDE DEF Reached
<1>3. n \in Reached
  BY <1>1, <1>2, InductionSet
<1>4. PICK f : Eq(f, n)
  BY <1>3 DEF Reached
<1> DEFINE a == CHOOSE h : Eq(h, n)
<1>5. Eq(a, n)
  <2> HIDE DEF Eq
  <2> QED
    BY <1>4
<1>6. Sorted(edits) = a[n]
  BY DEF Sorted, Insertion
<1> HIDE DEF a
<1>7. a[0] = << >> /\ \A i \in 1..n : a[i] = Insertion(a[i - 1], edits[i])
  <2>1. a = [i \in 0..n |-> IF i = 0 THEN << >> ELSE Insertion(a[i - 1], edits[i])]
    BY <1>5
  <2>2. 0 \in 0..n /\ \A i \in 1..n : i \in 0..n /\ i # 0
    OBVIOUS
  <2>3. a[0] = << >>
    BY <2>1, <2>2
  <2>4. ASSUME NEW i \in 1..n PROVE a[i] = Insertion(a[i - 1], edits[i])
    <3>1. PICK v : v = Insertion(a[i - 1], edits[i])
      OBVIOUS
    <3>2. i \in 0..n /\ i # 0
      BY <2>2
    <3> HIDE DEF n
    <3>3. a[i] = v
      BY <2>1, <3>1, <3>2
    <3> QED
      BY <3>1, <3>3
  <2> QED
    BY <2>3, <2>4
<1> QED
  BY <1>6, <1>7 DEF SortRun

\* Insertion keeps a list and adds to it.
LEMMA InsertionIs ==
  ASSUME NEW T, NEW list \in Seq(T), NEW e \in T
  PROVE  Insertion(list, e) \in Seq(T) /\ Range(Insertion(list, e)) = Range(list) \cup {e}
<1>1. PICK up, n : up = {i \in DOMAIN list : list[i].index <= e.index} /\ n = Len(list)
  OBVIOUS
<1>2. n \in Nat /\ up \subseteq 1..n
  BY <1>1
<1>3. IsFiniteSet(1..n) /\ Cardinality(1..n) = n
  BY <1>2, FS_Interval
<1>4. Cardinality(up) \in Nat /\ Cardinality(up) <= n
  <2>1. IsFiniteSet(up) /\ Cardinality(up) <= Cardinality(1..n)
    BY <1>2, <1>3, FS_Subset, Zenon
  <2>2. Cardinality(up) \in Nat
    BY <2>1, FS_CardinalityType
  <2> QED
    BY <1>3, <2>1, <2>2
<1>5. PICK k : k = Cardinality(up) + 1
  OBVIOUS
<1>6. k \in 1..(Len(list) + 1)
  BY <1>1, <1>2, <1>4, <1>5
<1>7. Insertion(list, e) = InsertAt(list, k, e)
  BY <1>1, <1>5 DEF Insertion
<1>8. InsertAt(list, k, e) \in Seq(T) /\ Range(InsertAt(list, k, e)) = Range(list) \cup {e}
  BY <1>6, InsertAtRange
<1> QED
  BY <1>7, <1>8

\* Sorting keeps what is in a list.
LEMMA SortedIs ==
  ASSUME NEW T, NEW s \in Seq(T)
  PROVE  Sorted(s) \in Seq(T) /\ Range(Sorted(s)) = Range(s)
<1>1. PICK n : n = Len(s) /\ n \in Nat /\ DOMAIN s = 1..n /\ \A i \in 1..n : s[i] \in T
  OBVIOUS
<1>2. PICK f : SortRun(f, s)
  BY <1>1, SortUnfold
<1>3. f[0] = << >> /\ (\A i \in 1..n : f[i] = Insertion(f[i - 1], s[i])) /\ Sorted(s) = f[n]
  BY <1>1, <1>2 DEF SortRun
<1> DEFINE Upto(i) == {s[k] : k \in 1..i}
           Fit(i) == f[i] \in Seq(T) /\ Range(f[i]) = Upto(i)
           Q == {i \in Nat : i <= n => Fit(i)}
<1>4. 0 \in Q
  <2>1. Upto(0) = {}
    OBVIOUS
  <2>2. << >> \in Seq(T) /\ Range(<< >>) = {}
    BY DEF Range
  <2> QED
    BY <1>3, <2>1, <2>2
<1>5. ASSUME NEW i \in Nat, i \in Q PROVE i + 1 \in Q
  <2> SUFFICES ASSUME i + 1 <= n PROVE Fit(i + 1)
    OBVIOUS
  <2>1. Fit(i) /\ i + 1 \in 1..n /\ s[i + 1] \in T /\ i + 1 - 1 = i
    BY <1>1, <1>5
  <2>2. Upto(i + 1) = Upto(i) \cup {s[i + 1]}
    <3>1. \A k \in 1..(i + 1) : k \in 1..i \/ k = i + 1
      OBVIOUS
    <3>2. \A k \in 1..i : k \in 1..(i + 1)
      OBVIOUS
    <3> QED
      BY <3>1, <3>2
  <2>3. f[i + 1] = Insertion(f[i], s[i + 1])
    BY <1>3, <2>1
  <2>4. f[i] \in Seq(T) /\ Range(f[i]) = Upto(i)
    BY <2>1
  <2> HIDE DEF Upto
  <2>5. f[i + 1] \in Seq(T) /\ Range(f[i + 1]) = Range(f[i]) \cup {s[i + 1]}
    <3>1. PICK list, e : list = f[i] /\ e = s[i + 1]
      OBVIOUS
    <3>2. list \in Seq(T) /\ e \in T
      BY <2>1, <2>4, <3>1
    <3>3. Insertion(list, e) \in Seq(T) /\ Range(Insertion(list, e)) = Range(list) \cup {e}
      BY <3>2, InsertionIs
    <3> QED
      BY <2>3, <3>1, <3>3
  <2> QED
    BY <2>2, <2>4, <2>5
<1> HIDE DEF Q
<1>6. n \in Q
  BY <1>1, <1>4, <1>5, InductionSet
<1>7. f[n] \in Seq(T) /\ Range(f[n]) = Upto(n)
  BY <1>1, <1>6 DEF Q
<1>8. Upto(n) = Range(s)
  BY <1>1 DEF Range
<1> QED
  BY <1>3, <1>7, <1>8

\* Every id that is there is put back, and nothing else.
PutAll(P, us, T) ==
    /\ us \in Seq(Range(us))
    /\ \A j \in DOMAIN us : \E y \in T : PutsBack(P, us[j], y)
    /\ \A y \in T : \E j \in DOMAIN us : PutsBack(P, us[j], y)

\* collectCapturedRestores: a restore for every captured node there is.
LEMMA CapturedIs ==
  ASSUME NEW page, Tree(page), NEW X, NEW ids \in Seq(X), NEW us, us = CapturedRestores(page, ids)
  PROVE  PutAll(Outline(page), us, Range(ids) \cap Ids(page))
<1>1. PICK T, here : T = Range(ids) \cap Ids(page) /\ here = Kept(ids, Ids(page))
  OBVIOUS
<1>2. here \in Seq(X) /\ Range(here) = T
  BY <1>1, KeptIs
<1>3. PICK n : n = Len(here) /\ n \in Nat /\ DOMAIN here = 1..n
  BY <1>2
<1>4. PICK lead : lead = {i \in DOMAIN here : \A j \in 1..i-1 : here[j] # here[i]}
  OBVIOUS
<1>5. PICK all : all = [i \in DOMAIN here |-> i]
  OBVIOUS
<1>6. all \in Seq(1..n) /\ Range(all) = 1..n
  BY <1>3, <1>5 DEF Range
<1>7. PICK firsts : firsts = Kept(all, lead)
  OBVIOUS
<1>8. firsts \in Seq(1..n) /\ Range(firsts) = lead
  <2>1. Kept(all, lead) \in Seq(1..n) /\ Range(Kept(all, lead)) = Range(all) \cap lead
    BY <1>6, KeptIs
  <2> QED
    BY <1>3, <1>4, <1>6, <1>7, <2>1
<1>0. PICK m : m = Len(firsts)
  OBVIOUS
<1>9. m = Len(firsts) /\ m \in Nat /\ DOMAIN firsts = 1..m /\ \A k \in 1..m : firsts[k] \in 1..n
  <2>1. PICK N : N = 1..n
    OBVIOUS
  <2>2. firsts \in Seq(N)
    BY <1>8, <2>1
  <2>3. Len(firsts) \in Nat /\ DOMAIN firsts = 1..Len(firsts) /\ \A k \in 1..Len(firsts) : firsts[k] \in N
    BY <2>2
  <2> QED
    BY <1>0, <2>1, <2>3
<1>10. PICK list : list = [k \in DOMAIN firsts |-> RestoreEdit(page, here[firsts[k]])]
  OBVIOUS
<1>11. us = Sorted(list)
  BY <1>1, <1>4, <1>5, <1>7, <1>10 DEF CapturedRestores
<1>12. list \in Seq(Range(list)) /\ DOMAIN list = 1..m
  BY <1>9, <1>10 DEF Range
<1>13. us \in Seq(Range(list)) /\ Range(us) = Range(list)
  BY <1>11, <1>12, SortedIs
<1>14. \A k \in 1..m : list[k] = RestoreEdit(page, here[firsts[k]]) /\ here[firsts[k]] \in T
  BY <1>2, <1>3, <1>9, <1>10 DEF Range
<1>15. ASSUME NEW y \in T PROVE PutsBack(Outline(page), RestoreEdit(page, y), y)
  <2>1. PICK u : u = RestoreEdit(page, y)
    OBVIOUS
  <2>2. y \in Ids(page)
    BY <1>1
  <2> QED
    BY <2>1, <2>2, RestoreIs
<1>16. ASSUME NEW j \in DOMAIN us PROVE \E y \in T : PutsBack(Outline(page), us[j], y)
  <2>1. us[j] \in Range(list)
    BY <1>13 DEF Range
  <2>2. PICK k \in 1..m : us[j] = list[k]
    BY <1>12, <2>1 DEF Range
  <2> QED
    BY <1>14, <1>15, <2>2
<1>17. ASSUME NEW y \in T PROVE \E j \in DOMAIN us : PutsBack(Outline(page), us[j], y)
  <2>1. PICK S : S = {i \in 1..n : here[i] = y}
    OBVIOUS
  <2>2. S # {} /\ S \subseteq Nat
    <3>1. \E i \in 1..n : here[i] = y
      BY <1>2, <1>3 DEF Range
    <3> QED
      BY <2>1, <3>1
  <2>3. PICK i \in S : \A k \in S : i <= k
    BY <2>2, SmallestOf
  <2>4. i \in 1..n /\ here[i] = y
    BY <2>1, <2>3
  <2>5. i \in lead
    <3> SUFFICES ASSUME NEW j \in 1..i-1, here[j] = here[i] PROVE FALSE
      BY <1>3, <1>4, <2>4
    <3>1. j \in 1..n /\ j < i
      BY <1>3, <2>4
    <3>2. j \in S
      BY <2>1, <2>4, <3>1
    <3> QED
      BY <2>3, <2>4, <3>1, <3>2
  <2>6. PICK k \in 1..m : firsts[k] = i
    BY <1>8, <1>9, <2>5 DEF Range
  <2>7. list[k] = RestoreEdit(page, y)
    BY <1>14, <2>4, <2>6
  <2>8. list[k] \in Range(us)
    BY <1>12, <1>13 DEF Range
  <2>9. PICK j \in DOMAIN us : us[j] = list[k]
    BY <2>8 DEF Range
  <2> QED
    BY <1>15, <2>7, <2>9
<1>18. us \in Seq(Range(us))
  BY <1>13
<1>19. PutAll(Outline(page), us, T)
  BY <1>16, <1>17, <1>18 DEF PutAll
<1> QED
  BY <1>1, <1>19

-----------------------------------------------------------------------------
(***************************************************************************)
(* Grouping: a is P with what is below ids gathered under a new node g, or *)
(* gone.                                                                   *)
(***************************************************************************)
Gathered(P, a, ids, g) ==
    /\ g \in DOMAIN a.node \ DOMAIN P.node /\ g \in DOMAIN a.up /\ a.up[g] = Root
    /\ \A x \in DOMAIN P.node \ Below(P.up, ids) :
          x \in DOMAIN a.node /\ a.node[x] = P.node[x] /\ a.up[x] = P.up[x]
    /\ \A x \in DOMAIN a.node \ DOMAIN P.node : x \in Below(a.up, {g})
    /\ \A x \in DOMAIN a.node \cap DOMAIN P.node \cap Below(P.up, ids) :
          a.node[x].kind = P.node[x].kind /\ (a.up[x] = P.up[x] \/ a.up[x] = g)

\* Taking the new node away and putting the captured back undoes it.
LEMMA GatherReverts ==
  ASSUME NEW P, Sound(P), NEW a, NEW ids, NEW g, Gathered(P, a, ids, g), NEW T, ids \subseteq T,
         T \subseteq DOMAIN P.node, NEW us, PutAll(P, us, T), NEW fs, fs = Append(us, RemoveNode(g)), NEW L
  PROVE  Reverts(fs, L, P, a)
<1>1. PICK n, G, D : n = Len(us) /\ G = {g} /\ D = DOMAIN P.node
  OBVIOUS
<1>2. n \in Nat /\ DOMAIN us = 1..n
  BY <1>1 DEF PutAll
<1>3. Len(fs) = n + 1 /\ fs[n + 1] = RemoveNode(g) /\ \A j \in 1..n : fs[j] = us[j]
  BY <1>1, <1>2, AppendEnd DEF PutAll
<1>4. fs[n + 1].kind = "remove_node" /\ fs[n + 1].id = g
  BY <1>3 DEF RemoveNode
<1>5. \A j \in 1..n : \E y \in T : PutsBack(P, fs[j], y)
  BY <1>2, <1>3 DEF PutAll
<1>6. \A j \in 1..n : fs[j].kind = "restore" /\ fs[j].id \in T
  BY <1>5 DEF PutsBack
<1>7. \A y \in T : \E j \in 1..n : fs[j].kind = "restore" /\ fs[j].id = y
  <2> SUFFICES ASSUME NEW y \in T PROVE \E j \in 1..n : fs[j].kind = "restore" /\ fs[j].id = y
    OBVIOUS
  <2>1. PICK j \in 1..n : PutsBack(P, us[j], y)
    BY <1>2 DEF PutAll
  <2> QED
    BY <1>3, <2>1 DEF PutsBack
<1>8. \A j \in 1..Len(fs) : j \in 1..n \/ j = n + 1
  BY <1>2, <1>3
<1>9. UndoesAll(P, L, fs)
  <2>1. ASSUME NEW j \in 1..n PROVE Undoes(P, L, fs, j)
    BY <1>5, PutsBackUndoes
  <2>2. Undoes(P, L, fs, n + 1)
    BY <1>4 DEF Undoes, Gathered
  <2> QED
    BY <1>2, <1>3, <1>8, <2>1, <2>2 DEF UndoesAll
<1>10. DOMAIN P.up = D
  BY <1>1, SoundIs
<1>11. ASSUME NEW x \in Below(P.up, ids) PROVE Covered(P, fs, 1, x)
  <2>1. x \in UNION {Below(P.up, {y}) : y \in ids \cap DOMAIN P.up}
    BY BelowUnion
  <2>2. PICK y \in ids : x \in Below(P.up, {y})
    BY <2>1
  <2>3. PICK j \in 1..n : fs[j].kind = "restore" /\ fs[j].id = y
    BY <1>7, <2>2
  <2>4. j \in 1..Len(fs)
    BY <1>2, <1>3
  <2> QED
    BY <2>2, <2>3, <2>4 DEF Covered
<1>12. Lacking(a, P, fs, 1)
  BY <1>11 DEF Lacking, Gathered
<1>13. Standing(a, P, L, G, fs, 1)
  <2> SUFFICES ASSUME NEW x \in DOMAIN P.node \cap DOMAIN a.node
      PROVE  /\ a.node[x].kind = P.node[x].kind
             /\ a.up[x] = P.up[x] \/ a.up[x] \in G
             /\ \/ Covered(P, fs, 1, x)
                \/ a.up[x] = P.up[x] /\ Agree(a.node[x], P.node[x], Open(P, L, fs, 1, x))
    BY DEF Standing
  <2>1. CASE x \in Below(P.up, ids)
    <3>1. a.node[x].kind = P.node[x].kind /\ (a.up[x] = P.up[x] \/ a.up[x] = g)
      BY <2>1 DEF Gathered
    <3> QED
      BY <1>1, <1>11, <2>1, <3>1
  <2>2. CASE x \notin Below(P.up, ids)
    <3>1. a.node[x] = P.node[x] /\ a.up[x] = P.up[x]
      BY <2>2 DEF Gathered
    <3> QED
      BY <3>1 DEF Agree
  <2> QED
    BY <2>1, <2>2
<1>14. Strangers(a, P, fs, 1)
  <2>1. n + 1 \in 1..Len(fs)
    BY <1>2, <1>3
  <2> QED
    BY <1>4, <2>1 DEF Strangers, Gathered
<1>15. Hosts(a, P, G, fs)
  <2>1. ASSUME NEW j \in 1..Len(fs) PROVE G \cap Below(P.up, {fs[j].id}) = {}
    BY <1>1, <1>10, BelowIs DEF Gathered
  <2>2. a.up[g] = Root
    BY DEF Gathered
  <2> QED
    BY <1>1, <2>1, <2>2 DEF Hosts
<1>16. Mending(a, P, L, G, fs, 1)
  BY <1>12, <1>13, <1>14, <1>15 DEF Mending
<1>17. Ends(fs, DOMAIN a.node, a.up)
  <2>1. g \in DOMAIN a.node /\ a.up[g] = Root
    BY DEF Gathered
  <2>2. \A j \in 1..(Len(fs) - 1) : fs[j].kind # "remove_node"
    BY <1>2, <1>3, <1>6
  <2> QED
    BY <1>2, <1>3, <1>4, <2>1, <2>2 DEF Ends
<1>18. Len(fs) # 0
  BY <1>2, <1>3
<1> QED
  BY <1>9, <1>16, <1>17, <1>18 DEF Reverts

-----------------------------------------------------------------------------
\* What goes under g: nodes of P from below ids, where they were or at the
\* top, and new ones.
Moving(P, B, ids, g) ==
    /\ DOMAIN B.up = DOMAIN B.node /\ g \notin DOMAIN B.node /\ Root \notin DOMAIN B.node
    /\ \A x \in DOMAIN B.node : B.up[x] \in DOMAIN B.node \cup {Root}
    /\ \A x \in DOMAIN B.node \cap DOMAIN P.node :
          /\ x \in Below(P.up, ids) /\ B.node[x].kind = P.node[x].kind
          /\ B.up[x] = Root \/ B.up[x] = P.up[x]
Gather(P, ids, g, rec, B) == Planted(Planted(Pruned(P, ids), Alone(g, rec), Root), B, g)
Comprises(P, a, ids, g, rec, B) ==
    /\ a.node[g] = rec
    /\ DOMAIN a.node = ((DOMAIN P.node \ Below(P.up, ids)) \cup {g}) \cup DOMAIN B.node
    /\ \A x \in DOMAIN B.node : a.node[x] = B.node[x]
\* Gathering moves what it captured and touches nothing else.
LEMMA GatherIs ==
  ASSUME NEW P, Sound(P), NEW ids, NEW g, g \notin DOMAIN P.node, g # Root, NEW rec, NEW B, Moving(P, B, ids, g),
         NEW a, a = Gather(P, ids, g, rec, B), Sound(a)
  PROVE  Gathered(P, a, ids, g) /\ Comprises(P, a, ids, g, rec, B)
<1>1. PICK q, one, m, keep : /\ q = Pruned(P, ids) /\ one = Alone(g, rec) /\ m = Planted(q, one, Root)
                             /\ keep = DOMAIN P.node \ Below(P.up, ids)
  OBVIOUS
<1>2. /\ DOMAIN q.node = keep /\ DOMAIN q.up = keep
      /\ \A y \in keep : q.node[y] = P.node[y] /\ q.up[y] = P.up[y]
  <2>1. DOMAIN P.up = DOMAIN P.node
    BY SoundIs
  <2> QED
    BY <1>1, <2>1 DEF Pruned, Restrict
<1>3. DOMAIN one.node = {g} /\ one.node[g] = rec /\ one.up[g] = Root
  BY <1>1 DEF Alone
<1>4. /\ DOMAIN m.node = keep \cup {g} /\ DOMAIN m.up = DOMAIN m.node
      /\ \A y \in keep : m.node[y] = P.node[y] /\ m.up[y] = P.up[y]
      /\ m.node[g] = rec /\ m.up[g] = Root
  <2>1. DOMAIN q.node \cap DOMAIN one.node = {}
    BY <1>1, <1>2, <1>3
  <2>2. /\ Grown(q, m) /\ DOMAIN m.node = DOMAIN q.node \cup DOMAIN one.node
        /\ \A y \in DOMAIN one.node : m.node[y] = one.node[y] /\ m.up[y] = Hung(one, Root, y)
    BY <1>1, <2>1, PlantedIs
  <2>3. Hung(one, Root, g) = Root
    BY <1>3 DEF Hung
  <2> QED
    BY <1>2, <1>3, <2>2, <2>3 DEF Grown
<1>5. DOMAIN m.node \cap DOMAIN B.node = {}
  BY <1>1, <1>4 DEF Moving
<1>6. /\ Grown(m, a) /\ DOMAIN a.node = DOMAIN m.node \cup DOMAIN B.node
      /\ \A y \in DOMAIN B.node : a.node[y] = B.node[y] /\ a.up[y] = Hung(B, g, y)
  <2>1. a = Planted(m, B, g)
    BY <1>1 DEF Gather
  <2> QED
    BY <1>5, <2>1, PlantedIs
<1>7. /\ DOMAIN a.up = DOMAIN a.node /\ g \in DOMAIN a.node /\ a.node[g] = rec /\ a.up[g] = Root
      /\ \A y \in keep : y \in DOMAIN a.node /\ a.node[y] = P.node[y] /\ a.up[y] = P.up[y]
  BY <1>4, <1>6 DEF Grown
<1>8. DOMAIN B.node \subseteq Below(a.up, {g})
  <2>1. PICK S, Bl : S = DOMAIN B.node \ Below(a.up, {g}) /\ Bl = Below(a.up, {g})
    OBVIOUS
  <2>2. g \in Bl /\ \A z \in DOMAIN a.up : a.up[z] \in Bl => z \in Bl
    BY <1>7, <2>1, BelowIs
  <2>3. S = {}
    <3> SUFFICES ASSUME S # {} PROVE FALSE
      OBVIOUS
    <3>1. S \in SUBSET DOMAIN a.up
      BY <1>6, <1>7, <2>1
    <3>2. Founded(a.up)
      BY DEF Sound
    <3>3. PICK x \in S : a.up[x] \notin S
      BY <3>1, <3>2 DEF Founded
    <3>4. x \in DOMAIN B.node /\ x \in DOMAIN a.up /\ x \notin Bl
      BY <2>1, <3>1
    <3>5. a.up[x] = IF B.up[x] = Root THEN g ELSE B.up[x]
      BY <1>6, <3>4 DEF Hung
    <3>6. B.up[x] \in DOMAIN B.node \cup {Root}
      BY <3>4 DEF Moving
    <3>7. a.up[x] \in Bl
      BY <2>1, <2>2, <3>3, <3>5, <3>6
    <3> QED
      BY <2>2, <3>4, <3>7
  <2> QED
    BY <2>1, <2>3
<1>9. \A x \in DOMAIN a.node \ DOMAIN P.node : x \in Below(a.up, {g})
  <2>1. g \in Below(a.up, {g})
    BY <1>7, BelowIs
  <2> QED
    BY <1>1, <1>4, <1>6, <1>8, <2>1
<1>10. \A x \in DOMAIN a.node \cap DOMAIN P.node \cap Below(P.up, ids) :
          a.node[x].kind = P.node[x].kind /\ (a.up[x] = P.up[x] \/ a.up[x] = g)
  <2> SUFFICES ASSUME NEW x \in DOMAIN a.node \cap DOMAIN P.node \cap Below(P.up, ids)
               PROVE  a.node[x].kind = P.node[x].kind /\ (a.up[x] = P.up[x] \/ a.up[x] = g)
    OBVIOUS
  <2>1. x \in DOMAIN B.node
    BY <1>1, <1>4, <1>6
  <2>2. B.node[x].kind = P.node[x].kind /\ (B.up[x] = Root \/ B.up[x] = P.up[x])
    BY <2>1 DEF Moving
  <2> QED
    BY <1>6, <2>1, <2>2 DEF Hung
<1>11. Gathered(P, a, ids, g)
  BY <1>1, <1>7, <1>9, <1>10 DEF Gathered
<1> QED
  BY <1>1, <1>4, <1>6, <1>7, <1>11 DEF Comprises

-----------------------------------------------------------------------------
\* A body that goes into a group: its nodes are from below ids or new.
Kin(f, P, ids, g, base, next) ==
    /\ \A y \in DOMAIN f.node : y # g /\ 0 < y /\ y < next /\ Named(f.node[y], next)
    /\ \A y \in DOMAIN f.node \ DOMAIN P.node : base <= y
    /\ \A y \in DOMAIN f.node \cap DOMAIN P.node :
          /\ y \in Below(P.up, ids) /\ f.node[y].kind = P.node[y].kind
          /\ Plan(f).up[y] = Root \/ Plan(f).up[y] = P.up[y]
\* An id for a new node.
NewId(P, g, base, next) ==
    /\ base \in Nat /\ next \in Nat /\ g \in Nat \ {0} /\ base <= g /\ g < next /\ Known(P, base)

\* The outline of a gathering commit, known and unnamed.
LEMMA GatherKnown ==
  ASSUME NEW P, Sound(P), NEW g, NEW base, NEW next, NewId(P, g, base, next), NEW rec \in Node, Named(rec, next),
         NEW ids, NEW D, NEW a,
         a.node[g] = rec, DOMAIN a.node = ((DOMAIN P.node \ Below(P.up, ids)) \cup {g}) \cup D,
         \A x \in DOMAIN P.node \ Below(P.up, ids) : a.node[x] = P.node[x],
         \A y \in D : y \in Nat \ {0} /\ y < next /\ Named(a.node[y], next) /\ (y \in DOMAIN P.node \/ base <= y)
  PROVE  Known(a, next) /\ Unnamed(a, P)
<1>1. base \in Nat /\ next \in Nat /\ g \in Nat \ {0} /\ base <= g /\ g < next /\ Known(P, base)
  BY DEF NewId
<1>2. ASSUME NEW y \in DOMAIN a.node PROVE y \in 1..(next - 1) /\ Named(a.node[y], next)
  <2>1. CASE y = g
    BY <1>1, <2>1
  <2>2. CASE y \in D
    BY <1>1, <2>2
  <2>3. CASE y \in DOMAIN P.node \ Below(P.up, ids)
    <3>1. a.node[y] = P.node[y] /\ y \in DOMAIN P.node /\ P.node[y] \in Node
      BY <2>3, SoundIs
    <3>2. P.node[y].kind = "conn" => P.node[y].from \in Nat /\ P.node[y].to \in Nat
      BY <3>1, KindIs, ConnIs
    <3>3. y \in 1..(base - 1) /\ (P.node[y].kind = "conn" => P.node[y].from < base /\ P.node[y].to < base)
      BY <1>1, <3>1 DEF Known
    <3> QED
      BY <1>1, <3>1, <3>2, <3>3 DEF Named
  <2> QED
    BY <2>1, <2>2, <2>3
<1>3. Known(a, next)
  BY <1>2 DEF Known, Named
<1>4. Unnamed(a, P)
  <2>1. \A x \in DOMAIN a.node \ DOMAIN P.node : base <= x
    BY <1>1
  <2> QED
    BY <1>1, <2>1, UnnamedNew
<1> QED
  BY <1>3, <1>4

\* Making a box around captured nodes can be taken back.
LEMMA GroupReverted ==
  ASSUME NEW page, Tree(page), NEW P, P = Outline(page), NEW g, NEW base, NEW next, NewId(P, g, base, next),
         NEW rec \in BoxNode, NEW captured, AtTop(P, captured), NEW bodies, Bundle(bodies),
         \A i \in DOMAIN bodies : Kin(bodies[i], P, Range(captured), g, base, next),
         NEW e, e = CreateSmartGroup(g, rec, bodies, captured)
  PROVE  Reverted(page, e, next)
<1>1. /\ Sound(P) /\ DOMAIN P.node = Ids(page) /\ Root \notin DOMAIN P.node /\ DOMAIN P.up = DOMAIN P.node
  BY TreeIs, OutlineIs, SoundIs
<1>2. /\ base \in Nat /\ next \in Nat /\ g \in Nat \ {0} /\ base <= g /\ g < next
      /\ \A x \in DOMAIN P.node : x \in 1..(base - 1)
  BY DEF NewId, Known
<1>3. g \notin DOMAIN P.node /\ g # Root
  BY <1>2 DEF Root
<1>4. /\ e.kind = "create_smart_group" /\ e.id = g /\ e.rec = rec /\ e.bodies = bodies
      /\ e.captured = captured
  BY DEF CreateSmartGroup
<1>5. PICK ids, B, a : ids = Range(captured) /\ B = Bunch(bodies) /\ a = After(P, e)
  OBVIOUS
<1>6. Fits(P, e)
  <2>1. ASSUME NEW i \in DOMAIN bodies
        PROVE  /\ DOMAIN bodies[i].node \cap DOMAIN P.node \subseteq Below(P.up, Range(captured))
               /\ g \notin DOMAIN bodies[i].node
    BY DEF Kin
  <2>2. g \in Nat \ {Root} /\ ~Has(P, g)
    BY <1>2, <1>3 DEF Has, Ids
  <2>3. FitsGroup(P, e)
    BY <1>4, <2>1, <2>2 DEF FitsGroup
  <2> QED
    BY <1>4, <2>3 DEF Fits
<1>7. Sound(a)
  <2>1. Made(Apply(page, e), After(Outline(page), e))
    BY <1>6, ApplyFits
  <2> QED
    BY <1>5, <2>1, TreeIs DEF Made
<1>8. a = Gather(P, ids, g, rec, B)
  BY <1>4, <1>5 DEF After, AfterGroup, Gather
<1>9. /\ DOMAIN B.node = Spread(bodies, Len(bodies)) /\ DOMAIN B.up = Spread(bodies, Len(bodies))
      /\ bodies \in Seq(Range(bodies)) /\ \A i \in DOMAIN bodies : BodyOK(bodies[i])
  BY <1>5 DEF Bunch, Bundle
<1>10. ASSUME NEW x \in DOMAIN B.node
       PROVE  \E i \in DOMAIN bodies : /\ x \in DOMAIN bodies[i].node
                                       /\ B.node[x] = bodies[i].node[x] /\ B.up[x] = Plan(bodies[i]).up[x]
  <2>1. PICK i \in DOMAIN bodies : x \in DOMAIN bodies[i].node
    BY <1>9 DEF Spread
  <2>2. B.node[x] = bodies[i].node[x] /\ B.up[x] = Plan(bodies[i]).up[x]
    BY <1>5, <2>1, BunchIs
  <2> QED
    BY <2>1, <2>2
<1>11. Moving(P, B, ids, g)
  <2>1. ASSUME NEW x \in DOMAIN B.node
        PROVE  /\ x # g /\ x # Root /\ B.up[x] \in DOMAIN B.node \cup {Root}
               /\ x \in DOMAIN P.node => /\ x \in Below(P.up, ids) /\ B.node[x].kind = P.node[x].kind
                                         /\ B.up[x] = Root \/ B.up[x] = P.up[x]
    <3>1. PICK i \in DOMAIN bodies : /\ x \in DOMAIN bodies[i].node
                                     /\ B.node[x] = bodies[i].node[x] /\ B.up[x] = Plan(bodies[i]).up[x]
      BY <1>10
    <3>2. PICK f : f = bodies[i]
      OBVIOUS
    <3>3. BodyOK(f) /\ Kin(f, P, ids, g, base, next) /\ x \in DOMAIN f.node
      BY <1>5, <1>9, <3>1, <3>2
    <3>4. Plan(f).up[x] \in DOMAIN f.node \cup {Root} /\ Root \notin DOMAIN f.node
      <4>1. Sound(Plan(f)) /\ Plan(f).node = f.node /\ Root \notin DOMAIN f.node
        BY <3>3, BodyIs
      <4> QED
        BY <3>3, <4>1, SoundIs
    <3>5. \A y \in DOMAIN f.node : y \in DOMAIN B.node
      BY <1>5, <3>2, <1>9, BunchIs
    <3> QED
      BY <3>1, <3>2, <3>3, <3>4, <3>5 DEF Kin
  <2> QED
    BY <1>9, <2>1 DEF Moving
<1>12. /\ Gathered(P, a, ids, g) /\ a.node[g] = rec
       /\ DOMAIN a.node = ((DOMAIN P.node \ Below(P.up, ids)) \cup {g}) \cup DOMAIN B.node
       /\ \A x \in DOMAIN B.node : a.node[x] = B.node[x]
  <2>1. Gathered(P, a, ids, g) /\ Comprises(P, a, ids, g, rec, B)
    BY <1>1, <1>3, <1>7, <1>8, <1>11, GatherIs
  <2> QED
    BY <2>1 DEF Comprises
<1>13. Known(a, next) /\ Unnamed(a, P)
  <2>1. rec \in Node /\ rec.kind = "box" /\ Named(rec, next)
    BY BoxIs DEF Node, Named
  <2>2. \A x \in DOMAIN P.node \ Below(P.up, ids) : a.node[x] = P.node[x]
    BY <1>12 DEF Gathered
  <2>3. PICK D : D = DOMAIN B.node
    OBVIOUS
  <2>4. ASSUME NEW y \in D
        PROVE  y \in Nat \ {0} /\ y < next /\ Named(a.node[y], next) /\ (y \in DOMAIN P.node \/ base <= y)
    <3>1. PICK i \in DOMAIN bodies : y \in DOMAIN bodies[i].node /\ B.node[y] = bodies[i].node[y]
      BY <1>10, <2>3
    <3>2. PICK f : f = bodies[i]
      OBVIOUS
    <3>3. Kin(f, P, ids, g, base, next) /\ y \in DOMAIN f.node /\ BodyOK(f)
      BY <1>5, <1>9, <3>1, <3>2
    <3>4. y \in Nat
      <4>1. Tree(AsPage(f)) /\ Ids(AsPage(f)) = DOMAIN f.node
        BY <3>3, BodyIs
      <4> QED
        BY <3>3, <4>1, TreeIs
    <3> QED
      BY <1>12, <2>3, <3>1, <3>2, <3>3, <3>4 DEF Kin
  <2> QED
    BY <1>1, <1>12, <2>1, <2>2, <2>3, <2>4, GatherKnown
<1>14. ASSUME NEW L PROVE Reverts(GenerateUndo(page, e), L, P, a)
  <2>1. PICK tops, all, us, fs, T : /\ tops = BodyIds(bodies) /\ all = captured \o tops
            /\ us = CapturedRestores(page, all) /\ fs = Append(us, RemoveNode(g))
            /\ T = Range(all) \cap Ids(page)
    OBVIOUS
  <2>2. GenerateUndo(page, e) = fs
    BY <1>4, <2>1 DEF GenerateUndo, UndoSmartGroup
  <2>3. PICK n : n = Len(bodies) /\ n \in Nat /\ DOMAIN bodies = 1..n
    BY <1>9
  <2>4. tops \in Seq(Range(tops))
    <3>1. DOMAIN tops = 1..n /\ tops = [i \in 1..n |-> tops[i]]
      BY <2>1, <2>3, Zenon DEF BodyIds
    <3> QED
      BY <2>3, <3>1, ListIs
  <2>5. captured \in Seq(DOMAIN P.node)
    BY DEF AtTop
  <2>6. PICK X : X = DOMAIN P.node \cup Range(tops)
    OBVIOUS
  <2>7. captured \in Seq(X) /\ tops \in Seq(X)
    <3>1. Range(captured) \subseteq X /\ Range(tops) \subseteq X
      BY <2>5, <2>6 DEF Range
    <3> QED
      BY <2>4, <2>5, <3>1, SeqInto
  <2>8. all \in Seq(X) /\ Range(all) = Range(captured) \cup Range(tops)
    BY <2>1, <2>7, ConcatIs
  <2>9. PutAll(Outline(page), us, Range(all) \cap Ids(page))
    BY <2>1, <2>8, CapturedIs
  <2>10. ids \subseteq T /\ T \subseteq DOMAIN P.node /\ PutAll(P, us, T)
    <3>1. Range(captured) \subseteq DOMAIN P.node
      BY <2>5 DEF Range
    <3> QED
      BY <1>1, <1>5, <2>1, <2>8, <2>9, <3>1
  <2>11. Reverts(fs, L, P, a)
    BY <1>1, <1>12, <2>1, <2>10, GatherReverts
  <2> QED
    BY <2>2, <2>11
<1> QED
  BY <1>1, <1>3, <1>4, <1>5, <1>6, <1>13, <1>14 DEF Reverted

-----------------------------------------------------------------------------
\* So can making a connector of strokes.
LEMMA ConnectorReverted ==
  ASSUME NEW page, Tree(page), NEW P, P = Outline(page), NEW g, NEW base, NEW next, NewId(P, g, base, next),
         NEW rec \in ConnNode, Named(rec, next), NEW captured, AtTop(P, captured),
         \A i \in DOMAIN captured : P.node[captured[i]].kind = "ink",
         NEW e, e = CreateConnector(g, rec, captured)
  PROVE  Reverted(page, e, next)
<1>1. /\ Sound(P) /\ DOMAIN P.node = Ids(page) /\ Root \notin DOMAIN P.node /\ DOMAIN P.up = DOMAIN P.node
  BY TreeIs, OutlineIs, SoundIs
<1>2. /\ base \in Nat /\ next \in Nat /\ g \in Nat \ {0} /\ base <= g /\ g < next /\ base <= next
      /\ Known(P, base) /\ \A x \in DOMAIN P.node : x \in 1..(base - 1)
  BY DEF NewId, Known
<1>3. g \notin DOMAIN P.node /\ g # Root
  BY <1>2 DEF Root
<1>4. e.kind = "create_connector" /\ e.id = g /\ e.rec = rec /\ e.captured = captured
  BY DEF CreateConnector
<1>5. PICK ids, B, a : ids = Range(captured) /\ B = Loose(P, captured) /\ a = After(P, e)
  OBVIOUS
<1>6. captured \in Seq(DOMAIN P.node) /\ ids \subseteq DOMAIN P.node
      /\ \A x \in ids : P.node[x].kind = "ink" /\ P.up[x] = Root
  BY <1>5 DEF AtTop, Range
<1>7. Fits(P, e)
  <2>1. g \in Nat \ {Root} /\ ~Has(P, g)
    BY <1>2, <1>3 DEF Has, Ids
  <2>2. FitsConnector(P, e)
    BY <1>4, <2>1 DEF FitsConnector
  <2> QED
    BY <1>4, <2>2 DEF Fits
<1>8. Sound(a)
  <2>1. Made(Apply(page, e), After(Outline(page), e))
    BY <1>7, ApplyFits
  <2> QED
    BY <1>5, <2>1, TreeIs DEF Made
<1>9. a = Gather(P, ids, g, rec, B)
  BY <1>4, <1>5 DEF After, AfterConnector, Gather
<1>10. /\ DOMAIN B.node = ids /\ DOMAIN B.up = ids
       /\ \A x \in ids : B.node[x] = P.node[x] /\ B.up[x] = Root
  BY <1>5 DEF Loose
<1>11. Moving(P, B, ids, g)
  <2>1. ids \subseteq Below(P.up, ids)
    BY <1>1, <1>6, BelowIs
  <2> QED
    BY <1>1, <1>3, <1>6, <1>10, <2>1 DEF Moving
<1>12. Gathered(P, a, ids, g) /\ Comprises(P, a, ids, g, rec, B)
  BY <1>1, <1>3, <1>8, <1>9, <1>11, GatherIs
<1>13. Known(a, next) /\ Unnamed(a, P)
  <2>1. rec \in Node
    BY DEF Node
  <2>2. \A x \in DOMAIN P.node \ Below(P.up, ids) : a.node[x] = P.node[x]
    BY <1>12 DEF Gathered
  <2>3. /\ a.node[g] = rec
        /\ DOMAIN a.node = ((DOMAIN P.node \ Below(P.up, ids)) \cup {g}) \cup ids
        /\ \A x \in ids : a.node[x] = P.node[x]
    BY <1>10, <1>12 DEF Comprises
  <2>4. ASSUME NEW y \in ids
        PROVE  y \in Nat \ {0} /\ y < next /\ Named(a.node[y], next) /\ (y \in DOMAIN P.node \/ base <= y)
    BY <1>2, <1>6, <2>3 DEF Named
  <2> QED
    BY <1>1, <2>1, <2>2, <2>3, <2>4, GatherKnown
<1>14. ASSUME NEW L PROVE Reverts(GenerateUndo(page, e), L, P, a)
  <2>1. PICK us, fs, T : /\ us = CapturedRestores(page, captured) /\ fs = Append(us, RemoveNode(g))
            /\ T = Range(captured) \cap Ids(page)
    OBVIOUS
  <2>2. GenerateUndo(page, e) = fs
    BY <1>4, <2>1 DEF GenerateUndo, UndoConnector
  <2>3. PutAll(Outline(page), us, Range(captured) \cap Ids(page))
    BY <1>6, <2>1, CapturedIs
  <2>4. ids \subseteq T /\ T \subseteq DOMAIN P.node /\ PutAll(P, us, T)
    BY <1>1, <1>5, <1>6, <2>1, <2>3
  <2>5. Reverts(fs, L, P, a)
    BY <1>1, <1>12, <2>1, <2>4, GatherReverts
  <2> QED
    BY <2>2, <2>5
<1> QED
  BY <1>1, <1>3, <1>4, <1>5, <1>7, <1>13, <1>14 DEF Reverted
-----------------------------------------------------------------------------
\* Two singletons in a row.
LEMMA TwoIs ==
  ASSUME NEW s, NEW r
  PROVE <<s>> \o <<r>> = <<s, r>>
<1>1. PICK T : T = {s, r}
  OBVIOUS
<1>2. PICK u, v, w : u = <<s>> /\ v = <<r>> /\ w = u \o v
  OBVIOUS
<1>3. u \in Seq(T) /\ v \in Seq(T) /\ Len(u) = 1 /\ Len(v) = 1 /\ u[1] = s /\ v[1] = r
  BY <1>1, <1>2
<1>4. w \in Seq(T) /\ Len(w) = 2 /\ w[1] = s /\ w[2] = r
  BY <1>2, <1>3, ConcatIs
<1>5. PICK z : z = <<s, r>>
  OBVIOUS
<1>6. z \in Seq(T) /\ Len(z) = 2 /\ z[1] = s /\ z[2] = r
  BY <1>1, <1>5
<1>7. \A i \in 1..2 : i = 1 \/ i = 2
  OBVIOUS
<1>8. w = z
  BY <1>4, <1>6, <1>7, SeqEqual
<1> QED
  BY <1>2, <1>5, <1>8

\* Style ink: the stroke goes, the connector's end has it.
LEMMA BindBits ==
  ASSUME NEW page, Tree(page), NEW x \in Ids(page), page.node[x].kind = "ink",
         NEW c \in Ids(page), page.node[c].kind = "conn", NEW fromEnd \in BOOLEAN,
         NEW strokes \in Seq(Interval)
  PROVE  Bits(Outline(page), <<SetEndpointInk(c, fromEnd, strokes), RemoveNode(x)>>, {})
<1>1. PICK P, s, r, M : P = Outline(page) /\ s = SetEndpointInk(c, fromEnd, strokes) /\ r = RemoveNode(x) /\ M = {}
  OBVIOUS
<1>2. P.node = page.node /\ DOMAIN P.node = Ids(page)
  BY <1>1, OutlineIs
<1>3. Bit(P, s, M) /\ s.kind \notin Creates /\ Makes(s) = {}
  <2>1. s.kind = "set_endpoint_ink" /\ s.id = c /\ s.fromEnd = fromEnd /\ s.strokes = strokes
        /\ "strokes" \in DOMAIN s
    BY <1>1 DEF SetEndpointInk
  <2>2. Of(P, c, "conn")
    BY <1>2 DEF Of, Has, Ids
  <2> QED
    BY <2>1, <2>2 DEF Bit, PartOK, Makes, Creates
<1>4. Bit(P, r, M)
  <2>1. r.kind = "remove_node" /\ r.id = x
    BY <1>1 DEF RemoveNode
  <2> QED
    BY <1>2, <2>1 DEF Bit, PartOK, Makes
<1>5. Bits(P, <<s>> \o <<r>>, M)
  BY <1>3, <1>4, BitsTwo
<1>6. <<s>> \o <<r>> = <<s, r>>
  BY TwoIs
<1> QED
  BY <1>1, <1>5, <1>6

-----------------------------------------------------------------------------
(***************************************************************************)
(* Dragging a box: the edits are planned on a page that has the drag.      *)
(***************************************************************************)
\* b is a with x under another parent.
Rehung(b, a, x, parent) ==
    /\ DOMAIN b.node = DOMAIN a.node /\ DOMAIN b.up = DOMAIN a.node
    /\ \A y \in DOMAIN a.node : b.node[y] = a.node[y] /\ b.up[y] = IF y = x THEN parent ELSE a.up[y]
\* A reparent hangs a node elsewhere and changes nothing else.
LEMMA ReparentIs ==
  ASSUME NEW a, Sound(a), NEW e, e.id \in DOMAIN a.node, NEW b, b = AfterReparent(a, e)
  PROVE  Rehung(b, a, e.id, e.parent)
<1>1. PICK x, S, q, p : x = e.id /\ S = Below(a.up, {x}) /\ q = Pruned(a, S) /\ p = Part(a, x)
  OBVIOUS
<1>2. DOMAIN a.up = DOMAIN a.node /\ S \subseteq DOMAIN a.node
  BY <1>1, SoundIs
<1>3. Below(a.up, S) = S
  BY <1>1, BelowTwice
<1>4. x \in S
  BY <1>1, <1>2, BelowIs
<1>5. /\ DOMAIN q.node = DOMAIN a.node \ S /\ DOMAIN q.up = DOMAIN a.node \ S
      /\ \A y \in DOMAIN a.node \ S : q.node[y] = a.node[y] /\ q.up[y] = a.up[y]
  BY <1>1, <1>2, <1>3 DEF Pruned, Restrict
<1>6. /\ DOMAIN p.node = S /\ DOMAIN p.up = S
      /\ \A y \in S : p.node[y] = a.node[y] /\ p.up[y] = IF y = x THEN Root ELSE a.up[y]
  BY <1>1, <1>2 DEF Part, Restrict
<1>7. DOMAIN q.node \cap DOMAIN p.node = {}
  BY <1>5, <1>6
<1>8. b = Planted(q, p, e.parent)
  BY <1>1 DEF AfterReparent
<1>9. /\ Grown(q, b) /\ DOMAIN b.node = DOMAIN q.node \cup DOMAIN p.node
      /\ \A y \in DOMAIN p.node : b.node[y] = p.node[y] /\ b.up[y] = Hung(p, e.parent, y)
  BY <1>7, <1>8, PlantedIs
<1>10. DOMAIN b.node = DOMAIN a.node /\ DOMAIN b.up = DOMAIN a.node
  BY <1>2, <1>5, <1>6, <1>9 DEF Grown
<1>11. ASSUME NEW y \in DOMAIN a.node
       PROVE  b.node[y] = a.node[y] /\ b.up[y] = IF y = x THEN e.parent ELSE a.up[y]
  <2>1. CASE y \in S
    <3>1. b.node[y] = a.node[y] /\ b.up[y] = Hung(p, e.parent, y)
      BY <1>6, <1>9, <2>1
    <3>2. CASE y = x
      BY <1>6, <2>1, <3>1, <3>2 DEF Hung
    <3>3. CASE y # x
      <4>1. p.up[y] = a.up[y]
        BY <1>6, <2>1, <3>3
      <4>2. a.up[y] # Root
        <5>1. a.up[y] \in S
          BY <1>1, <2>1, <3>3, BelowIs
        <5> QED
          BY <1>2, <5>1, SoundIs
      <4> QED
        BY <3>1, <3>3, <4>1, <4>2 DEF Hung
    <3> QED
      BY <3>2, <3>3
  <2>2. CASE y \notin S
    BY <1>4, <1>5, <1>9, <2>2 DEF Grown
  <2> QED
    BY <2>1, <2>2
<1> QED
  BY <1>1, <1>10, <1>11 DEF Rehung

\* A refreshed outline is close to what it was.
LEMMA CloseFresh ==
  ASSUME NEW a, Sound(a), NEW b, b = Refresh(a)
  PROVE  /\ Close(a, b, {}) /\ Close(b, a, {})
         /\ \A x \in DOMAIN a.node : b.node[x].kind = a.node[x].kind /\ b.node[x].last = a.node[x].last
<1>1. a = [node |-> a.node, up |-> a.up] /\ \A x \in DOMAIN a.node : a.node[x] \in Node
  BY SoundIs DEF Sound
<1>2. PICK none : none = << >>
  OBVIOUS
<1>3. DOMAIN none = {} /\ Stamps(none, DOMAIN a.node)
  BY <1>2 DEF Stamps
<1>4. Stamp(a, none) = a
  BY <1>3, OwnStamp
<1>5. b = Refresh(Stamp(a, none))
  BY <1>4
<1>6. /\ b.up = a.up /\ DOMAIN b.node = DOMAIN a.node
      /\ \A x \in DOMAIN a.node :
           /\ b.node[x] \in Node /\ b.node[x].kind = a.node[x].kind
           /\ DOMAIN b.node[x] = DOMAIN a.node[x]
           /\ \A f \in DOMAIN a.node[x] :
                 /\ f \notin {"last", "p", "q"} => b.node[x][f] = a.node[x][f]
                 /\ f = "last" => b.node[x][f] = IF x \in DOMAIN none THEN none[x] ELSE a.node[x][f]
                 /\ f = "p" /\ ~Of(a, a.node[x].from, "box") => b.node[x][f] = a.node[x][f]
                 /\ f = "q" /\ ~Of(a, a.node[x].to, "box") => b.node[x][f] = a.node[x][f]
  BY <1>1, <1>3, <1>5, SettledIs
<1>7. \A y, kind : Of(b, y, kind) <=> Of(a, y, kind)
  BY <1>6 DEF Of, Has, Ids
<1>8. ASSUME NEW x \in DOMAIN a.node
      PROVE  /\ Agree(a.node[x], b.node[x], {f \in Fields : Slack(b, {}, x, f)})
             /\ Agree(b.node[x], a.node[x], {f \in Fields : Slack(a, {}, x, f)})
             /\ b.node[x].last = a.node[x].last
  <2>1. PICK m, n : m = a.node[x] /\ n = b.node[x]
    OBVIOUS
  <2>2. /\ m \in Node /\ n \in Node /\ n.kind = m.kind /\ DOMAIN n = DOMAIN m /\ DOMAIN m \subseteq Fields
        /\ "last" \in DOMAIN m /\ "kind" \in DOMAIN m
    BY <1>1, <1>6, <2>1, NodeFields
  <2>3. \A f \in DOMAIN m : /\ f \notin {"p", "q"} => n[f] = m[f]
                            /\ f = "p" /\ ~Of(a, m.from, "box") => n[f] = m[f]
                            /\ f = "q" /\ ~Of(a, m.to, "box") => n[f] = m[f]
    BY <1>3, <1>6, <2>1
  <2>4. ASSUME NEW f \in DOMAIN m, n[f] # m[f] PROVE Slack(a, {}, x, f) /\ Slack(b, {}, x, f)
    <3>1. f \in {"p", "q"}
      BY <2>3, <2>4
    <3>2. m.kind = "conn" /\ DOMAIN m = ConnFields
      <4>1. m.kind \in {"ink", "box", "conn"}
        BY <2>2, KindIs
      <4>2. m.kind # "ink" /\ m.kind # "box"
        BY <2>2, <3>1, <2>4, NodeFields DEF InkFields, BoxFields
      <4> QED
        BY <2>2, <4>1, <4>2, NodeFields
    <3>3. n.from = m.from /\ n.to = m.to
      BY <2>3, <3>2 DEF ConnFields
    <3>4. Of(a, x, "conn") /\ Of(b, x, "conn")
      BY <1>6, <2>1, <2>2, <3>2 DEF Of, Has, Ids
    <3>5. (f = "p" => Of(a, m.from, "box")) /\ (f = "q" => Of(a, m.to, "box"))
      BY <2>3, <2>4
    <3> QED
      BY <1>7, <2>1, <3>1, <3>3, <3>4, <3>5 DEF Slack
  <2>5. n.last = m.last
    BY <2>2, <2>3
  <2> QED
    BY <2>1, <2>2, <2>4, <2>5 DEF Agree
<1> QED
  BY <1>6, <1>8 DEF Close

\* Edits that fit a page, and make of it what is close to a.
LEMMA TracedClose ==
  ASSUME NEW pre, NEW es, Len(es) \in Nat, Len(es) # 0, NEW o, Traced(o, Outline(pre), es),
         NEW a, Close(o[Len(es)], a, {})
  PROVE  Repeats(es, pre, a)
<1> SUFFICES ASSUME NEW page, Tree(page), Outline(page) = Outline(pre)
             PROVE  /\ Replay(page, es).applied /\ Tree(Replay(page, es).page)
                    /\ Close(Outline(Replay(page, es).page), a, {})
  BY DEF Repeats
<1>1. Traced(o, Outline(page), es)
  OBVIOUS
<1>2. Replay(page, es).applied /\ Tree(Replay(page, es).page) /\ Outline(Replay(page, es).page) = o[Len(es)]
  BY <1>1, TracedReplay
<1> QED
  BY <1>2

-----------------------------------------------------------------------------
(***************************************************************************)
(* No box without an ink.                                                  *)
(***************************************************************************)
Inked(a) ==
    \A b \in DOMAIN a.node : a.node[b].kind = "box" =>
        \E x \in DOMAIN a.node : a.node[x].kind = "ink" /\ a.up[x] = b
Lined(s) == \A i \in 1..Len(s) : Inked(Outline(s[i].pre)) /\ Inked(Outline(s[i].post))
\* On the page and on every page undo and redo go to.
Filled(d) == Inked(Outline(d.page)) /\ Lined(d.undo) /\ Lined(d.redo)

\* Outlines alike are both inked, or not.
LEMMA AlikeInked ==
  ASSUME NEW a, NEW b, Alike(b, a), Inked(a)
  PROVE  Inked(b)
BY DEF Alike, Inked

\* The rings as entries are taken off them and put on.
LEMMA LinedFront ==
  ASSUME NEW s, s \in Seq(Range(s)), s # << >>, Lined(s)
  PROVE  /\ Lined(Front(s)) /\ Inked(Outline(Last(s).pre)) /\ Inked(Outline(Last(s).post))
<1>1. /\ Len(s) \in Nat /\ Len(s) \in 1..Len(s) /\ Last(s) = s[Len(s)]
      /\ Len(Front(s)) = Len(s) - 1
      /\ \A i \in 1..(Len(s) - 1) : Front(s)[i] = s[i]
  BY FrontIs
<1>2. \A i \in 1..(Len(s) - 1) : i \in 1..Len(s)
  BY <1>1
<1> QED
  BY <1>1, <1>2 DEF Lined
LEMMA LinedAppend ==
  ASSUME NEW s, s \in Seq(Range(s)), Lined(s), NEW e, Inked(Outline(e.pre)), Inked(Outline(e.post))
  PROVE  Lined(Append(s, e))
<1>1. PICK t : t = Append(s, e)
  OBVIOUS
<1>2. /\ Len(t) = Len(s) + 1 /\ Len(s) \in Nat
      /\ t[Len(s) + 1] = e /\ \A i \in 1..Len(s) : t[i] = s[i]
  BY <1>1, AppendEnd
<1>3. ASSUME NEW i \in 1..(Len(s) + 1) PROVE Inked(Outline(t[i].pre)) /\ Inked(Outline(t[i].post))
  <2>1. i \in 1..Len(s) \/ i = Len(s) + 1
    BY <1>2
  <2> QED
    BY <1>2, <2>1 DEF Lined
<1> QED
  BY <1>1, <1>2, <1>3 DEF Lined

\* The rings of a document are sequences of entries.
LEMMA RingsAre ==
  ASSUME NEW d, DocOK(d)
  PROVE  /\ d.undo \in Seq(Range(d.undo)) /\ d.redo \in Seq(Range(d.redo))
         /\ d.undo # << >> => DOMAIN Last(d.undo) = EntryFields
         /\ d.redo # << >> => DOMAIN Last(d.redo) = EntryFields
<1>1. Past(d.undo, d.page, d.next) /\ Future(d.redo, d.page, d.next)
  BY DEF DocOK, Rings
<1>2. d.undo \in Seq(Range(d.undo)) /\ d.redo \in Seq(Range(d.redo))
  BY <1>1 DEF Past, Future
<1>3. d.undo # << >> => DOMAIN Last(d.undo) = EntryFields
  <2> HAVE d.undo # << >>
  <2>1. Len(d.undo) \in 1..Len(d.undo) /\ Last(d.undo) = d.undo[Len(d.undo)]
    BY <1>2, FrontIs
  <2> QED
    BY <1>1, <2>1 DEF Past, Behind, Good
<1>4. d.redo # << >> => DOMAIN Last(d.redo) = EntryFields
  <2> HAVE d.redo # << >>
  <2>1. Len(d.redo) \in 1..Len(d.redo) /\ Last(d.redo) = d.redo[Len(d.redo)]
    BY <1>2, FrontIs
  <2> QED
    BY <1>1, <2>1 DEF Future, Ahead, Good
<1> QED
  BY <1>2, <1>3, <1>4

\* Undo and redo go to pages the rings hold, and lose none of those.
LEMMA UndoFills ==
  ASSUME NEW d, DocOK(d), Filled(d), NEW new, new = UndoNow(d)
  PROVE  Filled(new)
<1>1. CASE d.undo = << >>
  BY <1>1 DEF UndoNow
<1>2. CASE d.undo # << >>
  <2>1. PICK e : e = Last(d.undo)
    OBVIOUS
  <2>2. /\ new.undo = Front(d.undo) /\ new.redo = Append(d.redo, Turned(e)) /\ Outline(new.page) = Outline(e.pre)
    BY <1>2, <2>1, UndoIs
  <2>3. d.undo \in Seq(Range(d.undo)) /\ d.redo \in Seq(Range(d.redo)) /\ DOMAIN e = EntryFields
    BY <1>2, <2>1, RingsAre
  <2>4. Lined(Front(d.undo)) /\ Inked(Outline(e.pre)) /\ Inked(Outline(e.post))
    BY <1>2, <2>1, <2>3, LinedFront DEF Filled
  <2>5. Lined(Append(d.redo, Turned(e)))
    BY <2>3, <2>4, LinedAppend, TurnedIs DEF Filled
  <2> QED
    BY <2>2, <2>4, <2>5 DEF Filled
<1> QED
  BY <1>1, <1>2
LEMMA RedoFills ==
  ASSUME NEW d, DocOK(d), Filled(d), NEW new, new = RedoNow(d)
  PROVE  Filled(new)
<1>1. CASE d.redo = << >>
  BY <1>1 DEF RedoNow
<1>2. CASE d.redo # << >>
  <2>1. PICK e : e = Last(d.redo)
    OBVIOUS
  <2>2. /\ new.redo = Front(d.redo) /\ new.undo = Append(d.undo, Turned(e)) /\ Outline(new.page) = Outline(e.post)
    BY <1>2, <2>1, RedoIs
  <2>3. d.undo \in Seq(Range(d.undo)) /\ d.redo \in Seq(Range(d.redo)) /\ DOMAIN e = EntryFields
    BY <1>2, <2>1, RingsAre
  <2>4. Lined(Front(d.redo)) /\ Inked(Outline(e.pre)) /\ Inked(Outline(e.post))
    BY <1>2, <2>1, <2>3, LinedFront DEF Filled
  <2>5. Lined(Append(d.undo, Turned(e)))
    BY <2>3, <2>4, LinedAppend, TurnedIs DEF Filled
  <2> QED
    BY <2>2, <2>4, <2>5 DEF Filled
<1> QED
  BY <1>1, <1>2

\* A commit between inked pages.
LEMMA FollowedFills ==
  ASSUME NEW d, d.undo \in Seq(Range(d.undo)), Lined(d.undo), NEW pre, Inked(Outline(pre)),
         NEW run, Sound(Outline(run)), Inked(Outline(run)), NEW new, Followed(d, pre, run, new)
  PROVE  Filled(new)
<1>1. PICK c : Taken(c, d, pre, run) /\ (new = c \/ new = UndoNow(c))
  BY DEF Followed
<1>2. PICK e, marks :
         /\ c.undo = Append(d.undo, e) /\ e.pre = pre /\ e.post = c.page
         /\ Stamps(marks, DOMAIN Outline(run).node)
         /\ Outline(c.page) = Refresh(Stamp(Outline(run), marks))
  BY <1>1 DEF Taken
<1>3. Inked(Outline(c.page))
  <2>1. Alike(Outline(c.page), Outline(run))
    BY <1>2, LandsAlike
  <2> QED
    BY <2>1, AlikeInked
<1>4. Lined(c.undo)
  BY <1>2, <1>3, LinedAppend
<1>5. DocOK(c) /\ Lined(c.redo)
  BY <1>1 DEF Taken, Lined
<1>6. Filled(c)
  BY <1>3, <1>4, <1>5 DEF Filled
<1> QED
  BY <1>1, <1>5, <1>6, UndoFills

\* A commit of one edit, and one of parts.
LEMMA LandsFills ==
  ASSUME NEW d, DocOK(d), Filled(d), NEW a, Inked(a), NEW new, Lands(d, a, new)
  PROVE  Filled(new)
<1>1. PICK run : Outline(run) = a /\ Sound(a) /\ Followed(d, d.page, run, new)
  BY DEF Lands
<1>2. d.undo \in Seq(Range(d.undo))
  BY RingsAre
<1>3. PICK pre : pre = d.page
  OBVIOUS
<1> QED
  BY <1>1, <1>2, <1>3, FollowedFills DEF Filled
LEMMA PartsFill ==
  ASSUME NEW d, DocOK(d), Filled(d), NEW es, NEW r, r = RunParts(d.page, es),
         r.ok => Sound(Outline(r.page)) /\ Inked(Outline(r.page)), NEW new, PartsDo(d, es, new), ~new.stuck
  PROVE  Filled(new)
<1>1. d.undo \in Seq(Range(d.undo))
  BY RingsAre
<1>2. PICK pre, run : pre = d.page /\ run = r.page
  OBVIOUS
<1> QED
  BY <1>1, <1>2, FollowedFills DEF Filled, PartsDo

-----------------------------------------------------------------------------
(***************************************************************************)
(* Parts that take nodes away: an inked page stays so when every box that  *)
(* loses its inks goes, too.                                               *)
(***************************************************************************)
Takes(es, i) == i \in 1..Len(es) /\ es[i].kind = "remove_node"
Removed(es) == {es[i].id : i \in {j \in 1..Len(es) : Takes(es, j)}}
\* a the outline when the first k parts have run on P.
Culled(a, P, es, k) ==
    /\ \A x \in DOMAIN a.node \ DOMAIN P.node : a.node[x].kind = "ink"
    /\ \A x \in DOMAIN a.node \cap DOMAIN P.node : a.node[x].kind = P.node[x].kind /\ a.up[x] = P.up[x]
    /\ DOMAIN P.node \ DOMAIN a.node \subseteq Below(P.up, Removed(es))
    /\ \A j \in 1..k : Takes(es, j) => Below(P.up, {es[j].id}) \cap DOMAIN a.node = {}

\* Every outline on the way is one of a page.
LEMMA TracedSound ==
  ASSUME NEW page, Tree(page), NEW es, Len(es) \in Nat, NEW o, Traced(o, Outline(page), es)
  PROVE  \A i \in 0..Len(es) : Sound(o[i])
<1>1. PICK n : n = Len(es)
  OBVIOUS
<1>2. o[0] = Outline(page) /\ \A i \in 1..n : Fits(o[i - 1], es[i]) /\ o[i] = After(o[i - 1], es[i])
  BY <1>1 DEF Traced
<1> DEFINE Q(i) == i <= n => \E p : Tree(p) /\ Outline(p) = o[i]
<1>3. Q(0)
  BY <1>2
<1>4. ASSUME NEW i \in Nat, Q(i) PROVE Q(i + 1)
  <2> SUFFICES ASSUME i + 1 <= n PROVE \E p : Tree(p) /\ Outline(p) = o[i + 1]
    OBVIOUS
  <2>1. PICK k, e : k = i + 1 /\ e = es[k]
    OBVIOUS
  <2>2. k \in 1..n /\ k - 1 = i /\ i <= n
    BY <1>1, <2>1
  <2>3. PICK p : Tree(p) /\ Outline(p) = o[i]
    BY <1>4, <2>2
  <2>4. Fits(Outline(p), e) /\ o[k] = After(Outline(p), e)
    BY <1>2, <2>1, <2>2, <2>3
  <2>5. Made(Apply(p, e), o[k])
    BY <2>3, <2>4, ApplyFits
  <2> QED
    BY <2>1, <2>5 DEF Made
<1>5. \A i \in Nat : Q(i)
  <2> HIDE DEF Q
  <2>1. PICK S : S = {i \in Nat : Q(i)}
    OBVIOUS
  <2>3. 0 \in S /\ \A i \in Nat : i \in S => i + 1 \in S
    BY <1>3, <1>4, <2>1
  <2>2. Nat \subseteq S
    BY <2>3, InductionSet
  <2> QED
    BY <2>1, <2>2
<1>6. ASSUME NEW i \in 0..n PROVE Sound(o[i])
  <2>1. PICK p : Tree(p) /\ Outline(p) = o[i]
    BY <1>5, <1>6
  <2> QED
    BY <2>1, TreeIs
<1> QED
  BY <1>1, <1>6

\* A part that brings an ink, and one that sets a field.
LEMMA CullGrow ==
  ASSUME NEW a, NEW P, Sound(P), NEW es, NEW k \in Nat \ {0}, Culled(a, P, es, k - 1), ~Takes(es, k),
         NEW b, DOMAIN a.node \subseteq DOMAIN b.node, 
         \A x \in DOMAIN a.node : b.node[x].kind = a.node[x].kind /\ b.up[x] = a.up[x],
         \A x \in DOMAIN b.node \ DOMAIN a.node : x \notin DOMAIN P.node /\ b.node[x].kind = "ink"
  PROVE  Culled(b, P, es, k)
<1>1. ASSUME NEW j \in 1..k, Takes(es, j) PROVE Below(P.up, {es[j].id}) \cap DOMAIN b.node = {}
  <2>1. j \in 1..(k - 1)
    BY <1>1
  <2>2. Below(P.up, {es[j].id}) \cap DOMAIN a.node = {}
    BY <1>1, <2>1 DEF Culled
  <2>3. Below(P.up, {es[j].id}) \subseteq DOMAIN P.node
    BY SoundIs
  <2> QED
    BY <2>2, <2>3
<1>2. \A x \in DOMAIN b.node \ DOMAIN P.node : b.node[x].kind = "ink"
  BY DEF Culled
<1>3. \A x \in DOMAIN b.node \cap DOMAIN P.node : b.node[x].kind = P.node[x].kind /\ b.up[x] = P.up[x]
  BY DEF Culled
<1>4. DOMAIN P.node \ DOMAIN b.node \subseteq Below(P.up, Removed(es))
  BY DEF Culled
<1> QED
  BY <1>1, <1>2, <1>3, <1>4 DEF Culled

\* A removal.
LEMMA CullPrune ==
  ASSUME NEW a, Sound(a), NEW P, Sound(P), NEW es, NEW k \in Nat \ {0}, Culled(a, P, es, k - 1),
         Takes(es, k), NEW t, t = es[k].id, t \in DOMAIN P.node, NEW b, b = Pruned(a, {t})
  PROVE  Culled(b, P, es, k)
<1>1. PICK gone : gone = Below(a.up, {t})
  OBVIOUS
<1>2. /\ DOMAIN b.node = DOMAIN a.node \ gone
      /\ \A x \in DOMAIN a.node \ gone : b.node[x] = a.node[x] /\ b.up[x] = a.up[x]
  BY <1>1 DEF Pruned, Restrict
<1>3. /\ DOMAIN a.up = DOMAIN a.node /\ DOMAIN P.up = DOMAIN P.node
      /\ Root \notin DOMAIN a.node /\ Root \notin DOMAIN P.node
      /\ \A x \in DOMAIN P.node : P.up[x] \in DOMAIN P.node \cup {Root}
      /\ \A x \in DOMAIN a.node : a.up[x] \in DOMAIN a.node \cup {Root}
  BY SoundIs
<1>4. /\ \A x \in DOMAIN a.node \cap DOMAIN P.node : a.up[x] = P.up[x]
      /\ DOMAIN P.node \ DOMAIN a.node \subseteq Below(P.up, Removed(es))
  BY DEF Culled
<1>5. t \in Removed(es)
  BY DEF Removed, Takes
<1>6. gone \cap DOMAIN P.node \subseteq Below(P.up, Removed(es))
  <2>1. PICK T : T = Below(P.up, Removed(es)) \cup (DOMAIN a.node \ DOMAIN P.node)
    OBVIOUS
  <2>2. {t} \cap DOMAIN a.up \subseteq T
    BY <1>3, <1>5, <2>1, BelowIs
  <2>3. ASSUME NEW z \in DOMAIN a.up, a.up[z] \in T PROVE z \in T
    <3>1. CASE z \notin DOMAIN P.node
      BY <1>3, <2>1, <3>1
    <3>2. CASE z \in DOMAIN P.node
      <4>1. P.up[z] \in T /\ P.up[z] \in DOMAIN P.node \cup {Root}
        BY <1>3, <1>4, <2>3, <3>2
      <4>2. Below(P.up, Removed(es)) \subseteq DOMAIN P.node
        BY SoundIs
      <4>3. P.up[z] \in Below(P.up, Removed(es))
        BY <1>3, <2>1, <4>1, <4>2
      <4> QED
        BY <1>3, <2>1, <3>2, <4>3, BelowIs
    <3> QED
      BY <3>1, <3>2
  <2>4. gone \subseteq T
    BY <1>1, <2>2, <2>3, BelowLeast
  <2> QED
    BY <2>1, <2>4
<1>7. Below(P.up, {t}) \cap DOMAIN b.node = {}
  <2>1. PICK T : T = gone \cup (DOMAIN P.node \ DOMAIN a.node)
    OBVIOUS
  <2>2. {t} \cap DOMAIN P.up \subseteq T
    BY <1>1, <1>3, <2>1, BelowIs
  <2>3. ASSUME NEW z \in DOMAIN P.up, P.up[z] \in T PROVE z \in T
    <3>1. CASE z \notin DOMAIN a.node
      BY <1>3, <2>1, <3>1
    <3>2. CASE z \in DOMAIN a.node
      <4>1. a.up[z] \in T /\ a.up[z] \in DOMAIN a.node \cup {Root}
        BY <1>3, <1>4, <2>3, <3>2
      <4>2. gone \subseteq DOMAIN a.node
        BY <1>1, SoundIs
      <4>3. a.up[z] \in gone
        BY <1>3, <2>1, <4>1, <4>2
      <4> QED
        BY <1>1, <1>3, <2>1, <3>2, <4>3, BelowIs
    <3> QED
      BY <3>1, <3>2
  <2>4. Below(P.up, {t}) \subseteq T
    BY <2>2, <2>3, BelowLeast
  <2> QED
    BY <1>2, <2>1, <2>4
<1>8. ASSUME NEW j \in 1..k, Takes(es, j) PROVE Below(P.up, {es[j].id}) \cap DOMAIN b.node = {}
  <2>1. CASE j = k
    BY <1>7, <2>1
  <2>2. CASE j # k
    <3>1. j \in 1..(k - 1)
      BY <2>2
    <3>2. Below(P.up, {es[j].id}) \cap DOMAIN a.node = {}
      BY <1>8, <3>1 DEF Culled
    <3> QED
      BY <1>2, <3>2
  <2> QED
    BY <2>1, <2>2
<1>12. \A x \in DOMAIN a.node \ DOMAIN P.node : a.node[x].kind = "ink"
  BY DEF Culled
<1>9. \A x \in DOMAIN b.node \ DOMAIN P.node : b.node[x].kind = "ink"
  BY <1>2, <1>12
<1>10. \A x \in DOMAIN b.node \cap DOMAIN P.node : b.node[x].kind = P.node[x].kind /\ b.up[x] = P.up[x]
  BY <1>2 DEF Culled
<1>11. DOMAIN P.node \ DOMAIN b.node \subseteq Below(P.up, Removed(es))
  BY <1>2, <1>4, <1>6
<1> QED
  BY <1>8, <1>9, <1>10, <1>11 DEF Culled

\* Each part.
LEMMA CullStep ==
  ASSUME NEW a, Sound(a), NEW P, Sound(P), NEW es, NEW k \in 1..Len(es), Culled(a, P, es, k - 1),
         NEW e, e = es[k], PartOK(P, e), e.kind # "restore", Fits(a, e), NEW b, b = After(a, e)
  PROVE  Culled(b, P, es, k)
<1>0. k \in Nat \ {0} /\ DOMAIN a.up = DOMAIN a.node
  BY SoundIs
<1>1. CASE e.kind = "remove_node"
  <2>1. b = Pruned(a, {e.id}) /\ e.id \in DOMAIN P.node /\ Takes(es, k)
    BY <1>1 DEF After, PartOK, Takes
  <2> QED
    BY <1>0, <2>1, CullPrune
<1>2. CASE e.kind = "append_ink"
  <2>1. /\ e.id \notin DOMAIN P.node /\ e.rec \in InkNode /\ b = Planted(a, Alone(e.id, e.rec), Home(a, e))
        /\ e.id \notin DOMAIN a.node /\ ~Takes(es, k)
    BY <1>2 DEF After, AfterAppend, PartOK, Takes, Fits, FitsAppend, Has, Ids
  <2>2. PICK c : c = Alone(e.id, e.rec)
    OBVIOUS
  <2>3. DOMAIN c.node = {e.id} /\ c.node[e.id].kind = "ink"
    BY <2>1, <2>2 DEF Alone, InkNode
  <2>4. /\ DOMAIN b.node = DOMAIN a.node \cup {e.id} /\ b.node[e.id] = c.node[e.id]
        /\ \A x \in DOMAIN a.node : b.node[x] = a.node[x] /\ b.up[x] = a.up[x]
    BY <2>1, <2>2, <2>3 DEF Planted
  <2>5. \A x \in DOMAIN b.node \ DOMAIN a.node : x \notin DOMAIN P.node /\ b.node[x].kind = "ink"
    BY <2>1, <2>3, <2>4
  <2> QED
    BY <1>0, <2>1, <2>4, <2>5, CullGrow
<1>3. CASE e.kind = "set_ink_samples" \/ e.kind = "set_endpoint_ink"
  <2>1. ~Takes(es, k)
    BY <1>3 DEF Takes
  <2>2. DOMAIN b.node = DOMAIN a.node /\ b.up = a.up /\ \A x \in DOMAIN a.node : b.node[x].kind = a.node[x].kind
    <3>1. CASE e.kind = "set_ink_samples"
      <4>1. b = AfterSamples(a, e) /\ Of(a, e.id, "ink")
        BY <3>1 DEF After, Fits, FitsSamples
      <4>2. \A n : Resampled(n, e).kind = n.kind
        BY DEF Resampled
      <4> QED
        BY <4>1, <4>2 DEF AfterSamples
    <3>2. CASE e.kind = "set_endpoint_ink"
      <4>1. b = AfterEndpoint(a, e)
        BY <3>2 DEF After
      <4> QED
        BY <4>1 DEF AfterEndpoint
    <3> QED
      BY <1>3, <3>1, <3>2
  <2> QED
    BY <1>0, <2>1, <2>2, CullGrow
<1> QED
  BY <1>1, <1>2, <1>3 DEF PartOK

\* All parts.
LEMMA CullRun ==
  ASSUME NEW page, Tree(page), NEW P, P = Outline(page), NEW M, NEW es, Bits(P, es, M), NEW r, r = RunParts(page, es), r.ok
  PROVE  Tree(r.page) /\ Culled(Outline(r.page), P, es, Len(es))
<1>1. /\ es \in Seq(Range(es)) /\ (\A i \in DOMAIN es : PartOK(P, es[i]) /\ es[i].kind # "restore")
      /\ \A i, j \in DOMAIN es : i # j => Makes(es[i]) \cap Makes(es[j]) = {}
  BY DEF Bits, Bit
<1>2. PICK n : n = Len(es)
  OBVIOUS
<1>3. n \in Nat /\ DOMAIN es = 1..n /\ Sound(P)
  BY <1>1, <1>2, TreeIs
<1>4. PartsOK(P, es)
  BY <1>1 DEF PartsOK
<1>5. Tree(r.page) /\ \E o : Traced(o, P, es) /\ o[n] = Outline(r.page)
  BY <1>2, <1>4, PartsRun
<1>6. PICK o : Traced(o, P, es) /\ o[n] = Outline(r.page)
  BY <1>5
<1>7. \A i \in 0..n : Sound(o[i])
  BY <1>2, <1>3, <1>6, TracedSound
<1>8. o[0] = P /\ \A i \in 1..n : Fits(o[i - 1], es[i]) /\ o[i] = After(o[i - 1], es[i])
  BY <1>2, <1>6 DEF Traced
<1> DEFINE Q(i) == i <= n => Culled(o[i], P, es, i)
<1>9. Q(0)
  BY <1>8 DEF Culled
<1>10. ASSUME NEW i \in Nat, Q(i) PROVE Q(i + 1)
  <2> SUFFICES ASSUME i + 1 <= n PROVE Culled(o[i + 1], P, es, i + 1)
    OBVIOUS
  <2>1. PICK k, a, e : k = i + 1 /\ a = o[i] /\ e = es[k]
    OBVIOUS
  <2>2. k \in 1..n /\ k - 1 = i /\ i \in 0..n
    BY <1>3, <2>1
  <2>3. Sound(a) /\ Culled(a, P, es, k - 1)
    BY <1>7, <1>10, <2>1, <2>2
  <2>4. Fits(a, e) /\ o[k] = After(a, e) /\ PartOK(P, e) /\ e.kind # "restore"
    BY <1>1, <1>3, <1>8, <2>1, <2>2
  <2>5. Culled(o[k], P, es, k)
    BY <1>2, <1>3, <2>1, <2>2, <2>3, <2>4, CullStep
  <2> QED
    BY <2>1, <2>5
<1>11. Q(n)
  <2> HIDE DEF Q
  <2>1. PICK S : S = {i \in Nat : Q(i)}
    OBVIOUS
  <2>2. Nat \subseteq S
    BY <1>9, <1>10, <2>1, InductionSet
  <2> QED
    BY <1>3, <2>1, <2>2
<1> QED
  BY <1>2, <1>3, <1>5, <1>6, <1>11

\* A box of P goes with one that is removed, or keeps an ink.
Spares(P, R) ==
    \A b \in DOMAIN P.node : P.node[b].kind = "box" =>
        b \in Below(P.up, R) \/ \E x \in DOMAIN P.node \ R : P.node[x].kind = "ink" /\ P.up[x] = b
LEMMA CullInked ==
  ASSUME NEW P, Sound(P), NEW es, NEW k, k = Len(es), NEW a, Culled(a, P, es, k), Spares(P, Removed(es))
  PROVE  Inked(a)
<1>1. PICK R : R = Removed(es)
  OBVIOUS
<1>2. DOMAIN P.up = DOMAIN P.node
  BY SoundIs
<1>3. /\ \A x \in DOMAIN a.node \ DOMAIN P.node : a.node[x].kind = "ink"
      /\ \A x \in DOMAIN a.node \cap DOMAIN P.node : a.node[x].kind = P.node[x].kind /\ a.up[x] = P.up[x]
      /\ DOMAIN P.node \ DOMAIN a.node \subseteq Below(P.up, R)
  BY <1>1 DEF Culled
<1>4. Below(P.up, R) \cap DOMAIN a.node = {}
  <2>1. SUFFICES ASSUME NEW y \in Below(P.up, R), y \in DOMAIN a.node PROVE FALSE
    OBVIOUS
  <2>4. y \in UNION {Below(P.up, {t}) : t \in R \cap DOMAIN P.up}
    BY <2>1, BelowUnion
  <2>2. PICK t \in R : y \in Below(P.up, {t})
    BY <2>4
  <2>3. PICK j \in 1..Len(es) : Takes(es, j) /\ t = es[j].id
    BY <1>1, <2>2 DEF Removed
  <2> QED
    BY <2>1, <2>2, <2>3 DEF Culled
<1>5. ASSUME NEW b \in DOMAIN a.node, a.node[b].kind = "box"
      PROVE  \E x \in DOMAIN a.node : a.node[x].kind = "ink" /\ a.up[x] = b
  <2>1. b \in DOMAIN P.node /\ P.node[b].kind = "box"
    BY <1>3, <1>5
  <2>2. b \notin Below(P.up, R)
    BY <1>4, <1>5
  <2>3. PICK x \in DOMAIN P.node \ R : P.node[x].kind = "ink" /\ P.up[x] = b
    BY <1>1, <2>1, <2>2 DEF Spares
  <2>4. x \notin Below(P.up, R)
    BY <2>2, <2>3, BelowIs
  <2>5. x \in DOMAIN a.node
    BY <1>3, <2>4
  <2> QED
    BY <1>3, <2>3, <2>5
<1> QED
  BY <1>5 DEF Inked

=============================================================================
