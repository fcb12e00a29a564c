------------------------- MODULE StreamFramesProofs --------------------------
(***************************************************************************)
(* What the operators of StreamFrames compute, for units of every size,    *)
(* and that its variables always hold what their descriptions say.  The    *)
(* recursive functions are reasoned about step by step: Recursion shows    *)
(* that a function defined from its value at 0 exists, Induction that what *)
(* each step keeps is true of all of them.                                 *)
(***************************************************************************)
EXTENDS StreamFrames, FiniteSetTheorems, SequenceTheorems, TLAPS

(* Induction over the numbers up to n, for the set of those a claim is true of. *)
LEMMA Induction ==
  ASSUME NEW n \in Nat, NEW S, 0 \in S, \A k \in 0..(n - 1) : k \in S => k + 1 \in S
  PROVE  0..n \subseteq S
<1> DEFINE Bad == (0..n) \ S
           T == {0..k : k \in Bad}
           R == StrictSubsetOrdering(0..n)
<1> SUFFICES ASSUME Bad # {} PROVE FALSE
  OBVIOUS
<1>1. IsWellFoundedOn(R, FiniteSubsetsOf(0..n))
  BY FS_StrictSubsetOrderingWellFounded
<1>2. T \subseteq FiniteSubsetsOf(0..n) /\ T # {}
  <2>1. ASSUME NEW k \in Bad PROVE 0..k \in FiniteSubsetsOf(0..n)
    <3>1. IsFiniteSet(0..k) /\ 0..k \subseteq 0..n
      BY FS_Interval
    <3> QED BY <3>1 DEF FiniteSubsetsOf
  <2> QED BY <2>1
<1>3. PICK t \in T : \A u \in T : ~(<<u, t>> \in R)
  <2> HIDE DEF T, R
  <2> QED BY <1>1, <1>2, WFMin
<1>4. PICK k \in Bad : t = 0..k
  OBVIOUS
<1>5. k - 1 \in Bad
  BY <1>4
<1>6. <<0..(k - 1), 0..k>> \in R
  BY <1>4, <1>5 DEF StrictSubsetOrdering
<1> QED BY <1>3, <1>4, <1>5, <1>6

(* v takes the n steps, from b on. *)
Takes(v, n, b, step) == v[0] = b /\ \A k \in 1..n : v[k] = step[k][v[k - 1]]

(* A function defined step by step from its value at 0 exists. *)
LEMMA Recursion ==
  ASSUME NEW n \in Nat, NEW V, NEW b \in V, NEW step \in [1..n -> [V -> V]]
  PROVE  \E v \in [0..n -> V] : Takes(v, n, b, step)
<1> DEFINE Rec(v, m) == v[0] = b /\ \A k \in 1..m : v[k] = step[k][v[k - 1]]
           Good == {m \in 0..n : \E v \in [0..n -> V] : Rec(v, m)}
<1>1. 0 \in Good
  <2> DEFINE w == [k \in 0..n |-> b]
  <2>1. w \in [0..n -> V] /\ w[0] = b
    OBVIOUS
  <2>2. Rec(w, 0)
    BY <2>1
  <2> HIDE DEF w, Rec
  <2> QED BY <2>1, <2>2
<1>2. ASSUME NEW m \in 0..(n - 1), m \in Good PROVE m + 1 \in Good
  <2>1. PICK v \in [0..n -> V] : Rec(v, m)
    BY <1>2
  <2> DEFINE w == [v EXCEPT ![m + 1] = step[m + 1][v[m]]]
  <2>2. m + 1 \in 1..n /\ m \in 0..n
    OBVIOUS
  <2>3. step[m + 1][v[m]] \in V
    BY <2>2
  <2>4. w \in [0..n -> V]
    BY <2>3
  <2>5. w[m + 1] = step[m + 1][v[m]] /\ \A k \in 0..m : w[k] = v[k]
    BY <2>2
  <2>6. w[0] = b
    BY <2>1, <2>5
  <2>7. ASSUME NEW k \in 1..(m + 1) PROVE w[k] = step[k][w[k - 1]]
    <3>1. CASE k = m + 1
      BY <3>1, <2>5
    <3>2. CASE k \in 1..m
      BY <3>2, <2>1, <2>5
    <3> QED BY <3>1, <3>2
  <2>8. Rec(w, m + 1)
    BY <2>6, <2>7
  <2> HIDE DEF w, Rec
  <2> QED BY <2>2, <2>4, <2>8
<1>3. 0..n \subseteq Good
  <2> HIDE DEF Good
  <2> QED BY <1>1, <1>2, Induction
<1> QED BY <1>3 DEF Takes

(* v joins the first n sequences of f, from g on. *)
Joins(v, f, g, n) == v[0] = << >> /\ \A k \in 1..n : v[k] = v[k - 1] \o f[g + k - 1]

(* Join is the only function of its recursion. *)
LEMMA JoinUnique ==
  ASSUME NEW f, NEW g \in Int, NEW n \in Nat, NEW v, Joins(v, f, g, n)
  PROVE  \A m \in 0..n : Join(f, g, g + m) = v[m]
<1> SUFFICES ASSUME NEW m \in 0..n PROVE Join(f, g, g + m) = v[m]
  OBVIOUS
<1>0. v[0] = << >> /\ \A k \in 1..n : v[k] = v[k - 1] \o f[g + k - 1]
  BY DEF Joins
<1> DEFINE Body(u) == [k \in 0..m |-> IF k = 0 THEN << >> ELSE u[k - 1] \o f[g + k - 1]]
           u0 == [k \in 0..m |-> v[k]]
           w == CHOOSE u : u = Body(u)
<1>1. u0 = Body(u0)
  <2>1. ASSUME NEW k \in 0..m PROVE u0[k] = Body(u0)[k]
    <3>1. CASE k = 0
      BY <3>1, <1>0
    <3>2. CASE k # 0
      <4>1. k \in 1..n /\ k - 1 \in 0..m
        BY <3>2
      <4> QED BY <3>2, <4>1, <1>0
    <3> QED BY <3>1, <3>2
  <2> QED BY <2>1
<1>2. w = Body(w)
  <2> HIDE DEF Body
  <2> QED BY <1>1
<1>3. Join(f, g, g + m) = w[m]
  <2>1. (g + m) - g = m
    OBVIOUS
  <2> QED BY <2>1 DEF Join
<1> HIDE DEF w
<1>a. \A k \in 0..m : w[k] = IF k = 0 THEN << >> ELSE w[k - 1] \o f[g + k - 1]
  <2>1. \A k \in 0..m : Body(w)[k] = IF k = 0 THEN << >> ELSE w[k - 1] \o f[g + k - 1]
    OBVIOUS
  <2> HIDE DEF Body
  <2> QED BY <1>2, <2>1
<1> DEFINE Same == {j \in 0..m : w[j] = v[j]}
<1>4. 0 \in Same
  <2>1. w[0] = << >>
    BY <1>a
  <2> QED BY <2>1, <1>0
<1>5. ASSUME NEW j \in 0..(m - 1), j \in Same PROVE j + 1 \in Same
  <2>1. j + 1 \in 0..m /\ j + 1 \in 1..n /\ j + 1 # 0 /\ (j + 1) - 1 = j /\ j \in 0..m
    OBVIOUS
  <2>2. w[j + 1] = w[j] \o f[g + (j + 1) - 1]
    BY <1>a, <2>1
  <2>3. v[j + 1] = v[j] \o f[g + (j + 1) - 1]
    BY <2>1, <1>0
  <2> QED BY <2>1, <2>2, <2>3, <1>5
<1>6. 0..m \subseteq Same
  <2> HIDE DEF Same
  <2> QED BY <1>4, <1>5, Induction
<1> QED BY <1>3, <1>6

(* The first n from g on are sequences over S. *)
AreSeqs(f, g, n, S) == \A k \in 1..n : f[g + k - 1] \in Seq(S)

(* What Join makes, one sequence at a time *)
LEMMA JoinIs ==
  ASSUME NEW S, NEW g \in Int, NEW n \in Nat, NEW f, AreSeqs(f, g, n, S)
  PROVE  /\ Join(f, g, g) = << >>
         /\ \A m \in 0..n : Join(f, g, g + m) \in Seq(S)
         /\ \A m \in 1..n : Join(f, g, g + m) = Join(f, g, g + m - 1) \o f[g + m - 1]
<1>0. \A k \in 1..n : f[g + k - 1] \in Seq(S)
  BY DEF AreSeqs
<1> DEFINE step == [k \in 1..n |-> [s \in Seq(S) |-> s \o f[g + k - 1]]]
<1>1. << >> \in Seq(S)
  OBVIOUS
<1>2. step \in [1..n -> [Seq(S) -> Seq(S)]]
  <2>1. ASSUME NEW k \in 1..n, NEW s \in Seq(S) PROVE s \o f[g + k - 1] \in Seq(S)
    BY <1>0, ConcatProperties
  <2> QED BY <2>1
<1>3. PICK v \in [0..n -> Seq(S)] : Takes(v, n, << >>, step)
  <2> HIDE DEF step
  <2> QED BY <1>1, <1>2, Recursion
<1>4. v[0] = << >> /\ \A k \in 1..n : v[k] = v[k - 1] \o f[g + k - 1]
  <2>1. v[0] = << >> /\ \A k \in 1..n : v[k] = step[k][v[k - 1]]
    BY <1>3 DEF Takes
  <2>2. ASSUME NEW k \in 1..n PROVE v[k] = v[k - 1] \o f[g + k - 1]
    <3>1. v[k - 1] \in Seq(S)
      OBVIOUS
    <3> QED BY <3>1, <2>1
  <2> QED BY <2>1, <2>2
<1>5. \A m \in 0..n : Join(f, g, g + m) = v[m]
  <2>1. Joins(v, f, g, n)
    BY <1>4 DEF Joins
  <2> QED BY <2>1, JoinUnique
<1>6. Join(f, g, g) = << >>
  <2>1. g + 0 = g /\ 0 \in 0..n
    OBVIOUS
  <2> QED BY <1>4, <1>5, <2>1
<1>7. ASSUME NEW m \in 1..n PROVE Join(f, g, g + m) = Join(f, g, g + m - 1) \o f[g + m - 1]
  <2>1. Join(f, g, g + (m - 1)) = v[m - 1] /\ g + (m - 1) = g + m - 1
    BY <1>5
  <2>2. m \in 0..n
    OBVIOUS
  <2> QED BY <1>4, <1>5, <2>1, <2>2
<1> QED BY <1>5, <1>6, <1>7

(* All from g to the one before h are sequences over S. *)
AllSeqs(f, g, h, S) == \A i \in g..(h - 1) : f[i] \in Seq(S)

(* Join from one sequence to the next *)
LEMMA JoinFacts ==
  ASSUME NEW S, NEW f, NEW g \in Int, NEW h \in Int, g <= h, AllSeqs(f, g, h, S)
  PROVE  /\ Join(f, g, g) = << >>
         /\ \A i \in g..h : Join(f, g, i) \in Seq(S)
         /\ \A i \in g..(h - 1) :
              /\ Join(f, g, i + 1) = Join(f, g, i) \o f[i]
              /\ Len(Join(f, g, i + 1)) = Len(Join(f, g, i)) + Len(f[i])
<1> DEFINE n == h - g
<1>1. n \in Nat /\ AreSeqs(f, g, n, S)
  BY DEF AreSeqs, AllSeqs
<1> HIDE DEF n
<1>2. /\ Join(f, g, g) = << >>
      /\ \A m \in 0..n : Join(f, g, g + m) \in Seq(S)
      /\ \A m \in 1..n : Join(f, g, g + m) = Join(f, g, g + m - 1) \o f[g + m - 1]
  BY <1>1, JoinIs, ZenonT(40)
<1>3. \A i \in g..h : Join(f, g, i) \in Seq(S)
  <2> TAKE i \in g..h
  <2>1. i - g \in 0..n /\ g + (i - g) = i
    BY DEF n
  <2> QED BY <2>1, <1>2
<1>4. ASSUME NEW i \in g..(h - 1)
      PROVE  /\ Join(f, g, i + 1) = Join(f, g, i) \o f[i]
             /\ Len(Join(f, g, i + 1)) = Len(Join(f, g, i)) + Len(f[i])
  <2>1. i - g + 1 \in 1..n /\ g + (i - g + 1) = i + 1 /\ g + (i - g + 1) - 1 = i /\ i \in g..h
    BY DEF n
  <2>2. Join(f, g, g + (i - g + 1)) = Join(f, g, g + (i - g + 1) - 1) \o f[g + (i - g + 1) - 1]
    BY <2>1, <1>2
  <2>3. Join(f, g, i + 1) = Join(f, g, i) \o f[i]
    BY <2>1, <2>2
  <2>4. Join(f, g, i) \in Seq(S) /\ f[i] \in Seq(S)
    BY <2>1, <1>3 DEF AllSeqs
  <2> QED BY <2>3, <2>4, ConcatProperties
<1> QED BY <1>2, <1>3, <1>4

(* Join looks at no other sequences than those it joins. *)
LEMMA JoinSame ==
  ASSUME NEW S, NEW f, NEW e, NEW g \in Int, NEW h \in Int, g <= h, AllSeqs(f, g, h, S),
         \A i \in g..(h - 1) : e[i] = f[i]
  PROVE  Join(e, g, h) = Join(f, g, h)
<1> DEFINE n == h - g
           v == [k \in 0..n |-> Join(f, g, g + k)]
<1>1. n \in Nat /\ g + n = h /\ g + 0 = g
  OBVIOUS
<1>2. AreSeqs(f, g, n, S) /\ \A k \in 1..n : e[g + k - 1] = f[g + k - 1]
  BY DEF AreSeqs, AllSeqs
<1> HIDE DEF n
<1>3. /\ Join(f, g, g) = << >>
      /\ \A m \in 1..n : Join(f, g, g + m) = Join(f, g, g + m - 1) \o f[g + m - 1]
  <2>1. AreSeqs(f, g, n, S) /\ n \in Nat
    BY <1>1, <1>2
  <2>2. /\ Join(f, g, g) = << >>
        /\ \A m \in 0..n : Join(f, g, g + m) \in Seq(S)
        /\ \A m \in 1..n : Join(f, g, g + m) = Join(f, g, g + m - 1) \o f[g + m - 1]
    BY <2>1, JoinIs, ZenonT(40)
  <2> QED BY <2>2
<1>4. Joins(v, e, g, n)
  <2>1. v[0] = << >>
    BY <1>1, <1>3
  <2>2. ASSUME NEW k \in 1..n PROVE v[k] = v[k - 1] \o e[g + k - 1]
    <3>1. k \in 0..n /\ k - 1 \in 0..n /\ g + (k - 1) = g + k - 1
      BY <1>1
    <3>2. v[k] = Join(f, g, g + k) /\ v[k - 1] = Join(f, g, g + k - 1)
      BY <3>1
    <3> QED BY <3>2, <1>2, <1>3
  <2> HIDE DEF v
  <2> QED BY <2>1, <2>2 DEF Joins
<1>5. Join(e, g, g + n) = v[n]
  <2> HIDE DEF v
  <2>1. \A m \in 0..n : Join(e, g, g + m) = v[m]
    BY <1>1, <1>4, JoinUnique
  <2>2. n \in 0..n
    BY <1>1
  <2> QED BY <2>1, <2>2
<1> QED BY <1>1, <1>5

(* What was joined first stays in front. *)
LEMMA JoinPrefix ==
  ASSUME NEW S, NEW f, NEW g \in Int, NEW h \in Int, g <= h, AllSeqs(f, g, h, S),
         NEW i \in g..h
  PROVE  /\ Len(Join(f, g, i)) \in Nat /\ Len(Join(f, g, h)) \in Nat
         /\ Len(Join(f, g, i)) <= Len(Join(f, g, h))
         /\ \A p \in 1..Len(Join(f, g, i)) : Join(f, g, h)[p] = Join(f, g, i)[p]
<1>1. /\ \A k \in g..h : Join(f, g, k) \in Seq(S)
      /\ \A k \in g..(h - 1) : Join(f, g, k + 1) = Join(f, g, k) \o f[k]
  BY JoinFacts
<1> DEFINE J(k) == Join(f, g, k)
           n == h - i
           P == {m \in 0..n : /\ Len(J(i)) <= Len(J(i + m))
                              /\ \A p \in 1..Len(J(i)) : J(i + m)[p] = J(i)[p]}
<1>2. \A k \in g..h : J(k) \in Seq(S) /\ Len(J(k)) \in Nat
  BY <1>1
<1>3. \A k \in g..(h - 1) : J(k + 1) = J(k) \o f[k]
  BY <1>1
<1> HIDE DEF J
<1>4. 0 \in P
  <2>1. i + 0 = i /\ n \in Nat
    OBVIOUS
  <2> QED BY <2>1, <1>2
<1>5. ASSUME NEW m \in 0..(n - 1), m \in P PROVE m + 1 \in P
  <2>1. i + m \in g..(h - 1) /\ i + m \in g..h /\ i + (m + 1) = (i + m) + 1
    OBVIOUS
  <2>2. J(i + m) \in Seq(S) /\ f[i + m] \in Seq(S) /\ J(i + (m + 1)) = J(i + m) \o f[i + m]
    BY <2>1, <1>2, <1>3 DEF AllSeqs
  <2>3. /\ Len(J(i + (m + 1))) = Len(J(i + m)) + Len(f[i + m])
        /\ \A p \in 1..Len(J(i + m)) : J(i + (m + 1))[p] = J(i + m)[p]
        /\ Len(f[i + m]) \in Nat /\ Len(J(i + m)) \in Nat /\ Len(J(i)) \in Nat
    <3> DEFINE s == J(i + m)
               t == f[i + m]
    <3>1. s \in Seq(S) /\ t \in Seq(S) /\ J(i + (m + 1)) = s \o t
      BY <2>2
    <3>2. Len(s) \in Nat /\ Len(t) \in Nat /\ Len(J(i)) \in Nat
      BY <3>1, <1>2
    <3> HIDE DEF s, t
    <3>3. /\ Len(s \o t) = Len(s) + Len(t)
          /\ \A p \in 1..Len(s) : (s \o t)[p] = s[p]
      BY <3>1, <3>2, ConcatProperties
    <3> QED BY <3>1, <3>2, <3>3 DEF s, t
  <2>4. Len(J(i)) <= Len(J(i + m)) /\ \A p \in 1..Len(J(i)) : J(i + m)[p] = J(i)[p]
    BY <1>5
  <2>5. Len(J(i)) <= Len(J(i + (m + 1)))
    <3> DEFINE a == Len(J(i))
               b == Len(J(i + m))
               c == Len(J(i + (m + 1)))
               d == Len(f[i + m])
    <3>1. a \in Nat /\ b \in Nat /\ d \in Nat /\ a <= b /\ c = b + d
      BY <2>3, <2>4
    <3> HIDE DEF a, b, c, d
    <3>2. a <= c
      BY <3>1
    <3> QED BY <3>2 DEF a, c
  <2>6. \A p \in 1..Len(J(i)) : J(i + (m + 1))[p] = J(i)[p]
    <3> TAKE p \in 1..Len(J(i))
    <3>1. p \in 1..Len(J(i + m))
      BY <2>3, <2>4
    <3> QED BY <2>3, <2>4, <3>1
  <2> QED BY <2>5, <2>6
<1>6. n \in Nat /\ i + n = h
  OBVIOUS
<1>7. 0..n \subseteq P
  <2> HIDE DEF P, n
  <2> QED BY <1>4, <1>5, <1>6, Induction
<1>8. n \in P
  <2>1. n \in 0..n
    BY <1>6
  <2> HIDE DEF P, n
  <2> QED BY <1>7, <2>1
<1> QED BY <1>2, <1>6, <1>8 DEF J

(* The i-th sequence lies in the joined one, behind those before it. *)
Lies(f, g, h, i) ==
  \A p \in 1..Len(f[i]) :
    /\ Len(Join(f, g, i)) + p \in 1..Len(Join(f, g, h))
    /\ Join(f, g, h)[Len(Join(f, g, i)) + p] = f[i][p]

(* Join puts it there. *)
LEMMA JoinCell ==
  ASSUME NEW S, NEW f, NEW g \in Int, NEW h \in Int, g <= h, AllSeqs(f, g, h, S),
         NEW i \in g..(h - 1)
  PROVE  Lies(f, g, h, i)
<1> SUFFICES ASSUME NEW p \in 1..Len(f[i])
             PROVE  /\ Len(Join(f, g, i)) + p \in 1..Len(Join(f, g, h))
                    /\ Join(f, g, h)[Len(Join(f, g, i)) + p] = f[i][p]
  BY DEF Lies
<1> DEFINE J(k) == Join(f, g, k)
           q == Len(J(i)) + p
<1>1. J(i) \in Seq(S) /\ f[i] \in Seq(S) /\ J(i + 1) = J(i) \o f[i]
  <2>1. i \in g..h /\ f[i] \in Seq(S)
    BY DEF AllSeqs
  <2>2. Join(f, g, i) \in Seq(S) /\ Join(f, g, i + 1) = Join(f, g, i) \o f[i]
    BY <2>1, JoinFacts
  <2> QED BY <2>1, <2>2
<1>2. /\ Len(J(i + 1)) \in Nat /\ Len(J(h)) \in Nat
      /\ Len(J(i + 1)) <= Len(J(h)) /\ \A r \in 1..Len(J(i + 1)) : J(h)[r] = J(i + 1)[r]
  <2>1. i + 1 \in g..h
    OBVIOUS
  <2> HIDE DEF J
  <2> QED BY <2>1, JoinPrefix DEF J
<1> HIDE DEF J
<1>3. Len(J(i + 1)) = Len(J(i)) + Len(f[i]) /\ Len(J(i)) \in Nat /\ Len(f[i]) \in Nat
  BY <1>1, ConcatProperties
<1>4. q \in 1..Len(J(i + 1)) /\ q \in 1..Len(J(h))
  BY <1>2, <1>3
<1>5. J(i + 1)[q] = f[i][p]
  <2>1. q \in 1..(Len(J(i)) + Len(f[i])) /\ ~(q <= Len(J(i))) /\ q - Len(J(i)) = p
    BY <1>3
  <2>2. (J(i) \o f[i])[q] = IF q <= Len(J(i)) THEN J(i)[q] ELSE f[i][q - Len(J(i))]
    BY <1>1, <2>1, ConcatProperties
  <2> QED BY <1>1, <2>1, <2>2
<1> QED BY <1>2, <1>4, <1>5 DEF J

-----------------------------------------------------------------------------
(* What is known of the constants *)
LEMMA Constants ==
  /\ Block \in Nat \ {0} /\ RecvMax \in Nat \ {0} /\ PesRest \in Nat /\ MaxNal \in Nat
  /\ MaxFaults \in Nat /\ PesWide \in Nat /\ PesMax \in Nat \ {0} /\ PesMax + PesRest < PesWide
  /\ \A nal \in Nal : nal.type \in NalType /\ nal.size \in Nat \ {0}
BY FramesAssumption DEF PesMax

(* The number of parts is enough, and none of them is empty. *)
LEMMA PartsIs ==
  ASSUME NEW n \in Nat, NEW m \in Nat \ {0}
  PROVE  /\ Parts(n, m) \in Nat
         /\ n <= Parts(n, m) * m
         /\ \A k \in 1..Parts(n, m) : (k - 1) * m \in Nat /\ (k - 1) * m < n
         /\ n > 0 => Parts(n, m) > 0
<1> DEFINE q == (n + m - 1) \div m
<1>1. q \in Int /\ q * m <= n + m - 1 /\ n + m - 1 < (q + 1) * m
  BY Z3
<1>2. q \in Nat /\ n <= q * m /\ \A k \in 1..q : (k - 1) * m \in Nat /\ (k - 1) * m < n
  BY <1>1
<1>3. n > 0 => q > 0
  <2> SUFFICES ASSUME n > 0, q = 0 PROVE FALSE
    BY <1>2
  <2>1. q * m = 0
    <3> HIDE DEF q
    <3> QED BY Z3
  <2> QED BY <2>1, <1>2
<1> HIDE DEF q
<1> QED BY <1>2, <1>3 DEF q, Parts

(* The k-th part lies behind those before it, and they are as long as can be. *)
LEMMA PartIs ==
  ASSUME NEW n \in Nat, NEW m \in Nat \ {0}, NEW k \in 1..Parts(n, m)
  PROVE  /\ (k - 1) * m \in Nat /\ (k - 1) * m < n /\ k * m = (k - 1) * m + m
         /\ Least(k * m, n) \in Nat /\ Least(k * m, n) <= n /\ (k - 1) * m < Least(k * m, n)
         /\ Least(k * m, n) <= (k - 1) * m + m
         /\ Least((k - 1) * m, n) = (k - 1) * m
         /\ k = Parts(n, m) => Least(k * m, n) = n
<1>1. Parts(n, m) \in Nat /\ n <= Parts(n, m) * m /\ (k - 1) * m \in Nat /\ (k - 1) * m < n
  BY PartsIs
<1>2. k * m = (k - 1) * m + m
  <2>1. k \in Int /\ m \in Int
    BY <1>1
  <2> QED BY <2>1
<1> DEFINE a == (k - 1) * m
           b == k * m
<1>3. a \in Nat /\ a < n /\ b = a + m /\ (k = Parts(n, m) => n <= b)
  BY <1>1, <1>2
<1> HIDE DEF a, b
<1>4. /\ Least(b, n) \in Nat /\ Least(b, n) <= n /\ a < Least(b, n) /\ Least(b, n) <= a + m
      /\ Least(a, n) = a
      /\ k = Parts(n, m) => Least(b, n) = n
  BY <1>3 DEF Least
<1> QED BY <1>3, <1>4 DEF a, b

(* A piece of data *)
LEMMA DataIs ==
  ASSUME NEW i \in Nat, NEW a \in Nat, NEW b \in Nat, a <= b + 1
  PROVE  /\ Data(i, a, b) \in Seq({c \in Cell : c.tag = "data"})
         /\ Len(Data(i, a, b)) = b - a + 1
         /\ \A k \in 1..(b - a + 1) : Data(i, a, b)[k] = [tag |-> "data", nal |-> i, n |-> a + k - 1]
<1> DEFINE n == b - a + 1
<1>1. n \in Nat
  OBVIOUS
<1>2. \A k \in 1..n : [tag |-> "data", nal |-> i, n |-> a + k - 1] \in {c \in Cell : c.tag = "data"}
  BY DEF Cell
<1>3. Data(i, a, b) = [k \in 1..n |-> [tag |-> "data", nal |-> i, n |-> a + k - 1]]
  BY DEF Data
<1> HIDE DEF n
<1>4. Data(i, a, b) \in [1..n -> {c \in Cell : c.tag = "data"}]
  BY <1>2, <1>3
<1>5. Data(i, a, b) \in Seq({c \in Cell : c.tag = "data"}) /\ Len(Data(i, a, b)) = n
  BY <1>1, <1>4
<1> QED BY <1>3, <1>5 DEF n

(* Two pieces, one behind the other *)
LEMMA DataJoins ==
  ASSUME NEW i \in Nat, NEW a \in Nat, NEW b \in Nat, a <= b
  PROVE  Data(i, 1, a) \o Data(i, a + 1, b) = Data(i, 1, b)
<1> DEFINE C == {c \in Cell : c.tag = "data"}
           s == Data(i, 1, a)
           t == Data(i, a + 1, b)
           u == Data(i, 1, b)
           d(k) == [tag |-> "data", nal |-> i, n |-> k]
<1>1. s \in Seq(C) /\ Len(s) = a /\ \A k \in 1..a : s[k] = d(k)
  <2>1. 1 \in Nat /\ 1 <= a + 1
    OBVIOUS
  <2>2. /\ s \in Seq(C) /\ Len(s) = a - 1 + 1
        /\ \A k \in 1..(a - 1 + 1) : s[k] = d(1 + k - 1)
    BY <2>1, DataIs, ZenonT(40)
  <2> QED BY <2>2
<1>2. t \in Seq(C) /\ Len(t) = b - a /\ \A k \in 1..(b - a) : t[k] = d(a + k)
  <2>1. a + 1 \in Nat /\ a + 1 <= b + 1
    OBVIOUS
  <2>2. /\ t \in Seq(C) /\ Len(t) = b - (a + 1) + 1
        /\ \A k \in 1..(b - (a + 1) + 1) : t[k] = d(a + 1 + k - 1)
    BY <2>1, DataIs, ZenonT(40)
  <2> QED BY <2>2
<1>3. u \in Seq(C) /\ Len(u) = b /\ \A k \in 1..b : u[k] = d(k)
  <2>1. 1 \in Nat /\ 1 <= b + 1
    OBVIOUS
  <2>2. /\ u \in Seq(C) /\ Len(u) = b - 1 + 1
        /\ \A k \in 1..(b - 1 + 1) : u[k] = d(1 + k - 1)
    BY <2>1, DataIs, ZenonT(40)
  <2> QED BY <2>2
<1> HIDE DEF s, t, u, d, C
<1>4. /\ s \o t \in Seq(C) /\ Len(s \o t) = Len(s) + Len(t)
      /\ \A k \in 1..(Len(s) + Len(t)) : (s \o t)[k] = IF k <= Len(s) THEN s[k] ELSE t[k - Len(s)]
  BY <1>1, <1>2, ConcatProperties
<1>5. Len(s \o t) = b
  BY <1>1, <1>2, <1>4
<1>6. ASSUME NEW k \in 1..b PROVE (s \o t)[k] = u[k]
  <2>1. (s \o t)[k] = IF k <= a THEN s[k] ELSE t[k - a]
    BY <1>1, <1>2, <1>4
  <2>2. CASE k <= a
    BY <2>1, <2>2, <1>1, <1>3
  <2>3. CASE ~(k <= a)
    <3>1. k - a \in 1..(b - a) /\ a + (k - a) = k
      BY <2>3
    <3> QED BY <2>1, <2>3, <3>1, <1>2, <1>3
  <2> QED BY <2>2, <2>3
<1>7. s \o t = u
  BY <1>3, <1>4, <1>5, <1>6, SeqEqual
<1> QED BY <1>7 DEF s, t, u

(* Cells that start no frame *)
Inner == {c \in Cell : c.tag # "BA"}

(* The unit's PES packets, and how much of it is in the first k *)
Packets(i, size) == [k \in 1..Parts(size, PesMax) |-> PesPacket(i, size, k)]
Upto(size, k) == Least(k * PesMax, size)

(* A PES packet announces the data it carries. *)
LEMMA PesPacketIs ==
  ASSUME NEW i \in Nat, NEW size \in Nat, NEW k \in 1..Parts(size, PesMax)
  PROVE  /\ Upto(size, k - 1) \in Nat /\ Upto(size, k) \in Nat
         /\ Upto(size, k - 1) < Upto(size, k) /\ Upto(size, k) <= size
         /\ k = Parts(size, PesMax) => Upto(size, k) = size
         /\ LET m == Upto(size, k) - Upto(size, k - 1)
                data == Data(i, Upto(size, k - 1) + 1, Upto(size, k))
            IN  /\ data \in Seq({c \in Cell : c.tag = "data"}) /\ Len(data) = m
                /\ PesPacket(i, size, k) = <<[tag |-> "E0", nal |-> 0, n |-> m + PesRest]>> \o data
                /\ PesPacket(i, size, k) \in Seq(Inner)
                /\ Len(PesPacket(i, size, k)) = m + 1
                /\ PesPacket(i, size, k)[1] = [tag |-> "E0", nal |-> 0, n |-> m + PesRest]
                /\ \A q \in 1..m : PesPacket(i, size, k)[q + 1] = data[q]
<1> DEFINE a == Upto(size, k - 1)
           b == Upto(size, k)
           m == b - a
           data == Data(i, a + 1, b)
           head == [tag |-> "E0", nal |-> 0, n |-> m + PesRest]
<1>1. PesMax \in Nat \ {0} /\ PesRest \in Nat /\ PesWide \in Nat /\ PesMax + PesRest < PesWide
  BY Constants
<1>2. /\ a = (k - 1) * PesMax /\ a \in Nat /\ a < size /\ b \in Nat /\ b <= size /\ a < b
      /\ b <= a + PesMax /\ (k = Parts(size, PesMax) => b = size)
  <2>1. /\ (k - 1) * PesMax \in Nat /\ (k - 1) * PesMax < size
        /\ Least(k * PesMax, size) \in Nat /\ Least(k * PesMax, size) <= size
        /\ (k - 1) * PesMax < Least(k * PesMax, size)
        /\ Least(k * PesMax, size) <= (k - 1) * PesMax + PesMax
        /\ Least((k - 1) * PesMax, size) = (k - 1) * PesMax
        /\ k = Parts(size, PesMax) => Least(k * PesMax, size) = size
    BY <1>1, PartIs
  <2> QED BY <2>1 DEF Upto
<1>3. m \in 1..PesMax
  BY <1>1, <1>2
<1>4. PesHeader(b - (a + 1) + 1) = head
  <2>1. b - (a + 1) + 1 = m
    BY <1>2
  <2>2. (m + PesRest) % PesWide = m + PesRest
    <3>1. m + PesRest \in 0..(PesWide - 1)
      BY <1>1, <1>3
    <3> HIDE DEF m
    <3> QED BY <1>1, <3>1
  <2> QED BY <2>1, <2>2 DEF PesHeader
<1>5. data \in Seq({c \in Cell : c.tag = "data"}) /\ Len(data) = m
  <2>1. a + 1 \in Nat /\ a + 1 <= b + 1 /\ b \in Nat
    BY <1>2
  <2>2. data \in Seq({c \in Cell : c.tag = "data"}) /\ Len(data) = b - (a + 1) + 1
    BY <2>1, DataIs, ZenonT(40)
  <2> QED BY <2>2, <1>2
<1>6. PesPacket(i, size, k) = <<head>> \o data
  BY <1>2, <1>4 DEF PesPacket, Upto
<1>7. head \in Inner /\ data \in Seq(Inner)
  <2>1. m + PesRest \in Nat
    BY <1>1, <1>3
  <2>2. head \in Inner
    BY <2>1 DEF Inner, Cell
  <2>3. {c \in Cell : c.tag = "data"} \subseteq Inner
    BY DEF Inner
  <2> HIDE DEF head, data
  <2> QED BY <2>2, <2>3, <1>5, SeqMonotonic
<1> HIDE DEF a, b, m, data, head
<1>8. /\ PesPacket(i, size, k) \in Seq(Inner)
      /\ Len(PesPacket(i, size, k)) = m + 1
      /\ PesPacket(i, size, k)[1] = head
      /\ \A q \in 1..m : PesPacket(i, size, k)[q + 1] = data[q]
  <2>1. <<head>> \in Seq(Inner) /\ Len(<<head>>) = 1 /\ <<head>>[1] = head
    BY <1>7
  <2> DEFINE s == <<head>>
  <2> HIDE DEF s
  <2>2. /\ s \o data \in Seq(Inner) /\ Len(s \o data) = Len(s) + Len(data)
        /\ \A q \in 1..(Len(s) + Len(data)) : (s \o data)[q] = IF q <= Len(s) THEN s[q] ELSE data[q - Len(s)]
    BY <2>1, <1>7, ConcatProperties DEF s
  <2>3. Len(s) = 1 /\ s[1] = head
    BY <2>1 DEF s
  <2>4. m \in Nat
    BY <1>3
  <2>5. (s \o data)[1] = head
    BY <2>2, <2>3, <2>4, <1>5
  <2>6. ASSUME NEW q \in 1..m PROVE (s \o data)[q + 1] = data[q]
    BY <2>2, <2>3, <2>4, <1>5
  <2> QED BY <2>2, <2>3, <2>4, <2>5, <2>6, <1>5, <1>6 DEF s
<1> QED BY <1>2, <1>5, <1>6, <1>8 DEF a, b, m, data, head

(* The PES packets of a unit, as Join sees them *)
LEMMA PacketsAre ==
  ASSUME NEW i \in Nat, NEW size \in Nat
  PROVE  /\ Parts(size, PesMax) \in Nat
         /\ AllSeqs(Packets(i, size), 1, Parts(size, PesMax) + 1, Inner)
         /\ addPesHeader(i, size) = Join(Packets(i, size), 1, Parts(size, PesMax) + 1)
         /\ addPesHeader(i, size) \in Seq(Inner)
         /\ size > 0 => addPesHeader(i, size) # << >>
<1> DEFINE n == Parts(size, PesMax)
           f == Packets(i, size)
<1>1. n \in Nat /\ (size > 0 => n > 0)
  BY Constants, PartsIs
<1>2. \A k \in 1..n : f[k] = PesPacket(i, size, k)
  BY DEF Packets
<1>3. AllSeqs(f, 1, n + 1, Inner)
  <2>1. ASSUME NEW k \in 1..n PROVE f[k] \in Seq(Inner)
    <3>1. k \in 1..Parts(size, PesMax)
      OBVIOUS
    <3>2. PesPacket(i, size, k) \in Seq(Inner)
      BY <3>1, PesPacketIs
    <3> QED BY <3>2, <1>2
  <2> HIDE DEF n, f
  <2> QED BY <2>1, <1>1 DEF AllSeqs
<1>4. addPesHeader(i, size) = Join(f, 1, n + 1)
  BY DEF addPesHeader, Packets
<1>5. 1 \in Int /\ n + 1 \in Int /\ 1 <= n + 1
  BY <1>1
<1> HIDE DEF n, f
<1>6. /\ Join(f, 1, n + 1) \in Seq(Inner)
      /\ \A k \in 1..n : Join(f, 1, k) \in Seq(Inner) /\ Join(f, 1, k + 1) = Join(f, 1, k) \o f[k]
  <2>1. /\ \A k \in 1..(n + 1) : Join(f, 1, k) \in Seq(Inner)
        /\ \A k \in 1..((n + 1) - 1) : Join(f, 1, k + 1) = Join(f, 1, k) \o f[k]
    BY <1>3, <1>5, JoinFacts
  <2> QED BY <2>1, <1>1
<1>7. ASSUME size > 0 PROVE Join(f, 1, n + 1) # << >>
  <2>1. n \in 1..n
    BY <1>1, <1>7
  <2>2. f[n] \in Seq(Inner) /\ Len(f[n]) > 0
    <3>1. n \in 1..Parts(size, PesMax)
      BY <2>1 DEF n
    <3> DEFINE d == Upto(size, n) - Upto(size, n - 1)
    <3>2. /\ Upto(size, n) \in Nat /\ Upto(size, n - 1) \in Nat /\ Upto(size, n - 1) < Upto(size, n)
          /\ PesPacket(i, size, n) \in Seq(Inner) /\ Len(PesPacket(i, size, n)) = d + 1
      BY <3>1, PesPacketIs
    <3> QED BY <3>2, <2>1, <1>2
  <2>3. f[n] # << >>
    BY <2>2
  <2> QED BY <2>1, <2>2, <2>3, <1>6, ConcatEqualIffEmpty
<1> QED BY <1>1, <1>3, <1>4, <1>6, <1>7 DEF n, f

(* What is sent for a unit: headers, of which the first opens a frame if the
   unit is an opener, and its PES packets *)
LEMMA MuxIs ==
  ASSUME NEW i \in Nat, NEW nal \in Nal
  PROVE  /\ h264PsMux(i, nal) \in Seq(Cell)
         /\ h264PsMux(i, nal) # << >> <=> nal.type # "other"
         /\ nal.type # "other" =>
              \E head \in Seq(Cell) :
                /\ h264PsMux(i, nal) = head \o addPesHeader(i, nal.size)
                /\ \A p \in 1..Len(head) : head[p].tag # "E0" /\ (head[p].tag = "BA" <=> p = 1)
                /\ head # << >> <=> nal.type \in {"SPS", "PFRAME"}
<1> DEFINE pes == addPesHeader(i, nal.size)
<1>1. nal.type \in NalType /\ nal.size \in Nat /\ nal.size > 0
  BY Constants
<1>2. pes \in Seq(Inner) /\ pes # << >>
  BY <1>1, PacketsAre
<1>3. pes \in Seq(Cell)
  BY <1>2, SeqMonotonic DEF Inner
<1> HIDE DEF pes
<1>4. PsHeader \in Cell /\ SysHeader \in Cell /\ MapHeader \in Cell
  BY DEF Cell, PsHeader, SysHeader, MapHeader
<1> DEFINE Mux(head) == /\ head \in Seq(Cell)
                        /\ h264PsMux(i, nal) = head \o pes
                        /\ \A p \in 1..Len(head) : head[p].tag # "E0" /\ (head[p].tag = "BA" <=> p = 1)
                        /\ head # << >> <=> nal.type \in {"SPS", "PFRAME"}
<1>5. ASSUME NEW head, Mux(head) PROVE h264PsMux(i, nal) \in Seq(Cell) /\ h264PsMux(i, nal) # << >>
  BY <1>2, <1>3, <1>5, ConcatProperties, ConcatEqualIffEmpty
<1>6. CASE nal.type = "SPS"
  <2> DEFINE head == <<PsHeader, SysHeader, MapHeader>>
  <2>1. head \in Seq(Cell) /\ Len(head) = 3 /\ head # << >>
    BY <1>4
  <2>2. head[1] = PsHeader /\ head[2] = SysHeader /\ head[3] = MapHeader
    OBVIOUS
  <2>3. \A p \in 1..3 : head[p].tag # "E0" /\ (head[p].tag = "BA" <=> p = 1)
    <3>1. \A p \in 1..3 : p = 1 \/ p = 2 \/ p = 3
      OBVIOUS
    <3> HIDE DEF head
    <3> QED BY <2>2, <3>1 DEF PsHeader, SysHeader, MapHeader
  <2>4. h264PsMux(i, nal) = head \o pes
    BY <1>6 DEF h264PsMux, pes
  <2>5. Mux(head)
    <3> HIDE DEF head
    <3> QED BY <2>1, <2>3, <2>4, <1>6
  <2> HIDE DEF head
  <2>6. h264PsMux(i, nal) \in Seq(Cell) /\ h264PsMux(i, nal) # << >>
    <3> HIDE DEF Mux
    <3> QED BY <2>5, <1>5
  <2> QED BY <2>5, <2>6, <1>6 DEF pes
<1>7. CASE nal.type = "PFRAME"
  <2> DEFINE head == <<PsHeader>>
  <2>1. head \in Seq(Cell) /\ Len(head) = 1 /\ head # << >> /\ head[1] = PsHeader
    BY <1>4
  <2>2. h264PsMux(i, nal) = head \o pes
    BY <1>7 DEF h264PsMux, pes
  <2>3. Mux(head)
    <3> HIDE DEF head
    <3>1. \A p \in 1..1 : p = 1
      OBVIOUS
    <3> QED BY <2>1, <2>2, <3>1, <1>7 DEF PsHeader
  <2> HIDE DEF head
  <2>4. h264PsMux(i, nal) \in Seq(Cell) /\ h264PsMux(i, nal) # << >>
    <3> HIDE DEF Mux
    <3> QED BY <2>3, <1>5
  <2> QED BY <2>3, <2>4, <1>7 DEF pes
<1>8. CASE nal.type \in {"PPS", "IDR"}
  <2> DEFINE head == << >>
  <2>1. head \in Seq(Cell) /\ Len(head) = 0
    OBVIOUS
  <2>2. h264PsMux(i, nal) = pes
    BY <1>8 DEF h264PsMux, pes
  <2>3. head \o pes = pes
    BY <1>3, ConcatEmptySeq
  <2>4. Mux(head)
    BY <2>1, <2>2, <2>3, <1>8
  <2> HIDE DEF head
  <2>5. h264PsMux(i, nal) \in Seq(Cell) /\ h264PsMux(i, nal) # << >>
    <3> HIDE DEF Mux
    <3> QED BY <2>4, <1>5
  <2> QED BY <2>4, <2>5, <1>8 DEF pes
<1>9. CASE nal.type = "other"
  <2>1. h264PsMux(i, nal) = << >>
    BY <1>9 DEF h264PsMux
  <2> QED BY <2>1, <1>9
<1> QED BY <1>1, <1>6, <1>7, <1>8, <1>9 DEF NalType

-----------------------------------------------------------------------------
(* What the scan of cutPsHeader keeps *)
ScanState == [next : Nat, video : Seq(Cell)]

(* v is the scan of the buffer. *)
Scans(v) == v[0] = [next |-> 1, video |-> << >>] /\ \A p \in 1..len : v[p] = CutCell(v[p - 1], p)

(* What one cell does *)
LEMMA CutCellIs ==
  ASSUME buf \in Seq(Cell), len \in 0..Len(buf), NEW s \in ScanState, NEW p \in 1..len
  PROVE  /\ CutCell(s, p) \in ScanState
         /\ Len(s.video) <= Len(CutCell(s, p).video)
         /\ \A q \in 1..Len(s.video) : CutCell(s, p).video[q] = s.video[q]
<1> DEFINE n == buf[p].n - PesRest
           video == s.video
<1>1. buf[p] \in Cell /\ PesRest \in Nat /\ len \in Nat /\ p \in Nat
  <2>1. p \in 1..Len(buf) /\ Len(buf) \in Nat
    OBVIOUS
  <2> QED BY <2>1, Constants, ElementOfSeq
<1>2. n \in Int
  BY <1>1 DEF Cell
<1>3. s.next \in Nat /\ video \in Seq(Cell) /\ Len(video) \in Nat
  BY DEF ScanState
<1>4. CASE p < s.next \/ buf[p].tag # "E0"
  <2>1. CutCell(s, p) = s
    BY <1>4 DEF CutCell
  <2> QED BY <2>1, <1>3
<1>5. CASE ~(p < s.next \/ buf[p].tag # "E0") /\ (n < 0 \/ n > len \/ Len(video) + n > len)
  <2>1. CutCell(s, p) = [next |-> len + 1, video |-> video]
    BY <1>5 DEF CutCell
  <2>2. len + 1 \in Nat
    BY <1>1
  <2> HIDE DEF video
  <2> QED BY <2>1, <2>2, <1>3 DEF ScanState, video
<1>6. CASE ~(p < s.next \/ buf[p].tag # "E0") /\ ~(n < 0 \/ n > len \/ Len(video) + n > len)
  <2> DEFINE c == Copy(p + 1, n)
  <2>1. CutCell(s, p) = [next |-> p + 1 + n, video |-> video \o c]
    BY <1>6 DEF CutCell
  <2>2. n \in Nat /\ p + 1 + n \in Nat
    BY <1>1, <1>2, <1>6
  <2>3. c \in Seq(Cell)
    <3>1. ASSUME NEW k \in 1..n
          PROVE  (IF p + 1 + k - 1 <= Len(buf) THEN buf[p + 1 + k - 1] ELSE Junk) \in Cell
      <4>1. Junk \in Cell
        BY DEF Junk, Cell
      <4>2. CASE p + 1 + k - 1 <= Len(buf)
        <5>1. p + 1 + k - 1 \in 1..Len(buf)
          BY <2>2, <4>2
        <5> QED BY <4>2, <5>1, ElementOfSeq
      <4> QED BY <4>1, <4>2
    <3> HIDE DEF n
    <3> QED BY <3>1, <2>2 DEF Copy
  <2> HIDE DEF c, n, video
  <2>4. /\ video \o c \in Seq(Cell) /\ Len(video \o c) = Len(video) + Len(c)
        /\ \A q \in 1..(Len(video) + Len(c)) : (video \o c)[q] = IF q <= Len(video) THEN video[q] ELSE c[q - Len(video)]
    BY <2>3, <1>3, ConcatProperties
  <2>5. Len(c) \in Nat
    BY <2>3
  <2>6. Len(video) <= Len(video \o c) /\ \A q \in 1..Len(video) : (video \o c)[q] = video[q]
    BY <2>4, <2>5, <1>3
  <2>7. CutCell(s, p).video = video \o c /\ CutCell(s, p) \in ScanState
    BY <2>1, <2>2, <2>4 DEF ScanState
  <2> QED BY <2>6, <2>7 DEF video
<1> QED BY <1>4, <1>5, <1>6

(* The scan exists, it is the one cutPsHeader names, and it only adds. *)
LEMMA ScanIs ==
  ASSUME buf \in Seq(Cell), len \in 0..Len(buf)
  PROVE  \E v \in [0..len -> ScanState] : Scans(v) /\ cutPsHeader = v[len].video
<1>0. len \in Nat
  OBVIOUS
<1> DEFINE b == [next |-> 1, video |-> << >>]
           step == [p \in 1..len |-> [s \in ScanState |-> CutCell(s, p)]]
           Body(u) == [p \in 0..len |-> IF p = 0 THEN b ELSE CutCell(u[p - 1], p)]
           w == CHOOSE u : u = Body(u)
<1>1. b \in ScanState
  BY DEF ScanState
<1>2. step \in [1..len -> [ScanState -> ScanState]]
  BY CutCellIs
<1>3. PICK v \in [0..len -> ScanState] : Takes(v, len, b, step)
  <2> HIDE DEF b, step
  <2> QED BY <1>0, <1>1, <1>2, Recursion
<1>4. v[0] = b /\ \A p \in 1..len : v[p] = CutCell(v[p - 1], p)
  <2>1. v[0] = b /\ \A p \in 1..len : v[p] = step[p][v[p - 1]]
    <3> HIDE DEF b, step
    <3> QED BY <1>3 DEF Takes
  <2>2. ASSUME NEW p \in 1..len PROVE v[p] = CutCell(v[p - 1], p)
    <3>1. v[p - 1] \in ScanState
      OBVIOUS
    <3> HIDE DEF b
    <3> QED BY <3>1, <2>1
  <2> HIDE DEF b
  <2> QED BY <2>1, <2>2
<1>5. Scans(v)
  BY <1>4 DEF Scans
<1> DEFINE u0 == [p \in 0..len |-> v[p]]
<1>6. u0 = Body(u0)
  <2>1. ASSUME NEW p \in 0..len PROVE u0[p] = Body(u0)[p]
    <3> HIDE DEF b
    <3>1. CASE p = 0
      BY <3>1, <1>4
    <3>2. CASE p # 0
      <4>1. p \in 1..len /\ p - 1 \in 0..len
        BY <3>2
      <4> QED BY <3>2, <4>1, <1>4
    <3> QED BY <3>1, <3>2
  <2> QED BY <2>1
<1>7. w = Body(w)
  <2> HIDE DEF Body
  <2> QED BY <1>6
<1>8. cutPsHeader = w[len].video
  BY DEF cutPsHeader
<1> HIDE DEF w
<1>9. \A p \in 0..len : w[p] = IF p = 0 THEN b ELSE CutCell(w[p - 1], p)
  <2>1. \A p \in 0..len : Body(w)[p] = IF p = 0 THEN b ELSE CutCell(w[p - 1], p)
    OBVIOUS
  <2> HIDE DEF Body, b
  <2> QED BY <1>7, <2>1
<1> HIDE DEF b, Body, u0
<1> DEFINE Same == {p \in 0..len : w[p] = v[p]}
<1>10. 0 \in Same
  BY <1>0, <1>4, <1>9
<1>11. ASSUME NEW p \in 0..(len - 1), p \in Same PROVE p + 1 \in Same
  <2>1. p + 1 \in 0..len /\ p + 1 \in 1..len /\ p + 1 # 0 /\ (p + 1) - 1 = p /\ p \in 0..len
    BY <1>0
  <2> QED BY <2>1, <1>4, <1>9, <1>11
<1>12. 0..len \subseteq Same
  <2> HIDE DEF Same
  <2> QED BY <1>0, <1>10, <1>11, Induction
<1>13. w[len] = v[len]
  BY <1>0, <1>12
<1> QED BY <1>5, <1>8, <1>13

(* The data cut stays in front of what is cut later. *)
LEMMA ScanGrows ==
  ASSUME buf \in Seq(Cell), len \in 0..Len(buf), NEW v \in [0..len -> ScanState], Scans(v),
         NEW p \in 0..len
  PROVE  /\ Len(v[p].video) \in Nat /\ Len(v[len].video) \in Nat
         /\ Len(v[p].video) <= Len(v[len].video)
         /\ \A q \in 1..Len(v[p].video) : v[len].video[q] = v[p].video[q]
<1> DEFINE V(k) == v[k].video
           n == len - p
           P == {m \in 0..n : /\ Len(V(p)) <= Len(V(p + m))
                              /\ \A q \in 1..Len(V(p)) : V(p + m)[q] = V(p)[q]}
<1>0. len \in Nat /\ n \in Nat /\ p + n = len /\ p + 0 = p
  OBVIOUS
<1>1. \A k \in 0..len : Len(V(k)) \in Nat
  BY DEF ScanState
<1>2. \A k \in 1..len : Len(V(k - 1)) <= Len(V(k)) /\ \A q \in 1..Len(V(k - 1)) : V(k)[q] = V(k - 1)[q]
  <2> TAKE k \in 1..len
  <2>1. v[k - 1] \in ScanState /\ v[k] = CutCell(v[k - 1], k)
    BY DEF Scans
  <2> QED BY <2>1, CutCellIs
<1> HIDE DEF V
<1>3. 0 \in P
  BY <1>0, <1>1
<1>4. ASSUME NEW m \in 0..(n - 1), m \in P PROVE m + 1 \in P
  <2>1. p + (m + 1) \in 1..len /\ p + (m + 1) - 1 = p + m /\ p + m \in 0..len /\ p + (m + 1) \in 0..len
    BY <1>0
  <2> DEFINE s == V(p + m)
             t == V(p + (m + 1))
             a == V(p)
  <2>2. Len(s) <= Len(t) /\ \A q \in 1..Len(s) : t[q] = s[q]
    BY <2>1, <1>2
  <2>3. Len(a) <= Len(s) /\ \A q \in 1..Len(a) : s[q] = a[q]
    BY <1>4
  <2>4. Len(a) \in Nat /\ Len(s) \in Nat /\ Len(t) \in Nat
    BY <2>1, <1>1
  <2> HIDE DEF s, t, a
  <2>5. Len(a) <= Len(t) /\ \A q \in 1..Len(a) : t[q] = a[q]
    BY <2>2, <2>3, <2>4
  <2> QED BY <2>5 DEF t, a
<1>5. 0..n \subseteq P
  <2> HIDE DEF P, n
  <2> QED BY <1>0, <1>3, <1>4, Induction
<1>6. n \in P
  <2>1. n \in 0..n
    BY <1>0
  <2> HIDE DEF P, n
  <2> QED BY <1>5, <2>1
<1>7. Len(V(p)) <= Len(V(len)) /\ \A q \in 1..Len(V(p)) : V(len)[q] = V(p)[q]
  BY <1>0, <1>6
<1> QED BY <1>0, <1>1, <1>7 DEF V

(* Cells cut already, and cells that are no PES header, change nothing. *)
LEMMA ScanSkips ==
  ASSUME NEW v, Scans(v), len \in Nat, NEW p \in 0..len, NEW q \in p..len,
         \A r \in (p + 1)..q : r < v[p].next \/ buf[r].tag # "E0"
  PROVE  v[q] = v[p]
<1> DEFINE n == q - p
           P == {m \in 0..n : v[p + m] = v[p]}
<1>0. n \in Nat /\ p + n = q /\ p + 0 = p
  OBVIOUS
<1>1. 0 \in P
  BY <1>0
<1>2. ASSUME NEW m \in 0..(n - 1), m \in P PROVE m + 1 \in P
  <2>1. p + (m + 1) \in (p + 1)..q /\ p + (m + 1) \in 1..len /\ p + (m + 1) - 1 = p + m
    BY <1>0
  <2>2. v[p + (m + 1)] = CutCell(v[p + m], p + (m + 1)) /\ v[p + m] = v[p]
    BY <2>1, <1>2 DEF Scans
  <2>3. p + (m + 1) < v[p].next \/ buf[p + (m + 1)].tag # "E0"
    BY <2>1
  <2>4. CutCell(v[p], p + (m + 1)) = v[p]
    BY <2>3 DEF CutCell
  <2> QED BY <2>2, <2>4
<1>3. 0..n \subseteq P
  <2> HIDE DEF P, n
  <2> QED BY <1>0, <1>1, <1>2, Induction
<1>4. n \in P
  <2>1. n \in 0..n
    BY <1>0
  <2> HIDE DEF P, n
  <2> QED BY <1>3, <2>1
<1> QED BY <1>0, <1>4

(* From position p on the buffer holds the cells of s. *)
Holds(p, s) == p + Len(s) <= len /\ \A q \in 1..Len(s) : buf[p + q] = s[q]

(* The scan stands at p with the data x cut so far. *)
At(v, p, x) == p \in 0..len /\ v[p].next <= p + 1 /\ v[p].video = x /\ Len(x) <= p

(* A PES packet is cut whole. *)
LEMMA CutsPacket ==
  ASSUME buf \in Seq(Cell), len \in 0..Len(buf), NEW v \in [0..len -> ScanState], Scans(v),
         NEW i \in Nat, NEW size \in Nat, NEW k \in 1..Parts(size, PesMax),
         NEW p, NEW x \in Seq(Cell), At(v, p, x), Holds(p, PesPacket(i, size, k))
  PROVE  At(v, p + Len(PesPacket(i, size, k)), x \o Data(i, Upto(size, k - 1) + 1, Upto(size, k)))
<1> DEFINE m == Upto(size, k) - Upto(size, k - 1)
           data == Data(i, Upto(size, k - 1) + 1, Upto(size, k))
           packet == PesPacket(i, size, k)
           P == p + 1
<1>1. /\ m \in Nat /\ m > 0 /\ data \in Seq(Cell) /\ Len(data) = m /\ Len(packet) = m + 1
      /\ packet[1] = [tag |-> "E0", nal |-> 0, n |-> m + PesRest]
      /\ \A q \in 1..m : packet[q + 1] = data[q]
  <2>1. /\ Upto(size, k - 1) \in Nat /\ Upto(size, k) \in Nat /\ Upto(size, k - 1) < Upto(size, k)
        /\ data \in Seq({c \in Cell : c.tag = "data"}) /\ Len(data) = m
        /\ Len(packet) = m + 1
        /\ packet[1] = [tag |-> "E0", nal |-> 0, n |-> m + PesRest]
        /\ \A q \in 1..m : packet[q + 1] = data[q]
    BY PesPacketIs
  <2>2. data \in Seq(Cell)
    <3> HIDE DEF data
    <3>1. {c \in Cell : c.tag = "data"} \subseteq Cell
      OBVIOUS
    <3> QED BY <2>1, <3>1, SeqMonotonic
  <2>3. m \in Nat /\ m > 0
    BY <2>1
  <2> HIDE DEF data, packet, m
  <2> QED BY <2>1, <2>2, <2>3
<1> HIDE DEF m, data, packet
<1>2. len \in Nat /\ p \in Nat /\ PesRest \in Nat /\ len <= Len(buf) /\ Len(buf) \in Nat
  BY Constants DEF At
<1>3. /\ v[p].next <= p + 1 /\ v[p].video = x /\ Len(x) <= p /\ v[p].next \in Nat /\ Len(x) \in Nat
      /\ v[p] \in ScanState
  <2>1. v[p] \in ScanState
    BY DEF At
  <2> QED BY <2>1 DEF At, ScanState
<1>4. p + (m + 1) <= len /\ \A q \in 1..(m + 1) : buf[p + q] = packet[q]
  BY <1>1 DEF Holds, packet
<1>5. P \in 1..len /\ P - 1 = p /\ p + m + 1 \in 0..len
  BY <1>1, <1>2, <1>4
<1>6. buf[P] = [tag |-> "E0", nal |-> 0, n |-> m + PesRest]
  <2>1. 1 \in 1..(m + 1)
    BY <1>1
  <2> QED BY <1>1, <1>4, <2>1
<1>7. buf[P].n - PesRest = m /\ buf[P].tag = "E0"
  BY <1>1, <1>2, <1>6
<1>8. v[P] = [next |-> P + 1 + m, video |-> x \o Copy(P + 1, m)]
  <2>1. v[P] = CutCell(v[p], P)
    BY <1>5 DEF Scans
  <2>2. ~(P < v[p].next)
    BY <1>2, <1>3
  <2>3. ~(m < 0) /\ ~(m > len) /\ ~(Len(x) + m > len)
    BY <1>1, <1>2, <1>3, <1>4
  <2> HIDE DEF P
  <2>4. CutCell(v[p], P) = [next |-> P + 1 + m, video |-> x \o Copy(P + 1, m)]
    BY <1>3, <1>7, <2>2, <2>3 DEF CutCell
  <2> QED BY <2>1, <2>4
<1>9. Copy(P + 1, m) = data
  <2> DEFINE c == Copy(P + 1, m)
  <2>1. ASSUME NEW q \in 1..m
        PROVE  (IF P + 1 + q - 1 <= Len(buf) THEN buf[P + 1 + q - 1] ELSE Junk) = data[q]
    <3>1. P + 1 + q - 1 = p + (q + 1) /\ q + 1 \in 1..(m + 1)
      BY <1>1, <1>2
    <3>2. p + (q + 1) <= Len(buf)
      <4>1. p + (m + 1) <= len /\ m \in Nat
        BY <1>1, <1>4
      <4> QED BY <4>1, <1>2
    <3>3. buf[p + (q + 1)] = packet[q + 1] /\ packet[q + 1] = data[q]
      BY <1>1, <1>4, <3>1
    <3> QED BY <3>1, <3>2, <3>3
  <2>2. c = [q \in 1..m |-> data[q]]
    BY <2>1 DEF Copy
  <2>3. data = [q \in 1..m |-> data[q]]
    BY <1>1
  <2> QED BY <2>2, <2>3
<1>10. v[p + m + 1] = v[P]
  <2>1. ASSUME NEW r \in (P + 1)..(p + m + 1) PROVE r < v[P].next
    <3>1. v[P].next = P + 1 + m
      BY <1>8
    <3> QED BY <3>1, <1>1, <1>2
  <2>2. P \in 0..len /\ p + m + 1 \in P..len
    BY <1>1, <1>2, <1>5
  <2> HIDE DEF P
  <2> QED BY <1>2, <2>1, <2>2, ScanSkips
<1>11. Len(x \o data) = Len(x) + m
  BY <1>1, ConcatProperties
<1>12. p + Len(packet) = p + m + 1
  BY <1>1, <1>2
<1>13. At(v, p + m + 1, x \o data)
  <2>1. v[p + m + 1].next = P + 1 + m /\ v[p + m + 1].video = x \o data
    BY <1>8, <1>9, <1>10
  <2>2. P + 1 + m <= p + m + 1 + 1 /\ Len(x) + m <= p + m + 1
    BY <1>1, <1>2, <1>3
  <2> QED BY <2>1, <2>2, <1>5, <1>11 DEF At
<1> QED BY <1>12, <1>13 DEF data, packet

(* Of two sequences in the buffer each lies in its place. *)
LEMMA HoldsBoth ==
  ASSUME NEW S, NEW s \in Seq(S), NEW t \in Seq(S), NEW p \in Nat, len \in Nat, Holds(p, s \o t)
  PROVE  /\ Holds(p, s) /\ Holds(p + Len(s), t)
         /\ p + Len(s) \in Nat /\ p + Len(s) <= len /\ Len(s \o t) = Len(s) + Len(t)
<1>1. /\ Len(s \o t) = Len(s) + Len(t)
      /\ \A i \in 1..(Len(s) + Len(t)) : (s \o t)[i] = IF i <= Len(s) THEN s[i] ELSE t[i - Len(s)]
  BY ConcatProperties
<1>2. Len(s) \in Nat /\ Len(t) \in Nat
  OBVIOUS
<1> DEFINE a == Len(s)
           b == Len(t)
           u == s \o t
<1>3. a \in Nat /\ b \in Nat /\ Len(u) = a + b /\ p + (a + b) <= len
  BY <1>1, <1>2 DEF Holds
<1>4. \A i \in 1..(a + b) : buf[p + i] = u[i]
  BY <1>1 DEF Holds
<1>5. \A i \in 1..(a + b) : u[i] = IF i <= a THEN s[i] ELSE t[i - a]
  BY <1>1
<1> HIDE DEF a, b, u
<1>6. ASSUME NEW i \in 1..a PROVE buf[p + i] = s[i]
  <2>1. i \in 1..(a + b) /\ i <= a
    BY <1>3
  <2> QED BY <2>1, <1>4, <1>5
<1>7. ASSUME NEW i \in 1..b PROVE buf[(p + a) + i] = t[i]
  <2> DEFINE k == a + i
             r == p + k
  <2>1. k \in 1..(a + b) /\ ~(k <= a) /\ k - a = i /\ r = (p + a) + i
    BY <1>3
  <2> HIDE DEF k
  <2>2. u[k] = t[i]
    BY <2>1, <1>5
  <2>3. buf[r] = u[k]
    BY <2>1, <1>4
  <2> HIDE DEF r
  <2> QED BY <2>1, <2>2, <2>3
<1>8. p + a <= len /\ (p + a) + b <= len /\ p + a \in Nat
  BY <1>3
<1>9. Holds(p, s)
  BY <1>6, <1>8 DEF Holds, a
<1>10. Holds(p + a, t)
  BY <1>7, <1>8 DEF Holds, b
<1> QED BY <1>3, <1>8, <1>9, <1>10 DEF a, b, u

(* A sequence joined with others lies in its place. *)
LEMMA HoldsJoined ==
  ASSUME NEW S, NEW f, NEW g \in Int, NEW h \in Int, g <= h, AllSeqs(f, g, h, S),
         NEW p \in Nat, len \in Nat, Holds(p, Join(f, g, h)), NEW i \in g..(h - 1)
  PROVE  Holds(p + Len(Join(f, g, i)), f[i])
<1> DEFINE a == Len(Join(f, g, i))
           c == Len(Join(f, g, h))
           J == Join(f, g, h)
<1>1. \A q \in 1..Len(f[i]) : a + q \in 1..c /\ J[a + q] = f[i][q]
  BY JoinCell DEF Lies
<1>2. a \in Nat /\ c \in Nat /\ a + Len(f[i]) <= c /\ Len(f[i]) \in Nat
  <2>1. f[i] \in Seq(S)
    BY DEF AllSeqs
  <2>2. i \in g..h /\ i + 1 \in g..h
    OBVIOUS
  <2>3. Len(Join(f, g, i + 1)) = a + Len(f[i])
    BY JoinFacts
  <2>4. a \in Nat /\ c \in Nat
    BY <2>2, JoinPrefix
  <2>5. Len(Join(f, g, i + 1)) <= c
    BY <2>2, JoinPrefix
  <2> DEFINE b == Len(f[i])
             e == Len(Join(f, g, i + 1))
  <2>6. b \in Nat /\ e = a + b /\ e <= c
    BY <2>1, <2>3, <2>5
  <2> HIDE DEF a, c, b, e
  <2> QED BY <2>4, <2>6 DEF b
<1>3. p + c <= len /\ \A q \in 1..c : buf[p + q] = J[q]
  BY DEF Holds
<1> HIDE DEF a, c, J
<1>4. ASSUME NEW q \in 1..Len(f[i]) PROVE buf[(p + a) + q] = f[i][q]
  <2>1. a + q \in 1..c /\ J[a + q] = f[i][q] /\ p + (a + q) = (p + a) + q
    BY <1>1, <1>2
  <2> QED BY <2>1, <1>3
<1>5. (p + a) + Len(f[i]) <= len
  <2> DEFINE b == Len(f[i])
  <2>1. a \in Nat /\ b \in Nat /\ c \in Nat /\ a + b <= c /\ p + c <= len
    BY <1>2, <1>3
  <2> HIDE DEF b
  <2>2. (p + a) + b <= len
    BY <2>1
  <2> QED BY <2>2 DEF b
<1> QED BY <1>4, <1>5 DEF Holds, a

(* Concatenation is associative. *)
LEMMA CellsAssociate ==
  \A r, s, t \in Seq(Cell) : (r \o s) \o t = r \o (s \o t)
BY ConcatAssociative

(* A unit is cut whole. *)
LEMMA CutsUnit ==
  ASSUME buf \in Seq(Cell), len \in 0..Len(buf), NEW v \in [0..len -> ScanState], Scans(v),
         NEW i \in Nat, NEW nal \in Nal, nal.type # "other",
         NEW p, NEW x \in Seq(Cell), At(v, p, x), Holds(p, h264PsMux(i, nal))
  PROVE  At(v, p + Len(h264PsMux(i, nal)), x \o Data(i, 1, nal.size))
<1> DEFINE size == nal.size
           n == Parts(size, PesMax)
           f == Packets(i, size)
           pes == addPesHeader(i, size)
           J(k) == Join(f, 1, k)
           d(k) == Data(i, 1, Upto(size, k))
<1>1. len \in Nat /\ p \in Nat /\ p <= len /\ size \in Nat /\ size > 0
  BY Constants DEF At
<1>2. PICK head \in Seq(Cell) :
        /\ h264PsMux(i, nal) = head \o pes
        /\ \A q \in 1..Len(head) : head[q].tag # "E0"
  BY MuxIs
<1>3. /\ n \in Nat /\ n > 0 /\ AllSeqs(f, 1, n + 1, Inner) /\ pes = J(n + 1) /\ pes \in Seq(Cell)
  <2>1. n \in Nat /\ AllSeqs(f, 1, n + 1, Inner) /\ pes = J(n + 1) /\ pes \in Seq(Inner)
    BY <1>1, PacketsAre
  <2>2. pes \in Seq(Cell)
    <3> HIDE DEF pes
    <3>1. Inner \subseteq Cell
      BY DEF Inner
    <3> QED BY <2>1, <3>1, SeqMonotonic
  <2>3. n > 0
    BY <1>1, Constants, PartsIs
  <2> QED BY <2>1, <2>2, <2>3
<1>4. \A k \in 1..n : f[k] = PesPacket(i, size, k)
  BY DEF Packets
<1> DEFINE p1 == p + Len(head)
<1>5. /\ Holds(p, head) /\ Holds(p1, pes) /\ p1 \in Nat /\ p1 <= len /\ p <= p1
      /\ Len(h264PsMux(i, nal)) = Len(head) + Len(pes) /\ Len(head) \in Nat
  <2> HIDE DEF pes
  <2>1. Len(head) \in Nat
    OBVIOUS
  <2>2. Holds(p, head \o pes)
    BY <1>2
  <2>3. /\ Holds(p, head) /\ Holds(p1, pes) /\ p1 \in Nat /\ p1 <= len
        /\ Len(head \o pes) = Len(head) + Len(pes)
    BY <1>1, <1>3, <2>2, HoldsBoth
  <2> QED BY <2>1, <2>3, <1>1, <1>2
<1>6. At(v, p1, x)
  <2>1. p1 \in p..len /\ p \in 0..len
    BY <1>1, <1>5
  <2>2. ASSUME NEW r \in (p + 1)..p1 PROVE buf[r].tag # "E0"
    <3>1. r - p \in 1..Len(head) /\ p + (r - p) = r
      BY <1>1, <1>5
    <3>2. buf[p + (r - p)] = head[r - p]
      BY <3>1, <1>5 DEF Holds
    <3> QED BY <3>1, <3>2, <1>2
  <2>3. v[p1] = v[p]
    <3> HIDE DEF p1
    <3> QED BY <1>1, <2>1, <2>2, ScanSkips
  <2>4. v[p].next \in Nat /\ Len(x) \in Nat
    BY <2>1 DEF ScanState
  <2> HIDE DEF p1
  <2> QED BY <2>1, <2>3, <2>4, <1>1, <1>5 DEF At
<1> HIDE DEF size, n, f, pes, J, p1
<1> DEFINE P == {k \in 0..n : At(v, p1 + Len(J(k + 1)), x \o d(k))}
<1>7. /\ J(1) = << >> /\ \A k \in 1..(n + 1) : J(k) \in Seq(Inner) /\ Len(J(k)) \in Nat
      /\ \A k \in 1..n : Len(J(k + 1)) = Len(J(k)) + Len(f[k])
      /\ \A k \in 1..n : f[k] \in Seq(Inner) /\ Len(f[k]) \in Nat
  <2>1. 1 \in Int /\ n + 1 \in Int /\ 1 <= n + 1
    BY <1>3
  <2>2. /\ J(1) = << >> /\ \A k \in 1..(n + 1) : J(k) \in Seq(Inner)
        /\ \A k \in 1..((n + 1) - 1) : Len(J(k + 1)) = Len(J(k)) + Len(f[k])
    BY <2>1, <1>3, JoinFacts DEF J
  <2>3. \A k \in 1..n : f[k] \in Seq(Inner)
    BY <1>3 DEF AllSeqs
  <2>4. (n + 1) - 1 = n
    BY <1>3
  <2> QED BY <2>2, <2>3, <2>4
<1>8. 0 \in P
  <2>1. Upto(size, 0) = 0
    <3>1. 0 * PesMax = 0
      BY Constants
    <3> QED BY <3>1, <1>1 DEF Upto, Least
  <2>2. d(0) = << >>
    <3>1. 1 \in Nat /\ 0 \in Nat /\ 1 <= 0 + 1
      OBVIOUS
    <3>2. Data(i, 1, 0) \in Seq({c \in Cell : c.tag = "data"}) /\ Len(Data(i, 1, 0)) = 0 - 1 + 1
      BY <3>1, DataIs
    <3>3. Data(i, 1, 0) = << >>
      BY <3>2
    <3> QED BY <3>3, <2>1
  <2>3. x \o d(0) = x
    BY <2>2, ConcatEmptySeq
  <2>4. p1 + Len(J(0 + 1)) = p1
    <3>1. J(0 + 1) = << >>
      BY <1>7
    <3>2. Len(J(0 + 1)) = 0
      BY <3>1
    <3> DEFINE y == Len(J(0 + 1))
    <3>3. y = 0
      BY <3>2
    <3> HIDE DEF y
    <3>4. p1 + y = p1
      BY <3>3, <1>5
    <3> QED BY <3>4 DEF y
  <2> HIDE DEF d
  <2>5. At(v, p1 + Len(J(0 + 1)), x \o d(0))
    BY <2>3, <2>4, <1>6
  <2> QED BY <2>5, <1>3
<1>9. ASSUME NEW j \in 0..(n - 1), j \in P PROVE j + 1 \in P
  <2> DEFINE k == j + 1
             a == Upto(size, j)
             b == Upto(size, k)
             q == p1 + Len(J(k))
  <2>1. k \in 1..n /\ k - 1 = j /\ k \in 0..n /\ k \in Nat
    BY <1>3
  <2>2. At(v, q, x \o d(j))
    BY <1>9
  <2>3. /\ a \in Nat /\ b \in Nat /\ a < b
    <3>1. k \in 1..Parts(size, PesMax)
      BY <2>1 DEF n
    <3>2. Upto(size, k - 1) \in Nat /\ Upto(size, k) \in Nat /\ Upto(size, k - 1) < Upto(size, k)
      <4> HIDE DEF k
      <4> QED BY <3>1, <1>1, PesPacketIs
    <3> QED BY <3>2, <2>1
  <2> HIDE DEF k
  <2>4. Holds(q, f[k])
    <3>1. k \in 1..((n + 1) - 1) /\ 1 \in Int /\ n + 1 \in Int /\ 1 <= n + 1
      BY <2>1, <1>3
    <3>2. Holds(p1, Join(f, 1, n + 1))
      BY <1>3, <1>5 DEF J
    <3> QED BY <3>1, <3>2, <1>1, <1>3, <1>5, HoldsJoined DEF J
  <2>5. d(j) \in Seq(Cell) /\ x \o d(j) \in Seq(Cell)
    <3>1. 1 \in Nat /\ 1 <= a + 1
      BY <2>3
    <3>2. d(j) \in Seq({c \in Cell : c.tag = "data"})
      BY <3>1, <2>3, DataIs
    <3>3. {c \in Cell : c.tag = "data"} \subseteq Cell
      OBVIOUS
    <3>4. d(j) \in Seq(Cell)
      <4> HIDE DEF d
      <4> QED BY <3>2, <3>3, SeqMonotonic
    <3> HIDE DEF d
    <3> QED BY <3>4, ConcatProperties
  <2>6. At(v, q + Len(f[k]), (x \o d(j)) \o Data(i, a + 1, b))
    <3>1. k \in 1..Parts(size, PesMax) /\ f[k] = PesPacket(i, size, k)
      BY <2>1, <1>4 DEF n
    <3>2. Holds(q, PesPacket(i, size, k))
      BY <3>1, <2>4
    <3> DEFINE y == x \o d(j)
    <3>3. y \in Seq(Cell) /\ At(v, q, y)
      BY <2>2, <2>5
    <3>4. At(v, q + Len(PesPacket(i, size, k)), y \o Data(i, Upto(size, k - 1) + 1, Upto(size, k)))
      <4> HIDE DEF y, q, d, a, b
      <4> QED BY <3>1, <3>2, <3>3, <1>1, CutsPacket
    <3> QED BY <3>1, <3>4, <2>1
  <2>7. (x \o d(j)) \o Data(i, a + 1, b) = x \o d(k)
    <3>1. d(j) \o Data(i, a + 1, b) = d(k)
      <4>1. a <= b
        BY <2>3
      <4> QED BY <4>1, <2>3, DataJoins
    <3>2. Data(i, a + 1, b) \in Seq(Cell)
      <4>1. a + 1 \in Nat /\ a + 1 <= b + 1
        BY <2>3
      <4>2. Data(i, a + 1, b) \in Seq({c \in Cell : c.tag = "data"})
        BY <4>1, <2>3, DataIs
      <4>3. {c \in Cell : c.tag = "data"} \subseteq Cell
        OBVIOUS
      <4> QED BY <4>2, <4>3, SeqMonotonic
    <3>3. (x \o d(j)) \o Data(i, a + 1, b) = x \o (d(j) \o Data(i, a + 1, b))
      <4> DEFINE s == d(j)
                 t == Data(i, a + 1, b)
      <4> HIDE DEF d, a, b
      <4>1. s \in Seq(Cell) /\ t \in Seq(Cell) /\ x \in Seq(Cell)
        BY <3>2, <2>5
      <4> HIDE DEF s, t
      <4>2. (x \o s) \o t = x \o (s \o t)
        BY <4>1, CellsAssociate
      <4> QED BY <4>2 DEF s, t
    <3> QED BY <3>1, <3>3
  <2>8. q + Len(f[k]) = p1 + Len(J(k + 1))
    <3>1. k \in 1..(n + 1)
      BY <2>1, <1>3
    <3>2. /\ Len(J(k)) \in Nat /\ Len(f[k]) \in Nat /\ p1 \in Nat
          /\ Len(J(k + 1)) = Len(J(k)) + Len(f[k])
      BY <3>1, <2>1, <1>5, <1>7
    <3> DEFINE y == Len(J(k))
               z == Len(J(k + 1))
               w == Len(f[k])
    <3>3. y \in Nat /\ p1 \in Nat /\ w \in Nat /\ z = y + w
      BY <3>2
    <3> HIDE DEF y, z, w
    <3>4. (p1 + y) + w = p1 + z
      BY <3>3
    <3> QED BY <3>4 DEF y, z, w
  <2> HIDE DEF d, q, a, b
  <2> QED BY <2>1, <2>6, <2>7, <2>8 DEF k
<1>10. n \in P
  <2>1. 0..n \subseteq P
    <3> HIDE DEF P
    <3> QED BY <1>3, <1>8, <1>9, Induction
  <2>2. n \in 0..n
    BY <1>3
  <2> HIDE DEF P
  <2> QED BY <2>1, <2>2
<1>11. Upto(size, n) = size
  <2>1. n \in 1..Parts(size, PesMax) /\ n = Parts(size, PesMax)
    BY <1>3 DEF n
  <2> QED BY <2>1, <1>1, PesPacketIs
<1>12. p + Len(h264PsMux(i, nal)) = p1 + Len(J(n + 1))
  <2>1. Len(J(n + 1)) = Len(pes) /\ Len(pes) \in Nat
    BY <1>3
  <2> DEFINE y == Len(pes)
             z == Len(head)
  <2>2. y \in Nat /\ z \in Nat /\ Len(h264PsMux(i, nal)) = z + y
    BY <2>1, <1>5
  <2> HIDE DEF y, z
  <2>3. p + (z + y) = (p + z) + y
    BY <2>2, <1>1
  <2> QED BY <2>1, <2>2, <2>3 DEF p1, y, z
<1> QED BY <1>10, <1>11, <1>12 DEF size

-----------------------------------------------------------------------------
(* Only units of a known type are sent. *)
Sendable == sent \in Seq(Nal) /\ \A i \in DOMAIN sent : sent[i].type # "other"

(* Units g to h - 1 *)
LEMMA UnitsAre ==
  ASSUME Sendable, NEW g \in Int, NEW h \in Int, 1 <= g, h <= Len(sent) + 1
  PROVE  /\ AllSeqs(Muxed, g, h, Cell) /\ AllSeqs(Pushed, g, h, Cell)
         /\ \A i \in g..(h - 1) :
              /\ i \in Nat /\ i \in DOMAIN sent /\ sent[i] \in Nal /\ sent[i].type # "other"
              /\ Muxed[i] = h264PsMux(i, sent[i]) /\ Muxed[i] \in Seq(Cell) /\ Muxed[i] # << >>
              /\ Pushed[i] = Data(i, 1, sent[i].size)
              /\ Pushed[i] \in Seq(Cell) /\ Pushed[i] # << >>
<1>1. ASSUME NEW i \in g..(h - 1)
      PROVE  /\ i \in Nat /\ i \in DOMAIN sent /\ sent[i] \in Nal /\ sent[i].type # "other"
             /\ Muxed[i] = h264PsMux(i, sent[i]) /\ Muxed[i] \in Seq(Cell) /\ Muxed[i] # << >>
             /\ Pushed[i] = Data(i, 1, sent[i].size)
             /\ Pushed[i] \in Seq(Cell) /\ Pushed[i] # << >>
  <2>1. i \in Nat /\ i \in DOMAIN sent /\ sent[i] \in Nal /\ sent[i].type # "other"
    <3>1. sent \in Seq(Nal) /\ DOMAIN sent = 1..Len(sent) /\ Len(sent) \in Nat
      BY DEF Sendable
    <3>2. i \in 1..Len(sent)
      BY <3>1
    <3> QED BY <3>1, <3>2, ElementOfSeq DEF Sendable
  <2>2. Muxed[i] = h264PsMux(i, sent[i]) /\ Pushed[i] = Data(i, 1, sent[i].size)
    BY <2>1 DEF Muxed, Pushed
  <2>3. h264PsMux(i, sent[i]) \in Seq(Cell) /\ h264PsMux(i, sent[i]) # << >>
    BY <2>1, MuxIs
  <2>4. Data(i, 1, sent[i].size) \in Seq(Cell) /\ Data(i, 1, sent[i].size) # << >>
    <3> DEFINE size == sent[i].size
               d == Data(i, 1, size)
    <3>1. size \in Nat /\ size > 0
      BY <2>1, Constants
    <3> HIDE DEF size
    <3>2. 1 \in Nat /\ 1 <= size + 1
      BY <3>1
    <3>3. d \in Seq({c \in Cell : c.tag = "data"}) /\ Len(d) = size - 1 + 1
      BY <2>1, <3>1, <3>2, DataIs
    <3>4. {c \in Cell : c.tag = "data"} \subseteq Cell
      OBVIOUS
    <3> HIDE DEF d
    <3>5. d \in Seq(Cell)
      BY <3>3, <3>4, SeqMonotonic
    <3>6. Len(d) > 0
      BY <3>1, <3>3
    <3>7. d # << >>
      BY <3>6
    <3> QED BY <3>5, <3>7 DEF d, size
  <2> QED BY <2>1, <2>2, <2>3, <2>4
<1>2. AllSeqs(Muxed, g, h, Cell) /\ AllSeqs(Pushed, g, h, Cell)
  BY <1>1 DEF AllSeqs
<1> QED BY <1>1, <1>2

(* The units in the first cells of the buffer are cut whole. *)
LEMMA CutsUnits ==
  ASSUME Sendable, NEW g \in Int, NEW h \in Int, 1 <= g, g <= h, h <= Len(sent) + 1,
         buf \in Seq(Cell), len \in 0..Len(buf), NEW v \in [0..len -> ScanState], Scans(v),
         Holds(0, Join(Muxed, g, h))
  PROVE  At(v, Room(g, h), Video(g, h))
<1> DEFINE n == h - g
           M(i) == Join(Muxed, g, i)
           V(i) == Join(Pushed, g, i)
           P == {m \in 0..n : At(v, Len(M(g + m)), V(g + m))}
<1>0. n \in Nat /\ g + n = h /\ g + 0 = g /\ len \in Nat
  OBVIOUS
<1>1. /\ AllSeqs(Muxed, g, h, Cell) /\ AllSeqs(Pushed, g, h, Cell)
      /\ \A i \in g..(h - 1) :
           /\ i \in Nat /\ sent[i] \in Nal /\ sent[i].type # "other"
           /\ Muxed[i] = h264PsMux(i, sent[i])
           /\ Pushed[i] = Data(i, 1, sent[i].size)
           /\ Muxed[i] \in Seq(Cell)
  BY UnitsAre
<1>2. /\ M(g) = << >> /\ \A i \in g..h : M(i) \in Seq(Cell) /\ Len(M(i)) \in Nat
      /\ \A i \in g..(h - 1) : Len(M(i + 1)) = Len(M(i)) + Len(Muxed[i])
  <2>1. AllSeqs(Muxed, g, h, Cell)
    BY <1>1
  <2>2. /\ Join(Muxed, g, g) = << >>
        /\ \A i \in g..h : Join(Muxed, g, i) \in Seq(Cell)
        /\ \A i \in g..(h - 1) :
             /\ Join(Muxed, g, i + 1) = Join(Muxed, g, i) \o Muxed[i]
             /\ Len(Join(Muxed, g, i + 1)) = Len(Join(Muxed, g, i)) + Len(Muxed[i])
    BY <2>1, JoinFacts, SMTT(15)
  <2>3. \A i \in g..h : Len(M(i)) \in Nat
    BY <2>2, LenProperties
  <2> QED BY <2>2, <2>3
<1>3. /\ V(g) = << >> /\ \A i \in g..h : V(i) \in Seq(Cell)
      /\ \A i \in g..(h - 1) : V(i + 1) = V(i) \o Pushed[i]
  <2>1. AllSeqs(Pushed, g, h, Cell)
    BY <1>1
  <2>2. /\ Join(Pushed, g, g) = << >>
        /\ \A i \in g..h : Join(Pushed, g, i) \in Seq(Cell)
        /\ \A i \in g..(h - 1) :
             /\ Join(Pushed, g, i + 1) = Join(Pushed, g, i) \o Pushed[i]
             /\ Len(Join(Pushed, g, i + 1)) = Len(Join(Pushed, g, i)) + Len(Pushed[i])
    BY <2>1, JoinFacts, SMTT(15)
  <2> QED BY <2>2
<1>4. \A i \in g..(h - 1) : Holds(Len(M(i)), Muxed[i])
  <2> TAKE i \in g..(h - 1)
  <2>1. Holds(0 + Len(M(i)), Muxed[i])
    BY <1>0, <1>1, HoldsJoined
  <2> DEFINE a == Len(M(i))
  <2>2. a \in Nat
    BY <1>2
  <2> HIDE DEF a
  <2>3. 0 + a = a
    BY <2>2
  <2> QED BY <2>1, <2>3 DEF a
<1> HIDE DEF M, V
<1>5. 0 \in P
  <2>1. v[0] = [next |-> 1, video |-> << >>] /\ Len(<< >>) = 0
    BY DEF Scans
  <2>2. At(v, 0, << >>)
    BY <2>1, <1>0 DEF At
  <2>3. Len(M(g)) = 0 /\ V(g) = << >>
    BY <1>2, <1>3
  <2> QED BY <2>2, <2>3, <1>0
<1>6. ASSUME NEW m \in 0..(n - 1), m \in P PROVE m + 1 \in P
  <2> DEFINE i == g + m
             p == Len(M(i))
             x == V(i)
  <2>1. i \in g..(h - 1) /\ i \in g..h /\ i + 1 = g + (m + 1) /\ m + 1 \in 0..n
    BY <1>0
  <2>2. At(v, p, x)
    BY <1>6
  <2> HIDE DEF i
  <2>3. At(v, p + Len(h264PsMux(i, sent[i])), x \o Data(i, 1, sent[i].size))
    <3>1. x \in Seq(Cell) /\ Holds(p, h264PsMux(i, sent[i])) /\ i \in Nat /\ sent[i] \in Nal /\ sent[i].type # "other"
      BY <2>1, <1>1, <1>3, <1>4
    <3> HIDE DEF p, x
    <3> QED BY <2>2, <3>1, CutsUnit
  <2>4. p + Len(h264PsMux(i, sent[i])) = Len(M(i + 1)) /\ x \o Data(i, 1, sent[i].size) = V(i + 1)
    BY <2>1, <1>1, <1>2, <1>3
  <2>5. At(v, Len(M(i + 1)), V(i + 1))
    <3> HIDE DEF p, x
    <3> QED BY <2>3, <2>4
  <2> QED BY <2>1, <2>5
<1>7. n \in P
  <2>1. 0..n \subseteq P
    <3> HIDE DEF P, n
    <3> QED BY <1>0, <1>5, <1>6, Induction
  <2>2. n \in 0..n
    BY <1>0
  <2> HIDE DEF P, n
  <2> QED BY <2>1, <2>2
<1> QED BY <1>0, <1>7 DEF M, V, Room, Video

(* What is in the buffer after them is cut behind them. *)
LEMMA Cuts ==
  ASSUME Sendable, NEW g \in Int, NEW h \in Int, 1 <= g, g <= h, h <= Len(sent) + 1,
         buf \in Seq(Cell), len \in 0..Len(buf), Holds(0, Join(Muxed, g, h))
  PROVE  /\ cutPsHeader \in Seq(Cell)
         /\ IsPrefix(Video(g, h), cutPsHeader)
         /\ Room(g, h) = len => cutPsHeader = Video(g, h)
<1>1. PICK v \in [0..len -> ScanState] : Scans(v) /\ cutPsHeader = v[len].video
  BY ScanIs
<1>2. At(v, Room(g, h), Video(g, h))
  BY <1>1, CutsUnits
<1> DEFINE p == Room(g, h)
           x == Video(g, h)
           c == cutPsHeader
<1>3. p \in 0..len /\ v[p].video = x
  BY <1>2 DEF At
<1>4. len \in Nat /\ len \in 0..len
  OBVIOUS
<1>5. c \in Seq(Cell) /\ x \in Seq(Cell)
  <2>1. v[p] \in ScanState /\ v[len] \in ScanState
    BY <1>3, <1>4
  <2> QED BY <2>1, <1>1, <1>3 DEF ScanState
<1>6. /\ Len(x) \in Nat /\ Len(c) \in Nat /\ Len(x) <= Len(c)
      /\ \A q \in 1..Len(x) : c[q] = x[q]
  BY <1>1, <1>3, ScanGrows
<1> HIDE DEF p, x, c
<1>7. IsPrefix(x, c)
  <2> DEFINE n == Len(x)
             s == SubSeq(x, 1, n)
             t == SubSeq(c, 1, n)
  <2>1. n \in Int /\ 1 \in Int
    BY <1>6
  <2>2. \A q \in 1..n : x[q] \in Cell /\ c[q] = x[q]
    BY <1>5, <1>6, ElementOfSeq
  <2>3. /\ s \in Seq(Cell) /\ Len(s) = (IF 1 <= n THEN n - 1 + 1 ELSE 0)
        /\ \A q \in 1..(n - 1 + 1) : s[q] = x[1 + q - 1]
    <3> HIDE DEF n
    <3> QED BY <2>1, <2>2, SubSeqProperties
  <2>4. /\ t \in Seq(Cell) /\ Len(t) = (IF 1 <= n THEN n - 1 + 1 ELSE 0)
        /\ \A q \in 1..(n - 1 + 1) : t[q] = c[1 + q - 1]
    <3>1. \A q \in 1..n : c[q] \in Cell
      BY <2>2
    <3> HIDE DEF n
    <3> QED BY <2>1, <3>1, SubSeqProperties
  <2>5. n \in Nat
    BY <1>6
  <2> HIDE DEF s, t, n
  <2>6. Len(s) = n /\ Len(t) = n
    BY <2>3, <2>4, <2>5
  <2>7. \A q \in 1..n : s[q] = t[q]
    <3> TAKE q \in 1..n
    <3>1. q \in 1..(n - 1 + 1) /\ 1 + q - 1 = q
      BY <2>5
    <3> QED BY <2>2, <2>3, <2>4, <3>1
  <2>8. s = t
    BY <2>3, <2>4, <2>6, <2>7, SeqEqual
  <2> QED BY <1>6, <2>8 DEF IsPrefix, s, t, n
<1>8. p = len => c = x
  BY <1>1, <1>3 DEF c
<1> QED BY <1>5, <1>7, <1>8 DEF p, x, c

-----------------------------------------------------------------------------
(* A sequence without its k-th element *)
LEMMA RemoveAtIs ==
  ASSUME NEW S, NEW s \in Seq(S), NEW k \in 1..Len(s)
  PROVE  /\ RemoveAt(s, k) \in Seq(S) /\ Len(RemoveAt(s, k)) = Len(s) - 1
         /\ \A i \in 1..(Len(s) - 1) : RemoveAt(s, k)[i] = IF i < k THEN s[i] ELSE s[i + 1]
<1> DEFINE n == Len(s)
           a == SubSeq(s, 1, k - 1)
           b == SubSeq(s, k + 1, n)
<1>1. n \in Nat /\ k \in 1..n /\ \A i \in 1..n : s[i] \in S
  BY ElementOfSeq
<1> HIDE DEF n
<1>2. a \in Seq(S) /\ Len(a) = k - 1 /\ \A i \in 1..(k - 1) : a[i] = s[i]
  <2> DEFINE m == k - 1
  <2>1. 1 \in Int /\ m \in Int /\ \A i \in 1..m : s[i] \in S
    BY <1>1
  <2>2. m >= 0
    BY <1>1
  <2> HIDE DEF m
  <2>3. /\ SubSeq(s, 1, m) \in Seq(S)
        /\ Len(SubSeq(s, 1, m)) = IF 1 <= m THEN m - 1 + 1 ELSE 0
        /\ \A i \in 1..(m - 1 + 1) : SubSeq(s, 1, m)[i] = s[1 + i - 1]
    BY <2>1, SubSeqProperties
  <2>4. Len(SubSeq(s, 1, m)) = m
    BY <2>1, <2>2, <2>3
  <2>5. ASSUME NEW i \in 1..m PROVE SubSeq(s, 1, m)[i] = s[i]
    BY <2>1, <2>3
  <2> QED BY <2>3, <2>4, <2>5 DEF m
<1>3. b \in Seq(S) /\ Len(b) = n - k /\ \A i \in 1..(n - k) : b[i] = s[i + k]
  <2> DEFINE m == k + 1
  <2>1. m \in Int /\ n \in Int /\ \A i \in m..n : s[i] \in S
    BY <1>1
  <2>2. m <= n + 1 /\ n - m + 1 = n - k /\ \A i \in 1..(n - k) : m + i - 1 = i + k
    BY <1>1
  <2> HIDE DEF m
  <2>3. /\ SubSeq(s, m, n) \in Seq(S)
        /\ Len(SubSeq(s, m, n)) = IF m <= n THEN n - m + 1 ELSE 0
        /\ \A i \in 1..(n - m + 1) : SubSeq(s, m, n)[i] = s[m + i - 1]
    BY <2>1, SubSeqProperties
  <2>4. Len(SubSeq(s, m, n)) = n - k
    BY <2>1, <2>2, <2>3
  <2> QED BY <2>2, <2>3, <2>4 DEF m
<1>4. RemoveAt(s, k) = a \o b
  BY DEF RemoveAt, n
<1> HIDE DEF a, b
<1>5. /\ a \o b \in Seq(S) /\ Len(a \o b) = Len(a) + Len(b)
      /\ \A i \in 1..(Len(a) + Len(b)) : (a \o b)[i] = IF i <= Len(a) THEN a[i] ELSE b[i - Len(a)]
  BY <1>2, <1>3, ConcatProperties
<1>6. Len(a \o b) = n - 1
  BY <1>1, <1>2, <1>3, <1>5
<1>7. ASSUME NEW i \in 1..(n - 1) PROVE (a \o b)[i] = IF i < k THEN s[i] ELSE s[i + 1]
  <2>1. (a \o b)[i] = IF i <= k - 1 THEN a[i] ELSE b[i - (k - 1)]
    <3>1. i \in 1..(Len(a) + Len(b))
      BY <1>1, <1>2, <1>3
    <3> QED BY <3>1, <1>2, <1>5
  <2>2. CASE i < k
    <3>1. i <= k - 1 /\ i \in 1..(k - 1)
      BY <2>2, <1>1
    <3> QED BY <2>1, <2>2, <3>1, <1>2
  <2>3. CASE ~(i < k)
    <3> DEFINE j == i - (k - 1)
    <3>1. ~(i <= k - 1) /\ j \in 1..(n - k) /\ j + k = i + 1
      BY <2>3, <1>1
    <3> HIDE DEF j
    <3>2. b[j] = s[j + k]
      BY <3>1, <1>3
    <3> QED BY <2>1, <2>3, <3>1, <3>2 DEF j
  <2> QED BY <2>2, <2>3
<1> QED BY <1>4, <1>5, <1>6, <1>7 DEF n

(* A sequence with another element in front of the k-th *)
LEMMA InsertAtIs ==
  ASSUME NEW S, NEW s \in Seq(S), NEW k \in 1..Len(s), NEW e \in S
  PROVE  /\ InsertAt(s, k, e) \in Seq(S) /\ Len(InsertAt(s, k, e)) = Len(s) + 1
         /\ \A i \in 1..(Len(s) + 1) :
              InsertAt(s, k, e)[i] = IF i < k THEN s[i] ELSE IF i = k THEN e ELSE s[i - 1]
<1> DEFINE n == Len(s)
           a == SubSeq(s, 1, k - 1)
           b == SubSeq(s, k, n)
           c == <<e>>
           d == a \o c
<1>1. n \in Nat /\ k \in 1..n /\ \A i \in 1..n : s[i] \in S
  BY ElementOfSeq
<1> HIDE DEF n
<1>2. a \in Seq(S) /\ Len(a) = k - 1 /\ \A i \in 1..(k - 1) : a[i] = s[i]
  <2> DEFINE m == k - 1
  <2>1. 1 \in Int /\ m \in Int /\ \A i \in 1..m : s[i] \in S
    BY <1>1
  <2>2. m >= 0
    BY <1>1
  <2> HIDE DEF m
  <2>3. /\ SubSeq(s, 1, m) \in Seq(S)
        /\ Len(SubSeq(s, 1, m)) = IF 1 <= m THEN m - 1 + 1 ELSE 0
        /\ \A i \in 1..(m - 1 + 1) : SubSeq(s, 1, m)[i] = s[1 + i - 1]
    BY <2>1, SubSeqProperties
  <2>4. Len(SubSeq(s, 1, m)) = m
    BY <2>1, <2>2, <2>3
  <2>5. ASSUME NEW i \in 1..m PROVE SubSeq(s, 1, m)[i] = s[i]
    BY <2>1, <2>3
  <2> QED BY <2>3, <2>4, <2>5 DEF m
<1>3. b \in Seq(S) /\ Len(b) = n - k + 1 /\ \A i \in 1..(n - k + 1) : b[i] = s[k + i - 1]
  <2>1. k \in Int /\ n \in Int /\ \A i \in k..n : s[i] \in S
    BY <1>1
  <2>3. /\ SubSeq(s, k, n) \in Seq(S)
        /\ Len(SubSeq(s, k, n)) = IF k <= n THEN n - k + 1 ELSE 0
        /\ \A i \in 1..(n - k + 1) : SubSeq(s, k, n)[i] = s[k + i - 1]
    BY <2>1, SubSeqProperties
  <2>4. k <= n
    BY <1>1
  <2> QED BY <2>3, <2>4
<1>4. InsertAt(s, k, e) = d \o b
  BY DEF InsertAt, n
<1>5. c \in Seq(S) /\ Len(c) = 1 /\ c[1] = e
  OBVIOUS
<1> HIDE DEF a, b, c
<1>6. /\ d \in Seq(S) /\ Len(d) = k /\ d[k] = e /\ \A i \in 1..(k - 1) : d[i] = s[i]
  <2>1. /\ d \in Seq(S) /\ Len(d) = Len(a) + Len(c)
        /\ \A i \in 1..(Len(a) + Len(c)) : d[i] = IF i <= Len(a) THEN a[i] ELSE c[i - Len(a)]
    BY <1>2, <1>5, ConcatProperties
  <2> HIDE DEF d
  <2>2. k - 1 + 1 = k /\ k \in Int
    BY <1>1
  <2>3. Len(d) = k /\ \A i \in 1..k : d[i] = IF i <= k - 1 THEN a[i] ELSE c[i - (k - 1)]
    BY <2>1, <2>2, <1>2, <1>5
  <2>4. d[k] = e
    <3>1. k \in 1..k /\ ~(k <= k - 1) /\ k - (k - 1) = 1
      BY <1>1
    <3> QED BY <2>3, <3>1, <1>5
  <2>5. ASSUME NEW i \in 1..(k - 1) PROVE d[i] = s[i]
    <3>1. i \in 1..k /\ i <= k - 1
      BY <1>1
    <3> QED BY <2>3, <3>1, <1>2
  <2> QED BY <2>1, <2>3, <2>4, <2>5
<1> HIDE DEF d
<1>7. /\ d \o b \in Seq(S) /\ Len(d \o b) = Len(d) + Len(b)
      /\ \A i \in 1..(Len(d) + Len(b)) : (d \o b)[i] = IF i <= Len(d) THEN d[i] ELSE b[i - Len(d)]
  BY <1>3, <1>6, ConcatProperties
<1>8. Len(d \o b) = n + 1
  BY <1>1, <1>3, <1>6, <1>7
<1>9. ASSUME NEW i \in 1..(n + 1)
      PROVE  (d \o b)[i] = IF i < k THEN s[i] ELSE IF i = k THEN e ELSE s[i - 1]
  <2>1. (d \o b)[i] = IF i <= k THEN d[i] ELSE b[i - k]
    <3>1. i \in 1..(Len(d) + Len(b))
      BY <1>1, <1>3, <1>6
    <3> QED BY <3>1, <1>6, <1>7
  <2>2. CASE i < k
    <3>1. i <= k /\ i \in 1..(k - 1)
      BY <2>2, <1>1
    <3> QED BY <2>1, <2>2, <3>1, <1>6
  <2>3. CASE i = k
    <3>1. i <= k /\ ~(i < k)
      BY <2>3, <1>1
    <3> QED BY <2>1, <2>3, <3>1, <1>6
  <2>4. CASE i > k
    <3> DEFINE j == i - k
    <3>1. ~(i <= k) /\ ~(i < k) /\ i # k /\ j \in 1..(n - k + 1) /\ k + j - 1 = i - 1
      BY <2>4, <1>1
    <3> HIDE DEF j
    <3>2. b[j] = s[k + j - 1]
      BY <3>1, <1>3
    <3> QED BY <2>1, <3>1, <3>2 DEF j
  <2>5. i < k \/ i = k \/ i > k
    BY <1>1
  <2> QED BY <2>2, <2>3, <2>4, <2>5
<1> QED BY <1>4, <1>7, <1>8, <1>9 DEF n

(* The buffer after cells are added behind the first l *)
LEMMA FillIs ==
  ASSUME buf \in Seq(Cell), Len(buf) <= RecvMax, NEW l \in 0..Len(buf), NEW cells \in Seq(Cell)
  PROVE  LET new == fillFrameBuff(l, cells)
         IN  /\ new.buf \in Seq(Cell) /\ Len(new.buf) <= RecvMax /\ new.len \in 0..Len(new.buf)
             /\ l + Len(cells) <= RecvMax =>
                  /\ new.len = l + Len(cells)
                  /\ \A p \in 1..l : new.buf[p] = buf[p]
                  /\ \A p \in 1..Len(cells) : new.buf[l + p] = cells[p]
<1> DEFINE m == Len(cells)
           n == Len(buf)
           a == SubSeq(buf, 1, l)
           b == SubSeq(buf, l + m + 1, n)
           c == a \o cells
           d == c \o b
           new == fillFrameBuff(l, cells)
<1>1. m \in Nat /\ n \in Nat /\ l \in 0..n /\ RecvMax \in Nat /\ n <= RecvMax
  BY Constants
<1>2. \A i \in 1..n : buf[i] \in Cell
  BY ElementOfSeq
<1>3. CASE l + m > RecvMax
  <2>1. new = [buf |-> buf, len |-> 0]
    BY <1>3 DEF fillFrameBuff
  <2>2. ~(l + m <= RecvMax)
    BY <1>1, <1>3
  <2>3. 0 \in 0..n
    BY <1>1
  <2> HIDE DEF new
  <2> QED BY <2>1, <2>2, <2>3, <1>1 DEF new
<1>4. CASE ~(l + m > RecvMax)
  <2>1. new = [buf |-> d, len |-> l + m]
    BY <1>4 DEF fillFrameBuff
  <2> HIDE DEF new, m, n
  <2>2. a \in Seq(Cell) /\ Len(a) = l /\ \A i \in 1..l : a[i] = buf[i]
    <3>1. 1 \in Int /\ l \in Int /\ \A i \in 1..l : buf[i] \in Cell
      BY <1>1, <1>2
    <3>2. /\ a \in Seq(Cell) /\ Len(a) = (IF 1 <= l THEN l - 1 + 1 ELSE 0)
          /\ \A i \in 1..(l - 1 + 1) : a[i] = buf[1 + i - 1]
      BY <3>1, SubSeqProperties
    <3> HIDE DEF a
    <3>3. Len(a) = l
      BY <3>2, <1>1
    <3>4. ASSUME NEW i \in 1..l PROVE a[i] = buf[i]
      <4>1. i \in 1..(l - 1 + 1) /\ 1 + i - 1 = i
        BY <1>1
      <4> QED BY <3>2, <4>1
    <3> QED BY <3>2, <3>3, <3>4
  <2>3. b \in Seq(Cell) /\ Len(b) \in Nat /\ (l + m <= n => Len(b) = n - (l + m)) /\ (l + m > n => Len(b) = 0)
    <3> DEFINE k == l + m + 1
    <3>1. k \in Int /\ n \in Int /\ \A i \in k..n : buf[i] \in Cell
      BY <1>1, <1>2
    <3> HIDE DEF k
    <3>2. SubSeq(buf, k, n) \in Seq(Cell) /\ Len(SubSeq(buf, k, n)) = IF k <= n THEN n - k + 1 ELSE 0
      BY <3>1, SubSeqProperties
    <3>3. b \in Seq(Cell) /\ Len(b) = IF k <= n THEN n - k + 1 ELSE 0
      BY <3>2 DEF k
    <3> HIDE DEF b
    <3> QED BY <3>3, <1>1 DEF k
  <2> HIDE DEF a, b
  <2>4. /\ c \in Seq(Cell) /\ Len(c) = l + m /\ \A i \in 1..l : c[i] = buf[i]
        /\ \A i \in 1..m : c[l + i] = cells[i]
    <3>1. /\ c \in Seq(Cell) /\ Len(c) = l + m
          /\ \A i \in 1..(l + m) : c[i] = IF i <= l THEN a[i] ELSE cells[i - l]
      BY <2>2, ConcatProperties DEF m
    <3> HIDE DEF c
    <3>2. ASSUME NEW i \in 1..l PROVE c[i] = buf[i]
      <4>1. i \in 1..(l + m) /\ i <= l
        BY <1>1
      <4> QED BY <3>1, <4>1, <2>2
    <3>3. ASSUME NEW i \in 1..m PROVE c[l + i] = cells[i]
      <4> DEFINE j == l + i
      <4>1. j \in 1..(l + m) /\ ~(j <= l) /\ j - l = i
        BY <1>1
      <4> HIDE DEF j
      <4>2. c[j] = cells[i]
        BY <3>1, <4>1
      <4> QED BY <4>2 DEF j
    <3> QED BY <3>1, <3>2, <3>3
  <2> HIDE DEF c
  <2>5. /\ d \in Seq(Cell) /\ Len(d) = l + m + Len(b)
        /\ \A i \in 1..(l + m) : d[i] = c[i]
    <3>1. /\ d \in Seq(Cell) /\ Len(d) = Len(c) + Len(b)
          /\ \A i \in 1..(Len(c) + Len(b)) : d[i] = IF i <= Len(c) THEN c[i] ELSE b[i - Len(c)]
      BY <2>3, <2>4, ConcatProperties
    <3> DEFINE e == Len(b)
    <3> HIDE DEF d
    <3>2. e \in Nat
      BY <2>3
    <3>3. Len(d) = l + m + e /\ \A i \in 1..(l + m + e) : d[i] = IF i <= l + m THEN c[i] ELSE b[i - (l + m)]
      BY <3>1, <2>4
    <3> HIDE DEF e
    <3>4. ASSUME NEW i \in 1..(l + m) PROVE d[i] = c[i]
      <4>1. i \in 1..(l + m + e) /\ i <= l + m
        BY <3>2, <1>1
      <4> QED BY <3>3, <4>1
    <3> QED BY <3>1, <3>3, <3>4 DEF e
  <2> HIDE DEF d
  <2>6. l + m \in 0..Len(d) /\ Len(d) <= RecvMax
    <3> DEFINE e == Len(b)
               f == Len(d)
    <3>1. e \in Nat /\ f = l + m + e /\ (l + m <= n => e = n - (l + m)) /\ (l + m > n => e = 0)
      BY <2>3, <2>5
    <3> HIDE DEF e, f
    <3>2. l + m \in 0..f /\ f <= RecvMax
      BY <3>1, <1>1, <1>4
    <3> QED BY <3>2 DEF f
  <2>7. \A p \in 1..l : d[p] = buf[p]
    <3> TAKE p \in 1..l
    <3>1. p \in 1..(l + m)
      BY <1>1
    <3> QED BY <3>1, <2>4, <2>5
  <2>8. \A p \in 1..m : d[l + p] = cells[p]
    <3> TAKE p \in 1..m
    <3> DEFINE j == l + p
    <3>1. j \in 1..(l + m)
      BY <1>1
    <3>2. c[j] = cells[p]
      BY <2>4
    <3> HIDE DEF j
    <3>3. d[j] = cells[p]
      BY <3>1, <3>2, <2>5
    <3> QED BY <3>3 DEF j
  <2>9. new.buf = d /\ new.len = l + m
    BY <2>1
  <2> QED BY <2>5, <2>6, <2>7, <2>8, <2>9 DEF new, m
<1> QED BY <1>3, <1>4

(* How many blocks a unit is sent in, the cells in the first k of them, and the k-th *)
NumBlocks(i, nal) == Parts(Len(h264PsMux(i, nal)), Block)
Covered(i, nal, k) == Least(k * Block, Len(h264PsMux(i, nal)))
Packet(i, nal, k) == Blocks(i, h264PsMux(i, nal))[k]

(* The blocks share out the unit's cells, and only the first of an opener
   starts a frame. *)
LEMMA BlockIs ==
  ASSUME NEW i \in Nat, NEW nal \in Nal, nal.type # "other", NEW k \in 1..NumBlocks(i, nal)
  PROVE  /\ Packet(i, nal, k).nal = i /\ Packet(i, nal, k).cells \in Seq(Cell)
         /\ Covered(i, nal, k - 1) \in Nat /\ Covered(i, nal, k) \in Nat
         /\ Covered(i, nal, k - 1) < Covered(i, nal, k)
         /\ Covered(i, nal, k) <= Len(h264PsMux(i, nal))
         /\ Len(Packet(i, nal, k).cells) = Covered(i, nal, k) - Covered(i, nal, k - 1)
         /\ Len(Packet(i, nal, k).cells) \in 1..Block
         /\ \A q \in 1..Len(Packet(i, nal, k).cells) :
              Packet(i, nal, k).cells[q] = h264PsMux(i, nal)[Covered(i, nal, k - 1) + q]
         /\ StartsFrame(Packet(i, nal, k)) <=> (k = 1 /\ nal.type \in {"SPS", "PFRAME"})
<1> DEFINE cells == h264PsMux(i, nal)
           n == Len(cells)
           a == Covered(i, nal, k - 1)
           b == Covered(i, nal, k)
           block == SubSeq(cells, (k - 1) * Block + 1, Least(k * Block, n))
<1>1. cells \in Seq(Cell) /\ n \in Nat /\ \A p \in 1..n : cells[p] \in Cell
  <2>1. cells \in Seq(Cell)
    BY MuxIs
  <2> HIDE DEF cells
  <2> QED BY <2>1, ElementOfSeq
<1>2. /\ a = (k - 1) * Block /\ a \in Nat /\ a < n /\ b \in Nat /\ b <= n /\ a < b
      /\ b <= a + Block
  <2>1. k \in 1..Parts(n, Block)
    BY DEF NumBlocks
  <2>2. n \in Nat /\ Block \in Nat \ {0}
    BY <1>1, Constants
  <2> HIDE DEF n
  <2>3. /\ (k - 1) * Block \in Nat /\ (k - 1) * Block < n
        /\ Least(k * Block, n) \in Nat /\ Least(k * Block, n) <= n /\ (k - 1) * Block < Least(k * Block, n)
        /\ Least(k * Block, n) <= (k - 1) * Block + Block
        /\ Least((k - 1) * Block, n) = (k - 1) * Block
    BY <2>1, <2>2, PartIs
  <2> QED BY <2>3 DEF Covered, n
<1>3. Packet(i, nal, k) = [nal |-> i, cells |-> block]
  <2>1. k \in 1..Parts(n, Block)
    BY DEF NumBlocks
  <2> QED BY <2>1 DEF Packet, Blocks
<1>4. block = SubSeq(cells, a + 1, b)
  BY <1>2 DEF Covered
<1> HIDE DEF block
<1> HIDE DEF a, b, n
<1>5. block \in Seq(Cell) /\ Len(block) = b - a /\ \A q \in 1..(b - a) : block[q] = cells[a + q]
  <2> DEFINE c == a + 1
  <2>1. c \in Int /\ b \in Int /\ \A p \in c..b : cells[p] \in Cell
    BY <1>1, <1>2
  <2>2. c <= b /\ b - c + 1 = b - a
    BY <1>2
  <2>5. ASSUME NEW q \in 1..(b - a) PROVE c + q - 1 = a + q
    BY <1>2
  <2> HIDE DEF c, cells
  <2>3. /\ SubSeq(cells, c, b) \in Seq(Cell) /\ Len(SubSeq(cells, c, b)) = IF c <= b THEN b - c + 1 ELSE 0
        /\ \A q \in 1..(b - c + 1) : SubSeq(cells, c, b)[q] = cells[c + q - 1]
    BY <2>1, SubSeqProperties
  <2>4. block = SubSeq(cells, c, b)
    BY <1>4 DEF c
  <2> QED BY <2>2, <2>3, <2>4, <2>5
<1>6. b - a \in 1..Block
  BY <1>2, Constants
<1>7. nal.type \in {"SPS", "PFRAME"} => n > 0 /\ cells[1].tag = "BA"
  <2> SUFFICES ASSUME nal.type \in {"SPS", "PFRAME"} PROVE cells[1].tag = "BA"
    BY <1>1, <1>2
  <2> DEFINE pes == addPesHeader(i, nal.size)
  <2>1. PICK head \in Seq(Cell) :
          /\ cells = head \o pes /\ head # << >>
          /\ \A p \in 1..Len(head) : head[p].tag = "BA" <=> p = 1
    BY MuxIs
  <2>2. pes \in Seq(Cell)
    <3>1. pes \in Seq(Inner) /\ Inner \subseteq Cell
      BY Constants, PacketsAre DEF Inner
    <3> HIDE DEF pes
    <3> QED BY <3>1, SeqMonotonic
  <2> HIDE DEF pes
  <2>3. Len(head) \in Nat /\ Len(head) > 0 /\ Len(pes) \in Nat
    BY <2>1, <2>2
  <2>4. \A p \in 1..(Len(head) + Len(pes)) : (head \o pes)[p] = IF p <= Len(head) THEN head[p] ELSE pes[p - Len(head)]
    BY <2>2, ConcatProperties
  <2>5. (head \o pes)[1] = head[1] /\ 1 \in 1..Len(head)
    BY <2>3, <2>4
  <2> HIDE DEF cells
  <2> QED BY <2>1, <2>5
<1>8. \A p \in 1..n : cells[p].tag = "BA" => p = 1 /\ nal.type \in {"SPS", "PFRAME"}
  <2> TAKE p \in 1..n
  <2> SUFFICES ASSUME cells[p].tag = "BA" PROVE p = 1 /\ nal.type \in {"SPS", "PFRAME"}
    OBVIOUS
  <2> DEFINE pes == addPesHeader(i, nal.size)
  <2>1. PICK head \in Seq(Cell) :
          /\ cells = head \o pes /\ (head # << >> <=> nal.type \in {"SPS", "PFRAME"})
          /\ \A q \in 1..Len(head) : head[q].tag = "BA" <=> q = 1
    BY MuxIs
  <2>2. pes \in Seq(Inner)
    BY Constants, PacketsAre
  <2>3. pes \in Seq(Cell)
    <3>1. Inner \subseteq Cell
      BY DEF Inner
    <3> HIDE DEF pes
    <3> QED BY <2>2, <3>1, SeqMonotonic
  <2> HIDE DEF pes
  <2> DEFINE d == Len(head)
             e == Len(pes)
  <2>4. d \in Nat /\ e \in Nat /\ (d > 0 => head # << >>)
    BY <2>3
  <2>5. n = d + e /\ \A q \in 1..(d + e) : cells[q] = IF q <= d THEN head[q] ELSE pes[q - d]
    BY <2>1, <2>3, ConcatProperties DEF n
  <2> HIDE DEF cells, d, e
  <2>6. CASE p <= d
    <3>1. p \in 1..d /\ d > 0 /\ p \in 1..(d + e)
      BY <2>4, <2>5, <2>6
    <3>2. head[p].tag = "BA"
      BY <3>1, <2>5, <2>6
    <3> QED BY <3>1, <3>2, <2>1, <2>4 DEF d
  <2>7. CASE ~(p <= d)
    <3> DEFINE q == p - d
    <3>1. q \in 1..e /\ p \in 1..(d + e)
      BY <2>4, <2>5, <2>7
    <3>2. cells[p] = pes[q]
      BY <3>1, <2>5, <2>7
    <3> HIDE DEF q
    <3>3. pes[q] \in Inner
      BY <3>1, <2>2, ElementOfSeq DEF e
    <3> QED BY <3>2, <3>3 DEF Inner
  <2> QED BY <2>6, <2>7
<1>9. StartsFrame(Packet(i, nal, k)) <=> (k = 1 /\ nal.type \in {"SPS", "PFRAME"})
  <2>1. StartsFrame(Packet(i, nal, k)) <=> cells[a + 1].tag = "BA"
    <3>1. 1 \in 1..(b - a)
      BY <1>6
    <3>2. block[1] = cells[a + 1]
      BY <3>1, <1>5
    <3> QED BY <3>2, <1>3 DEF StartsFrame
  <2>2. a + 1 \in 1..n /\ (a + 1 = 1 <=> k = 1)
    <3>1. k = 1 => a = 0
      <4>1. 0 * Block = 0
        BY Constants
      <4> QED BY <4>1, <1>2
    <3>2. k # 1 => a # 0
      <4> SUFFICES ASSUME k # 1 PROVE a # 0
        OBVIOUS
      <4>1. k - 1 \in Nat /\ k - 1 > 0 /\ Block \in Nat /\ Block > 0
        BY Constants
      <4> DEFINE j == k - 1
      <4> HIDE DEF j
      <4>2. j * Block > 0
        BY <4>1 DEF j
      <4> QED BY <4>2, <1>2 DEF j
    <3>3. a \in Nat /\ a < n /\ n \in Nat
      BY <1>1, <1>2
    <3> QED BY <3>1, <3>2, <3>3
  <2>3. CASE k = 1
    <3>1. a = 0 /\ a + 1 = 1
      BY <2>2, <2>3, <1>2
    <3>2. 1 \in 1..n
      BY <2>2, <3>1
    <3> HIDE DEF cells
    <3> QED BY <2>1, <2>3, <3>1, <3>2, <1>7, <1>8
  <2>4. CASE k # 1
    <3>1. a + 1 \in 1..n /\ a + 1 # 1
      BY <2>2, <2>4
    <3>2. cells[a + 1].tag # "BA"
      <4> HIDE DEF cells
      <4> QED BY <3>1, <1>8
    <3> QED BY <2>1, <2>4, <3>2
  <2> QED BY <2>3, <2>4
<1>10. Packet(i, nal, k).nal = i /\ Packet(i, nal, k).cells = block
  BY <1>3
<1> HIDE DEF cells
<1> QED BY <1>2, <1>5, <1>6, <1>9, <1>10 DEF a, b, cells, n

(* All blocks of a unit together *)
LEMMA BlocksAre ==
  ASSUME NEW i \in Nat, NEW nal \in Nal, nal.type # "other"
  PROVE  /\ NumBlocks(i, nal) \in Nat /\ NumBlocks(i, nal) > 0
         /\ Blocks(i, h264PsMux(i, nal)) \in Seq([nal : {i}, cells : Seq(Cell)])
         /\ Len(Blocks(i, h264PsMux(i, nal))) = NumBlocks(i, nal)
         /\ Len(h264PsMux(i, nal)) \in Nat
         /\ Covered(i, nal, 0) = 0
         /\ Covered(i, nal, NumBlocks(i, nal)) = Len(h264PsMux(i, nal))
<1> DEFINE cells == h264PsMux(i, nal)
           n == Len(cells)
           b == Parts(n, Block)
           block(k) == [nal |-> i, cells |-> SubSeq(cells, (k - 1) * Block + 1, Least(k * Block, n))]
<1>1. cells \in Seq(Cell) /\ n \in Nat /\ n > 0
  <2>1. cells \in Seq(Cell) /\ cells # << >>
    BY MuxIs
  <2> HIDE DEF cells
  <2> QED BY <2>1, EmptySeq
<1>2. Block \in Nat \ {0}
  BY Constants
<1> HIDE DEF n
<1>3. b \in Nat /\ b > 0 /\ n <= b * Block
  BY <1>1, <1>2, PartsIs
<1>4. b = NumBlocks(i, nal)
  BY DEF NumBlocks, n
<1>5. \A k \in 1..b : block(k) \in [nal : {i}, cells : Seq(Cell)]
  <2> TAKE k \in 1..b
  <2>1. k \in 1..NumBlocks(i, nal)
    BY <1>4
  <2>2. Packet(i, nal, k).nal = i /\ Packet(i, nal, k).cells \in Seq(Cell)
    BY <2>1, BlockIs
  <2>3. Packet(i, nal, k) = block(k)
    BY DEF Packet, Blocks, n
  <2>4. block(k).cells \in Seq(Cell)
    BY <2>2, <2>3
  <2> QED BY <2>4
<1>6. Blocks(i, cells) = [k \in 1..b |-> block(k)]
  BY DEF Blocks, n
<1> HIDE DEF block, b
<1>7. Blocks(i, cells) \in Seq([nal : {i}, cells : Seq(Cell)]) /\ Len(Blocks(i, cells)) = b
  <2> DEFINE R == [nal : {i}, cells : Seq(Cell)]
             s == Blocks(i, cells)
  <2>1. s \in [1..b -> R]
    BY <1>5, <1>6
  <2> HIDE DEF R, s
  <2>2. s \in Seq(R) /\ Len(s) = b
    BY <2>1, <1>3
  <2> QED BY <2>2 DEF R, s
<1>8. Covered(i, nal, 0) = 0
  <2>1. 0 * Block = 0
    BY <1>2
  <2> QED BY <2>1, <1>1 DEF Covered, Least, n
<1>9. Covered(i, nal, b) = n
  <2>1. Covered(i, nal, b) = Least(b * Block, n)
    BY DEF Covered, n
  <2> DEFINE c == b * Block
  <2>2. c \in Nat
    BY <1>2, <1>3
  <2> HIDE DEF c
  <2>3. Least(c, n) = n
    BY <2>2, <1>1, <1>3 DEF Least, c
  <2> QED BY <2>1, <2>3 DEF c
<1> QED BY <1>1, <1>3, <1>4, <1>7, <1>8, <1>9 DEF n

(* What a packet is *)
WirePacket == [nal : DOMAIN sent, cells : Seq(Cell)]

(* The buffer part of TypeOK *)
BufferOK == buf \in Seq(Cell) /\ Len(buf) <= RecvMax /\ len \in 0..Len(buf)

(* The packet that arrives next, and those behind it *)
LEMMA HeadIs ==
  ASSUME TypeOK, net # << >>
  PROVE  /\ Head(net) = net[1] /\ 1 \in 1..Len(net) /\ net[1].cells \in Seq(Cell)
         /\ Len(net[1].cells) \in 1..Block /\ net[1].nal \in DOMAIN sent
         /\ Tail(net) \in Seq(WirePacket) /\ Len(Tail(net)) = Len(net) - 1 /\ Len(net) \in Nat
         /\ \A k \in 1..(Len(net) - 1) : Tail(net)[k] = net[k + 1]
<1>1. net \in Seq(WirePacket) /\ \A k \in DOMAIN net : Len(net[k].cells) \in 1..Block
  BY DEF TypeOK, WirePacket
<1>2. net[1] \in WirePacket /\ 1 \in 1..Len(net) /\ Head(net) = net[1] /\ Len(net) \in Nat
  <2> DEFINE R == WirePacket
  <2>1. net \in Seq(R)
    BY <1>1
  <2> HIDE DEF R
  <2>2. 1 \in 1..Len(net) /\ Len(net) \in Nat
    BY <2>1, EmptySeq
  <2>3. net[1] \in R
    BY <2>1, <2>2, ElementOfSeq
  <2>4. Head(net) = net[1]
    BY <2>1
  <2> QED BY <2>2, <2>3, <2>4 DEF R
<1>3. net[1].cells \in Seq(Cell) /\ net[1].nal \in DOMAIN sent
  BY <1>2 DEF WirePacket
<1>4. Len(net[1].cells) \in 1..Block
  BY <1>1, <1>2
<1>5. /\ Tail(net) \in Seq(WirePacket) /\ Len(Tail(net)) = Len(net) - 1
      /\ \A k \in 1..(Len(net) - 1) : Tail(net)[k] = net[k + 1]
  BY <1>1, HeadTailProperties
<1> QED BY <1>2, <1>3, <1>4, <1>5

(* The steps of the receiver leave the buffer as TypeOK has it. *)
LEMMA TypeReceive ==
  ASSUME TypeOK, StartFrame \/ JoinPacket
  PROVE  TypeOK'
<1>1. net # << >> /\ net' = Tail(net) /\ UNCHANGED <<sent, faults, hurt>>
  BY DEF StartFrame, JoinPacket
<1>2. buf \in Seq(Cell) /\ Len(buf) <= RecvMax /\ len \in 0..Len(buf) /\ 0 \in 0..Len(buf)
  BY DEF TypeOK
<1>3. /\ Head(net) = net[1] /\ net[1].cells \in Seq(Cell) /\ Len(net) \in Nat
      /\ Tail(net) \in Seq(WirePacket) /\ Len(Tail(net)) = Len(net) - 1
      /\ \A k \in 1..(Len(net) - 1) : Tail(net)[k] = net[k + 1]
  BY <1>1, HeadIs
<1>4. net' \in Seq(WirePacket)' /\ \A k \in DOMAIN net' : Len(net'[k].cells) \in 1..Block
  <2>1. WirePacket' = WirePacket
    BY <1>1 DEF WirePacket
  <2>2. ASSUME NEW k \in DOMAIN Tail(net) PROVE Len(Tail(net)[k].cells) \in 1..Block
    <3>1. DOMAIN Tail(net) = 1..(Len(net) - 1)
      BY <1>3, LenProperties
    <3>2. k + 1 \in 1..Len(net) /\ Tail(net)[k] = net[k + 1]
      BY <1>3, <3>1
    <3>3. DOMAIN net = 1..Len(net)
      BY DEF TypeOK
    <3>4. \A j \in DOMAIN net : Len(net[j].cells) \in 1..Block
      BY DEF TypeOK
    <3> QED BY <3>2, <3>3, <3>4
  <2> QED BY <1>1, <1>3, <2>1, <2>2
<1>5. BufferOK'
  <2>1. ASSUME NEW l \in 0..Len(buf),
               buf' = fillFrameBuff(l, net[1].cells).buf, len' = fillFrameBuff(l, net[1].cells).len
        PROVE  buf' \in Seq(Cell) /\ Len(buf') <= RecvMax /\ len' \in 0..Len(buf')
    <3> DEFINE new == fillFrameBuff(l, net[1].cells)
    <3>1. new.buf \in Seq(Cell) /\ Len(new.buf) <= RecvMax /\ new.len \in 0..Len(new.buf)
      BY <1>2, <1>3, FillIs
    <3> HIDE DEF new
    <3>2. buf' = new.buf /\ len' = new.len
      BY <2>1 DEF new
    <3> QED BY <3>1, <3>2
  <2>2. CASE StartFrame
    <3>1. buf' = fillFrameBuff(0, net[1].cells).buf /\ len' = fillFrameBuff(0, net[1].cells).len
      BY <2>2, <1>3 DEF StartFrame
    <3> QED BY <3>1, <2>1, <1>2 DEF BufferOK
  <2>3. CASE JoinPacket
    <3>1. buf' = fillFrameBuff(len, net[1].cells).buf /\ len' = fillFrameBuff(len, net[1].cells).len
      BY <2>3, <1>3 DEF JoinPacket
    <3> QED BY <3>1, <2>1, <1>2 DEF BufferOK
  <2> QED BY <2>2, <2>3
<1>6. out' \in Seq(Seq(Cell) \ {<< >>})
  <2> DEFINE F == Seq(Cell) \ {<< >>}
  <2>1. out \in Seq(F)
    BY DEF TypeOK
  <2>2. cutPsHeader \in Seq(Cell)
    <3>1. PICK v \in [0..len -> ScanState] : Scans(v) /\ cutPsHeader = v[len].video
      BY <1>2, ScanIs
    <3>2. len \in 0..len
      BY <1>2
    <3>3. v[len] \in ScanState
      BY <3>2
    <3> QED BY <3>1, <3>3 DEF ScanState
  <2>3. out' = out \/ (cutPsHeader # << >> /\ out' = Append(out, cutPsHeader))
    BY DEF StartFrame, JoinPacket
  <2>4. CASE out' = out
    BY <2>1, <2>4
  <2>5. CASE cutPsHeader # << >> /\ out' = Append(out, cutPsHeader)
    <3> DEFINE c == cutPsHeader
    <3>1. c \in F
      BY <2>2, <2>5
    <3> HIDE DEF F, c
    <3>2. Append(out, c) \in Seq(F)
      BY <2>1, <3>1, AppendProperties
    <3> QED BY <3>2, <2>5 DEF c, F
  <2> QED BY <2>3, <2>4, <2>5
<1>7. sent' \in Seq(Nal) /\ Len(sent') <= MaxNal /\ faults' \in 0..MaxFaults /\ hurt' \subseteq DOMAIN sent'
  BY <1>1 DEF TypeOK
<1> QED BY <1>4, <1>5, <1>6, <1>7 DEF TypeOK, WirePacket, BufferOK

(* What inputFrameData does to sent and net *)
LEMMA SendIs ==
  ASSUME TypeOK, NEW nal \in Nal, inputFrameData(nal)
  PROVE  LET i == Len(sent) + 1
             B == Blocks(i, h264PsMux(i, nal))
         IN  /\ Len(sent) \in Nat /\ i \in Nat /\ nal.type # "other" /\ i <= MaxNal
             /\ sent' \in Seq(Nal) /\ Len(sent') = i /\ DOMAIN sent = 1..Len(sent) /\ DOMAIN sent' = 1..i
             /\ sent'[i] = nal /\ \A k \in 1..Len(sent) : sent'[k] = sent[k]
             /\ net' = net \o B /\ net' \in Seq(WirePacket') /\ Len(net) \in Nat
             /\ Len(net') = Len(net) + NumBlocks(i, nal)
             /\ \A k \in 1..Len(net) : net'[k] = net[k]
             /\ \A k \in 1..NumBlocks(i, nal) : net'[Len(net) + k] = Packet(i, nal, k)
<1> DEFINE n == Len(sent)
           i == n + 1
           B == Blocks(i, h264PsMux(i, nal))
           m == NumBlocks(i, nal)
           R == WirePacket'
<1>1. sent \in Seq(Nal) /\ n \in Nat /\ i \in Nat
  BY DEF TypeOK
<1>2. i <= MaxNal /\ h264PsMux(i, nal) # << >> /\ sent' = Append(sent, nal) /\ net' = net \o B
  BY DEF inputFrameData
<1>3. nal.type # "other"
  <2>1. h264PsMux(i, nal) # << >> <=> nal.type # "other"
    BY <1>1, MuxIs
  <2> QED BY <1>2, <2>1
<1>4. /\ sent' \in Seq(Nal) /\ Len(sent') = i /\ sent'[i] = nal /\ \A k \in 1..n : sent'[k] = sent[k]
      /\ DOMAIN sent = 1..n /\ DOMAIN sent' = 1..i
  BY <1>1, <1>2, AppendProperties
<1>5. m \in Nat /\ B \in Seq([nal : {i}, cells : Seq(Cell)]) /\ Len(B) = m
  BY <1>1, <1>3, BlocksAre
<1>6. net \in Seq(WirePacket) /\ Len(net) \in Nat
  BY DEF TypeOK, WirePacket
<1>7. WirePacket \subseteq R /\ [nal : {i}, cells : Seq(Cell)] \subseteq R
  <2>1. 1..n \subseteq 1..i /\ i \in 1..i
    BY <1>1
  <2> HIDE DEF n, i
  <2> QED BY <1>4, <2>1 DEF WirePacket
<1>8. net \in Seq(R) /\ B \in Seq(R)
  <2> HIDE DEF R, B
  <2> QED BY <1>5, <1>6, <1>7, SeqMonotonic
<1> HIDE DEF R, B, m
<1>9. /\ net \o B \in Seq(R) /\ Len(net \o B) = Len(net) + Len(B)
      /\ \A k \in 1..(Len(net) + Len(B)) : (net \o B)[k] = IF k <= Len(net) THEN net[k] ELSE B[k - Len(net)]
  BY <1>8, ConcatProperties
<1> DEFINE b == Len(net)
           s == net \o B
<1>10. s \in Seq(R) /\ Len(s) = b + m /\ \A k \in 1..(b + m) : s[k] = IF k <= b THEN net[k] ELSE B[k - b]
  BY <1>5, <1>9
<1>11. b \in Nat
  BY <1>6
<1> HIDE DEF b, s
<1>12. \A k \in 1..b : s[k] = net[k]
  <2> TAKE k \in 1..b
  <2>1. k \in 1..(b + m) /\ k <= b
    BY <1>5, <1>11
  <2> QED BY <2>1, <1>10
<1>13. \A k \in 1..m : s[b + k] = Packet(i, nal, k)
  <2> TAKE k \in 1..m
  <2> DEFINE j == b + k
  <2>1. j \in 1..(b + m) /\ ~(j <= b) /\ j - b = k
    BY <1>5, <1>11
  <2> HIDE DEF j
  <2>2. s[j] = B[k]
    BY <2>1, <1>10
  <2> QED BY <2>2 DEF j, B, Packet
<1> QED BY <1>1, <1>2, <1>3, <1>4, <1>6, <1>10, <1>12, <1>13 DEF s, b, m, R, B

(* inputFrameData keeps the types. *)
LEMMA TypeSend ==
  ASSUME TypeOK, NEW nal \in Nal, inputFrameData(nal)
  PROVE  TypeOK'
<1> DEFINE n == Len(sent)
           i == n + 1
           b == Len(net)
           m == NumBlocks(i, nal)
<1>1. /\ n \in Nat /\ i \in Nat /\ nal.type # "other" /\ i <= MaxNal
      /\ sent' \in Seq(Nal) /\ Len(sent') = i /\ DOMAIN sent = 1..n /\ DOMAIN sent' = 1..i
      /\ net' \in Seq(WirePacket') /\ b \in Nat
      /\ Len(net') = b + m
      /\ \A k \in 1..b : net'[k] = net[k]
      /\ \A k \in 1..m : net'[b + k] = Packet(i, nal, k)
  BY SendIs
<1>2. UNCHANGED <<faults, hurt, buf, len, out>>
  BY DEF inputFrameData
<1>3. \A k \in DOMAIN net : Len(net[k].cells) \in 1..Block
  BY DEF TypeOK
<1>4. DOMAIN net = 1..b
  BY DEF TypeOK, b
<1>5. m \in Nat /\ DOMAIN net' = 1..(b + m)
  <2>1. m \in Nat
    BY <1>1, BlocksAre
  <2> HIDE DEF m, b
  <2>2. net' \in Seq(WirePacket') /\ Len(net') = b + m
    BY <1>1
  <2> QED BY <2>1, <2>2, LenProperties
<1>6. \A k \in 1..m : Len(Packet(i, nal, k).cells) \in 1..Block
  BY <1>1, BlockIs
<1> HIDE DEF b, m, n
<1>7. \A k \in DOMAIN net' : Len(net'[k].cells) \in 1..Block
  <2> TAKE k \in DOMAIN net'
  <2>1. CASE k <= b
    <3>1. k \in 1..b
      BY <2>1, <1>5
    <3> QED BY <3>1, <1>1, <1>3, <1>4
  <2>2. CASE ~(k <= b)
    <3> DEFINE j == k - b
    <3>1. j \in 1..m /\ b + j = k
      BY <2>2, <1>1, <1>5
    <3> HIDE DEF j
    <3>2. net'[b + j] = Packet(i, nal, j)
      BY <3>1, <1>1
    <3>3. Len(Packet(i, nal, j).cells) \in 1..Block
      BY <3>1, <1>6
    <3>4. net'[k] = Packet(i, nal, j)
      BY <3>1, <3>2
    <3> QED BY <3>3, <3>4
  <2> QED BY <2>1, <2>2
<1>8. hurt' \subseteq DOMAIN sent' /\ faults' \in 0..MaxFaults
  <2>1. 1..n \subseteq 1..i
    BY <1>1
  <2>2. hurt \subseteq DOMAIN sent /\ faults \in 0..MaxFaults
    BY DEF TypeOK
  <2> HIDE DEF i
  <2> QED BY <1>1, <1>2, <2>1, <2>2
<1>9. BufferOK' /\ out' \in Seq(Seq(Cell) \ {<< >>})
  BY <1>2 DEF TypeOK, BufferOK
<1>10. sent' \in Seq(Nal) /\ Len(sent') <= MaxNal
  BY <1>1
<1> QED BY <1>1, <1>7, <1>8, <1>9, <1>10 DEF TypeOK, WirePacket, BufferOK

(* What one fault does to net: the packet at k is lost, overtakes the one before
   it, or comes twice. *)
LostAt(k) == /\ Len(net') = Len(net) - 1 /\ hurt' = hurt \union {net[k].nal}
             /\ \A j \in 1..(Len(net) - 1) : net'[j] = IF j < k THEN net[j] ELSE net[j + 1]
SwappedAt(k) == /\ k > 1 /\ Len(net') = Len(net)
                /\ hurt' = hurt \union {net[k].nal, net[k - 1].nal}
                /\ net'[k] = net[k - 1] /\ net'[k - 1] = net[k]
                /\ \A j \in 1..Len(net) : j # k /\ j # k - 1 => net'[j] = net[j]
DoubledAt(k) == /\ Len(net') = Len(net) + 1 /\ hurt' = hurt \union {net[k].nal}
                /\ \A j \in 1..(Len(net) + 1) : net'[j] = IF j <= k THEN net[j] ELSE net[j - 1]

(* Every fault is one of these. *)
LEMMA DisturbIs ==
  ASSUME TypeOK, Disturb
  PROVE  /\ faults' = faults + 1 /\ faults' \in 0..MaxFaults /\ UNCHANGED <<sent, buf, len, out>>
         /\ net' \in Seq(WirePacket) /\ net \in Seq(WirePacket) /\ Len(net) \in Nat
         /\ \E k \in 1..Len(net) : LostAt(k) \/ SwappedAt(k) \/ DoubledAt(k)
<1>1. faults' = faults + 1 /\ faults' \in 0..MaxFaults /\ UNCHANGED <<sent, buf, len, out>>
  <2>1. faults \in 0..MaxFaults /\ MaxFaults \in Nat
    BY Constants DEF TypeOK
  <2>2. faults < MaxFaults /\ faults' = faults + 1 /\ UNCHANGED <<sent, buf, len, out>>
    BY DEF Disturb
  <2>3. faults + 1 \in 0..MaxFaults
    BY <2>1, <2>2
  <2> QED BY <2>2, <2>3
<1>2. net \in Seq(WirePacket) /\ Len(net) \in Nat /\ DOMAIN net = 1..Len(net)
  <2>1. net \in Seq(WirePacket)
    BY DEF TypeOK, WirePacket
  <2> QED BY <2>1, LenProperties
<1>3. PICK k \in 1..Len(net) : Lose(k) \/ Swap(k) \/ Duplicate(k)
  BY <1>2 DEF Disturb
<1>4. net[k] \in WirePacket
  BY <1>2, ElementOfSeq
<1>5. CASE Lose(k)
  <2>1. /\ RemoveAt(net, k) \in Seq(WirePacket) /\ Len(RemoveAt(net, k)) = Len(net) - 1
        /\ \A i \in 1..(Len(net) - 1) : RemoveAt(net, k)[i] = IF i < k THEN net[i] ELSE net[i + 1]
    BY <1>2, RemoveAtIs
  <2>2. net' = RemoveAt(net, k) /\ hurt' = hurt \union {net[k].nal}
    BY <1>5 DEF Lose
  <2>3. LostAt(k)
    BY <2>1, <2>2 DEF LostAt
  <2>4. net' \in Seq(WirePacket)
    BY <2>1, <2>2
  <2> QED BY <1>1, <1>2, <2>3, <2>4
<1>6. CASE Swap(k)
  <2> DEFINE s == [net EXCEPT ![k] = net[k - 1]]
             t == [s EXCEPT ![k - 1] = net[k]]
  <2>1. k > 1 /\ net' = t /\ hurt' = hurt \union {net[k].nal, net[k - 1].nal}
    BY <1>6 DEF Swap
  <2>2. k - 1 \in 1..Len(net) /\ k - 1 # k
    BY <2>1, <1>2
  <2>3. net[k - 1] \in WirePacket
    BY <1>2, <2>2, ElementOfSeq
  <2>4. /\ s \in Seq(WirePacket) /\ Len(s) = Len(net)
        /\ \A j \in 1..Len(net) : s[j] = IF j = k THEN net[k - 1] ELSE net[j]
    BY <1>2, <2>3, ExceptSeq
  <2> HIDE DEF s
  <2>5. /\ t \in Seq(WirePacket) /\ Len(t) = Len(net)
        /\ \A j \in 1..Len(net) : t[j] = IF j = k - 1 THEN net[k] ELSE s[j]
    <3>1. k - 1 \in 1..Len(s)
      BY <2>2, <2>4
    <3> DEFINE e == net[k]
               m == k - 1
    <3>2. e \in WirePacket /\ m \in 1..Len(s)
      BY <1>4, <3>1
    <3> HIDE DEF e, m
    <3>3. /\ [s EXCEPT ![m] = e] \in Seq(WirePacket) /\ Len([s EXCEPT ![m] = e]) = Len(s)
          /\ \A j \in 1..Len(s) : [s EXCEPT ![m] = e][j] = IF j = m THEN e ELSE s[j]
      BY <2>4, <3>2, ExceptSeq
    <3> QED BY <3>3, <2>4 DEF e, m
  <2> HIDE DEF t
  <2>6. t[k] = net[k - 1] /\ t[k - 1] = net[k] /\ \A j \in 1..Len(net) : j # k /\ j # k - 1 => t[j] = net[j]
    BY <2>2, <2>4, <2>5
  <2>7. SwappedAt(k)
    BY <2>1, <2>5, <2>6 DEF SwappedAt
  <2>8. net' \in Seq(WirePacket)
    BY <2>1, <2>5
  <2> QED BY <1>1, <1>2, <2>7, <2>8
<1>7. CASE Duplicate(k)
  <2> DEFINE e == net[k]
  <2>1. /\ InsertAt(net, k, e) \in Seq(WirePacket) /\ Len(InsertAt(net, k, e)) = Len(net) + 1
        /\ \A i \in 1..(Len(net) + 1) :
             InsertAt(net, k, e)[i] = IF i < k THEN net[i] ELSE IF i = k THEN e ELSE net[i - 1]
    BY <1>2, <1>4, InsertAtIs, SMTT(20)
  <2>2. net' = InsertAt(net, k, e) /\ hurt' = hurt \union {net[k].nal}
    BY <1>7 DEF Duplicate
  <2>3. \A j \in 1..(Len(net) + 1) : net'[j] = IF j <= k THEN net[j] ELSE net[j - 1]
    <3> TAKE j \in 1..(Len(net) + 1)
    <3>1. net'[j] = IF j < k THEN net[j] ELSE IF j = k THEN e ELSE net[j - 1]
      BY <2>1, <2>2
    <3>2. (j < k => j <= k /\ j # k) /\ (j = k => j <= k /\ ~(j < k)) /\ (j > k => ~(j <= k) /\ ~(j < k) /\ j # k)
          /\ (j < k \/ j = k \/ j > k)
      BY <1>2
    <3> QED BY <3>1, <3>2
  <2>4. DoubledAt(k)
    BY <2>1, <2>2, <2>3 DEF DoubledAt
  <2>5. net' \in Seq(WirePacket)
    BY <2>1, <2>2
  <2> QED BY <1>1, <1>2, <2>4, <2>5
<1> QED BY <1>3, <1>5, <1>6, <1>7

(* The network keeps the types. *)
LEMMA TypeDisturb ==
  ASSUME TypeOK, Disturb
  PROVE  TypeOK'
<1>1. /\ faults' \in 0..MaxFaults /\ UNCHANGED <<sent, buf, len, out>>
      /\ net' \in Seq(WirePacket) /\ net \in Seq(WirePacket) /\ Len(net) \in Nat
  BY DisturbIs
<1>2. PICK k \in 1..Len(net) : LostAt(k) \/ SwappedAt(k) \/ DoubledAt(k)
  BY DisturbIs
<1>3. /\ DOMAIN net = 1..Len(net) /\ DOMAIN net' = 1..Len(net')
      /\ \A j \in DOMAIN net : Len(net[j].cells) \in 1..Block
      /\ hurt \subseteq DOMAIN sent
  BY <1>1, LenProperties DEF TypeOK
<1>4. \A j \in 1..Len(net) : net[j].nal \in DOMAIN sent
  <2> TAKE j \in 1..Len(net)
  <2>1. net[j] \in WirePacket
    BY <1>1, ElementOfSeq
  <2> QED BY <2>1 DEF WirePacket
<1>5. /\ \A j \in 1..Len(net') : \E i \in 1..Len(net) : net'[j] = net[i]
      /\ hurt' \subseteq hurt \union {net[j].nal : j \in 1..Len(net)}
  <2>1. CASE LostAt(k)
    <3>1. /\ Len(net') = Len(net) - 1 /\ hurt' = hurt \union {net[k].nal}
          /\ \A j \in 1..(Len(net) - 1) : net'[j] = IF j < k THEN net[j] ELSE net[j + 1]
      BY <2>1 DEF LostAt
    <3>2. \A j \in 1..(Len(net) - 1) : j \in 1..Len(net) /\ j + 1 \in 1..Len(net)
      BY <1>1
    <3> QED BY <3>1, <3>2
  <2>2. CASE SwappedAt(k)
    <3>1. /\ k > 1 /\ Len(net') = Len(net)
          /\ hurt' = hurt \union {net[k].nal, net[k - 1].nal}
          /\ net'[k] = net[k - 1] /\ net'[k - 1] = net[k]
          /\ \A j \in 1..Len(net) : j # k /\ j # k - 1 => net'[j] = net[j]
      BY <2>2 DEF SwappedAt
    <3>2. k - 1 \in 1..Len(net)
      BY <3>1, <1>1
    <3> QED BY <3>1, <3>2
  <2>3. CASE DoubledAt(k)
    <3>1. /\ Len(net') = Len(net) + 1 /\ hurt' = hurt \union {net[k].nal}
          /\ \A j \in 1..(Len(net) + 1) : net'[j] = IF j <= k THEN net[j] ELSE net[j - 1]
      BY <2>3 DEF DoubledAt
    <3>2. ASSUME NEW j \in 1..(Len(net) + 1) PROVE \E i \in 1..Len(net) : net'[j] = net[i]
      <4>1. (j <= k => j \in 1..Len(net)) /\ (~(j <= k) => j - 1 \in 1..Len(net))
        BY <1>1
      <4> QED BY <3>1, <4>1
    <3> QED BY <3>1, <3>2
  <2> QED BY <1>2, <2>1, <2>2, <2>3
<1>6. \A j \in DOMAIN net' : Len(net'[j].cells) \in 1..Block
  BY <1>3, <1>5
<1>7. hurt' \subseteq DOMAIN sent
  BY <1>3, <1>4, <1>5
<1>8. /\ sent' \in Seq(Nal) /\ Len(sent') <= MaxNal
      /\ buf' \in Seq(Cell) /\ Len(buf') <= RecvMax /\ len' \in 0..Len(buf')
      /\ out' \in Seq(Seq(Cell) \ {<< >>})
  BY <1>1 DEF TypeOK
<1>9. net' \in Seq([nal : DOMAIN sent', cells : Seq(Cell)]) /\ hurt' \subseteq DOMAIN sent'
  <2>1. DOMAIN sent' = DOMAIN sent
    BY <1>1
  <2> QED BY <1>1, <1>7, <2>1 DEF WirePacket
<1> QED BY <1>1, <1>6, <1>8, <1>9 DEF TypeOK

(* The types hold at the start. *)
LEMMA TypeInit == Init => TypeOK
<1> SUFFICES ASSUME Init PROVE TypeOK
  OBVIOUS
<1>1. sent = << >> /\ net = << >> /\ out = << >> /\ faults = 0 /\ hurt = {} /\ buf = << >> /\ len = 0
  BY DEF Init
<1>2. MaxNal \in Nat /\ MaxFaults \in Nat /\ RecvMax \in Nat
  BY Constants
<1>3. \A S : << >> \in Seq(S)
  BY EmptySeq
<1>4. Len(<< >>) = 0 /\ DOMAIN << >> = {}
  OBVIOUS
<1>5. sent \in Seq(Nal) /\ Len(sent) <= MaxNal /\ faults \in 0..MaxFaults /\ hurt \subseteq DOMAIN sent
  BY <1>1, <1>2, <1>3, <1>4
<1>6. buf \in Seq(Cell) /\ Len(buf) <= RecvMax /\ len \in 0..Len(buf)
  BY <1>1, <1>2, <1>3, <1>4
<1>7. net \in Seq([nal : DOMAIN sent, cells : Seq(Cell)]) /\ out \in Seq(Seq(Cell) \ {<< >>})
  BY <1>1, <1>3
<1>8. \A k \in DOMAIN net : Len(net[k].cells) \in 1..Block
  BY <1>1, <1>4
<1> QED BY <1>5, <1>6, <1>7, <1>8 DEF TypeOK

(* The variables hold what their descriptions say, whatever the network does:
   the buffer never holds more than RTP_RECV_BUFF_MAX_LEN. *)
THEOREM TypeCorrect == Spec => []TypeOK
<1>1. ASSUME TypeOK, [Next]_vars PROVE TypeOK'
  <2>1. ASSUME NEW nal \in Nal, inputFrameData(nal) PROVE TypeOK'
    BY <1>1, <2>1, TypeSend
  <2>2. CASE Disturb
    BY <1>1, <2>2, TypeDisturb
  <2>3. CASE StartFrame \/ JoinPacket
    BY <1>1, <2>3, TypeReceive
  <2>4. CASE UNCHANGED vars
    BY <1>1, <2>4 DEF vars, TypeOK
  <2> QED BY <1>1, <2>1, <2>2, <2>3, <2>4 DEF Next
<1> QED BY <1>1, TypeInit, PTL DEF Spec
==============================================================================
