------------------------ MODULE MessageFramingProofs ------------------------
(***************************************************************************)
(* Theorems about MessageFraming, for every set of sessions and every way  *)
(* recv() cuts them.  What the recursive functions of the model compute is *)
(* shown by induction over a set of naturals: the library's induction      *)
(* theorems take operators, which no prover here can instantiate, but that *)
(* < is well-founded on Nat needs none.                                    *)
(***************************************************************************)
EXTENDS MessageFraming, WellFoundedInduction, FiniteSetTheorems, SequenceTheorems, TLAPS

----------------------------------------------------------------------------
(* Induction                                                               *)

LEMMA LeastOf ==
  ASSUME NEW T \in SUBSET Nat, T # {}
  PROVE  \E x \in T : \A y \in T : x <= y
<1>1. IsWellFoundedOn(OpToRel(<, Nat), Nat)
  BY NatLessThanWellFounded
<1>2. \E x \in T : \A y \in T : <<y, x>> \notin OpToRel(<, Nat)
  BY <1>1, WFMin
<1>3. ASSUME NEW x \in T, NEW y \in T, y < x PROVE <<y, x>> \in OpToRel(<, Nat)
  <2>1. <<y, x>> \in Nat \X Nat /\ <<y, x>>[1] < <<y, x>>[2]
    BY <1>3
  <2> QED
    BY <2>1, Zenon DEF OpToRel
<1>4. \E x \in T : \A y \in T : ~(y < x)
  BY <1>2, <1>3, Zenon
<1> QED
  BY <1>4

LEMMA Induct ==
  ASSUME NEW A, 0 \in A, \A n \in Nat : n \in A => n + 1 \in A
  PROVE  Nat \subseteq A
<1>1. SUFFICES ASSUME Nat \ A # {} PROVE FALSE
  OBVIOUS
<1>2. PICK x \in Nat \ A : \A y \in Nat \ A : x <= y
  <2>1. Nat \ A \in SUBSET Nat
    OBVIOUS
  <2> QED
    BY <1>1, <2>1, LeastOf
<1>3. x - 1 \in Nat /\ x - 1 \in A
  BY <1>2
<1> QED
  BY <1>2, <1>3

\* f takes the first n steps from x0.
Follows(f, x0, step, n) == f[0] = x0 /\ \A i \in 1..n : f[i] = step[i][f[i - 1]]

LEMMA Recursion ==
  ASSUME NEW X, NEW x0 \in X, NEW step \in [Nat -> [X -> X]], NEW n \in Nat
  PROVE  \E f \in [0..n -> X] : Follows(f, x0, step, n)
<1> DEFINE A == {m \in Nat : \E f \in [0..m -> X] : Follows(f, x0, step, m)}
<1>1. 0 \in A
  <2> DEFINE f0 == [i \in 0..0 |-> x0]
  <2>1. f0 \in [0..0 -> X]
    OBVIOUS
  <2>2. Follows(f0, x0, step, 0)
    BY DEF Follows
  <2> QED
    BY <2>1, <2>2
<1>2. ASSUME NEW m \in Nat, m \in A PROVE m + 1 \in A
  <2>1. PICK f \in [0..m -> X] : Follows(f, x0, step, m)
    BY <1>2
  <2> DEFINE g == [i \in 0..(m + 1) |-> IF i = m + 1 THEN step[m + 1][f[m]] ELSE f[i]]
  <2>2. f[m] \in X /\ step[m + 1][f[m]] \in X
    BY <2>1
  <2>3. g \in [0..(m + 1) -> X]
    BY <2>1, <2>2
  <2>4. g[0] = x0
    BY <2>1 DEF Follows
  <2>5. ASSUME NEW i \in 1..(m + 1) PROVE g[i] = step[i][g[i - 1]]
    BY <2>1 DEF Follows
  <2>6. Follows(g, x0, step, m + 1)
    <3> HIDE DEF g
    <3> QED BY <2>4, <2>5 DEF Follows
  <2> HIDE DEF g
  <2>7. \E f_1 \in [0..(m + 1) -> X] : Follows(f_1, x0, step, m + 1)
    BY <2>3, <2>6
  <2> QED
    BY <2>7
<1>3. Nat \subseteq A
  <2> HIDE DEF A
  <2> QED BY <1>1, <1>2, Induct
<1> QED
  BY <1>3

----------------------------------------------------------------------------
(* The scan                                                                *)

ScanStates == [depth : Int, str : BOOLEAN, esc : BOOLEAN, pos : Nat, end : Nat]

LEMMA CharsDiffer ==
  /\ Open # Close /\ Open # Quote /\ Open # Backslash
  /\ Close # Quote /\ Close # Backslash /\ Quote # Backslash
  /\ Open \notin Whitespace
BY Zenon DEF Open, Close, Quote, Backslash, Whitespace, Newline

LEMMA ScanStartTyped == ScanStart \in ScanStates
BY DEF ScanStart, ScanStates

\* The scan goes on by one character.
Moved(st, depth, str, esc, end) ==
    [depth |-> depth, str |-> str, esc |-> esc, pos |-> st.pos + 1, end |-> end]

\* ScanChar, case by case.
ScanCases(st, ch, r) ==
    \/ st.end > 0 /\ r = st
    \/ st.end = 0 /\ st.esc /\ r = Moved(st, st.depth, st.str, FALSE, 0)
    \/ st.end = 0 /\ ~st.esc /\ ch = Backslash /\ r = Moved(st, st.depth, st.str, TRUE, 0)
    \/ st.end = 0 /\ ~st.esc /\ ch = Quote /\ r = Moved(st, st.depth, ~st.str, FALSE, 0)
    \/ st.end = 0 /\ ~st.esc /\ ~st.str /\ ch = Open
       /\ r = Moved(st, st.depth + 1, st.str, FALSE, 0)
    \/ st.end = 0 /\ ~st.esc /\ ~st.str /\ ch = Close
       /\ r = Moved(st, st.depth - 1, st.str, FALSE, IF st.depth = 1 THEN st.pos + 1 ELSE 0)
    \/ st.end = 0 /\ ~st.esc /\ ch \notin {Backslash, Quote} /\ (st.str \/ ch \notin {Open, Close})
       /\ r = Moved(st, st.depth, st.str, FALSE, 0)

LEMMA ScanCharCases ==
  ASSUME NEW st \in ScanStates, NEW ch
  PROVE  ScanCases(st, ch, ScanChar(st, ch))
<1> DEFINE at == [st EXCEPT !.pos = @ + 1]
<1>1. st.end > 0 \/ st.end = 0
  BY DEF ScanStates
<1>2. st.end > 0 => ~(st.end = 0)
  BY DEF ScanStates
<1>3. CASE st.end > 0
  <2>1. ScanChar(st, ch) = st
    BY <1>2, <1>3, Zenon DEF ScanChar
  <2> QED
    BY <2>1, <1>3, Zenon DEF ScanCases
<1>4. ASSUME st.end = 0 PROVE ScanCases(st, ch, ScanChar(st, ch))
  <2>1. ~(st.end > 0)
    BY <1>2, <1>4
  <2>2. CASE st.esc
    <3>1. ScanChar(st, ch) = [at EXCEPT !.esc = FALSE]
      BY <1>4, <2>1, <2>2, Zenon DEF ScanChar
    <3>2. ScanChar(st, ch) = Moved(st, st.depth, st.str, FALSE, 0)
      BY <3>1, <1>4, <2>2 DEF ScanStates, Moved
    <3> QED
      BY <3>2, <1>4, <2>2, Zenon DEF ScanCases
  <2>3. CASE ~st.esc /\ ch = Backslash
    <3>1. ScanChar(st, ch) = [at EXCEPT !.esc = TRUE]
      BY <1>4, <2>1, <2>3, CharsDiffer, Zenon DEF ScanChar
    <3>2. ScanChar(st, ch) = Moved(st, st.depth, st.str, TRUE, 0)
      BY <3>1, <1>4, <2>3 DEF ScanStates, Moved
    <3> QED
      BY <3>2, <1>4, <2>3, Zenon DEF ScanCases
  <2>4. CASE ~st.esc /\ ch = Quote
    <3>1. ScanChar(st, ch) = [at EXCEPT !.str = ~@]
      BY <1>4, <2>1, <2>4, CharsDiffer, Zenon DEF ScanChar
    <3>2. ScanChar(st, ch) = Moved(st, st.depth, ~st.str, FALSE, 0)
      BY <3>1, <1>4, <2>4 DEF ScanStates, Moved
    <3> QED
      BY <3>2, <1>4, <2>4, Zenon DEF ScanCases
  <2>5. CASE ~st.esc /\ ~st.str /\ ch = Open
    <3>1. ScanChar(st, ch) = [at EXCEPT !.depth = @ + 1]
      BY <1>4, <2>1, <2>5, CharsDiffer, Zenon DEF ScanChar
    <3>2. ScanChar(st, ch) = Moved(st, st.depth + 1, st.str, FALSE, 0)
      BY <3>1, <1>4, <2>5 DEF ScanStates, Moved
    <3> QED
      BY <3>2, <1>4, <2>5, Zenon DEF ScanCases
  <2>6. CASE ~st.esc /\ ~st.str /\ ch = Close
    <3>1. ScanChar(st, ch) = [at EXCEPT !.depth = @ - 1, !.end = IF st.depth = 1 THEN at.pos ELSE 0]
      BY <1>4, <2>1, <2>6, CharsDiffer, Zenon DEF ScanChar
    <3>2. ScanChar(st, ch) = Moved(st, st.depth - 1, st.str, FALSE, IF st.depth = 1 THEN st.pos + 1 ELSE 0)
      BY <3>1, <1>4, <2>6 DEF ScanStates, Moved
    <3> QED
      BY <3>2, <1>4, <2>6, Zenon DEF ScanCases
  <2>7. CASE ~st.esc /\ ch \notin {Backslash, Quote} /\ (st.str \/ ch \notin {Open, Close})
    <3>1. ScanChar(st, ch) = at
      BY <1>4, <2>1, <2>7, Zenon DEF ScanChar
    <3>2. ScanChar(st, ch) = Moved(st, st.depth, st.str, FALSE, 0)
      BY <3>1, <1>4, <2>7 DEF ScanStates, Moved
    <3> QED
      BY <3>2, <1>4, <2>7, Zenon DEF ScanCases
  <2> QED
    BY <2>2, <2>3, <2>4, <2>5, <2>6, <2>7, Zenon
<1> QED
  BY <1>1, <1>3, <1>4

LEMMA ScanCharTyped ==
  ASSUME NEW st \in ScanStates, NEW ch
  PROVE  ScanChar(st, ch) \in ScanStates
<1> DEFINE r == ScanChar(st, ch)
<1>1. ScanCases(st, ch, r)
  BY ScanCharCases
<1> HIDE DEF r
<1>2. \A d \in Int, s, e \in BOOLEAN, n \in Nat : Moved(st, d, s, e, n) \in ScanStates
  BY DEF Moved, ScanStates
<1>3. /\ st.depth \in Int /\ st.depth + 1 \in Int /\ st.depth - 1 \in Int
      /\ st.str \in BOOLEAN /\ (~st.str) \in BOOLEAN
      /\ 0 \in Nat /\ (IF st.depth = 1 THEN st.pos + 1 ELSE 0) \in Nat
  BY DEF ScanStates
<1>4. r \in ScanStates
  BY <1>1, <1>2, <1>3, Zenon DEF ScanCases
<1> QED
  BY <1>4 DEF r

\* The recursion of Scan has a solution.
IsScan(f, s) ==
    f = [i \in 0..Len(s) |-> IF i = 0 THEN ScanStart ELSE ScanChar(f[i - 1], s[i])]

LEMMA ScanDef ==
  ASSUME NEW s \in Seq(Chars)
  PROVE  /\ Scan(s) \in [0..Len(s) -> ScanStates]
         /\ Scan(s)[0] = ScanStart
         /\ \A i \in 1..Len(s) : Scan(s)[i] = ScanChar(Scan(s)[i - 1], s[i])
<1> DEFINE step == [i \in Nat |-> [st \in ScanStates |->
                        IF i \in 1..Len(s) THEN ScanChar(st, s[i]) ELSE st]]
<1>1. step \in [Nat -> [ScanStates -> ScanStates]]
  BY ScanCharTyped
<1>2. PICK f \in [0..Len(s) -> ScanStates] : Follows(f, ScanStart, step, Len(s))
  <2> HIDE DEF step
  <2> QED
    BY <1>1, Recursion, ScanStartTyped, Len(s) \in Nat
<1>3. ASSUME NEW i \in 1..Len(s) PROVE f[i] = ScanChar(f[i - 1], s[i])
  <2>1. i \in Nat /\ i - 1 \in 0..Len(s) /\ f[i - 1] \in ScanStates
    OBVIOUS
  <2>2. step[i][f[i - 1]] = ScanChar(f[i - 1], s[i])
    BY <2>1
  <2> QED
    BY <2>2, <1>2 DEF Follows
<1>4. IsScan(f, s)
  BY <1>2, <1>3 DEF IsScan, Follows
<1>5. IsScan(CHOOSE h : IsScan(h, s), s)
  BY <1>4
<1>6. IsScan(Scan(s), s)
  BY <1>5, Zenon DEF Scan, IsScan
<1> DEFINE h == Scan(s)
<1>7. h = [i \in 0..Len(s) |-> IF i = 0 THEN ScanStart ELSE ScanChar(h[i - 1], s[i])]
  BY <1>6 DEF IsScan
<1> HIDE DEF h
<1>8. h[0] = ScanStart /\ \A i \in 1..Len(s) : h[i] = ScanChar(h[i - 1], s[i])
  BY <1>7
<1>9. \A i \in 0..Len(s) : h[i] \in ScanStates
  <2> DEFINE A == {i \in Nat : i \in 0..Len(s) => h[i] \in ScanStates}
  <2>1. 0 \in A
    BY <1>8, ScanStartTyped
  <2>2. ASSUME NEW n \in Nat, n \in A PROVE n + 1 \in A
    BY <2>2, <1>8, ScanCharTyped
  <2>3. Nat \subseteq A
    <3> HIDE DEF A
    <3> QED BY <2>1, <2>2, Induct
  <2> QED
    BY <2>3
<1>10. h \in [0..Len(s) -> ScanStates]
  BY <1>7, <1>9
<1> QED
  BY <1>8, <1>10 DEF h

\* The scan counts its characters, until the object ends.
LEMMA ScanBounds ==
  ASSUME NEW s \in Seq(Chars)
  PROVE  \A i \in 0..Len(s) : /\ Scan(s)[i].end \in 0..i
                              /\ Scan(s)[i].end = 0 => Scan(s)[i].pos = i
<1> DEFINE h == Scan(s)
<1>1. /\ h \in [0..Len(s) -> ScanStates]
      /\ h[0] = ScanStart
      /\ \A i \in 1..Len(s) : h[i] = ScanChar(h[i - 1], s[i])
  BY ScanDef
<1> HIDE DEF h
<1> DEFINE A == {i \in Nat : i \in 0..Len(s) => h[i].end \in 0..i /\ (h[i].end = 0 => h[i].pos = i)}
<1>2. 0 \in A
  BY <1>1 DEF ScanStart
<1>3. ASSUME NEW n \in Nat, n \in A PROVE n + 1 \in A
  <2>1. SUFFICES ASSUME n + 1 \in 0..Len(s)
                 PROVE  h[n + 1].end \in 0..(n + 1) /\ (h[n + 1].end = 0 => h[n + 1].pos = n + 1)
    OBVIOUS
  <2>2. PICK st \in ScanStates : st = h[n]
    BY <1>1, <2>1
  <2>3. st.end \in 0..n /\ (st.end = 0 => st.pos = n) /\ st.pos \in Nat /\ st.str \in BOOLEAN
    BY <1>3, <2>1, <2>2 DEF ScanStates
  <2>4. h[n + 1] = ScanChar(st, s[n + 1])
    BY <1>1, <2>1, <2>2
  <2> DEFINE ch == s[n + 1]
  <2> HIDE DEF ch
  <2>5. h[n + 1] = ScanChar(st, ch)
    BY <2>4 DEF ch
  <2>6. ScanCases(st, ch, h[n + 1])
    BY <2>5, ScanCharCases
  <2> QED
    BY <2>3, <2>6 DEF ScanCases, Moved
<1>4. Nat \subseteq A
  <2> HIDE DEF A
  <2> QED BY <1>2, <1>3, Induct
<1> QED
  BY <1>4 DEF h

LEMMA ObjectEndTyped ==
  ASSUME NEW s \in Seq(Chars)
  PROVE  ObjectEnd(s) \in 0..Len(s)
BY ScanBounds, Len(s) \in Nat DEF ObjectEnd

\* Behind its end, the scan finds no other.
LEMMA ScanSticks ==
  ASSUME NEW s \in Seq(Chars), NEW k \in 0..Len(s), Scan(s)[k].end > 0
  PROVE  ObjectEnd(s) = Scan(s)[k].end
<1> DEFINE h == Scan(s)
<1>1. /\ h \in [0..Len(s) -> ScanStates]
      /\ \A i \in 1..Len(s) : h[i] = ScanChar(h[i - 1], s[i])
      /\ h[k].end > 0
  BY ScanDef
<1> HIDE DEF h
<1> DEFINE A == {i \in Nat : i \in k..Len(s) => h[i] = h[k]}
<1>2. 0 \in A
  BY <1>1
<1>3. ASSUME NEW n \in Nat, n \in A PROVE n + 1 \in A
  <2>1. SUFFICES ASSUME n + 1 \in k..Len(s), n + 1 # k PROVE h[n + 1] = h[k]
    OBVIOUS
  <2>2. h[n] = h[k] /\ h[k] \in ScanStates
    BY <1>3, <1>1, <2>1
  <2>3. h[n + 1] = ScanChar(h[k], s[n + 1])
    BY <1>1, <2>1, <2>2
  <2>4. ScanCases(h[k], s[n + 1], h[n + 1])
    BY <2>2, <2>3, ScanCharCases
  <2>5. ~(h[k].end = 0)
    BY <1>1
  <2> QED
    BY <2>2, <2>4, <2>5, Zenon DEF ScanCases
<1>4. Nat \subseteq A
  <2> HIDE DEF A
  <2> QED BY <1>2, <1>3, Induct
<1>5. Len(s) \in A /\ Len(s) \in k..Len(s)
  BY <1>4
<1> QED
  BY <1>5 DEF h, ObjectEnd
----------------------------------------------------------------------------
(* Objects                                                                 *)

IsEscaped(f, m) ==
    f = [i \in 0..Len(m) |-> i > 1 /\ m[i - 1] = Backslash /\ ~f[i - 1]]

LEMMA EscapedDef ==
  ASSUME NEW m \in Seq(Chars)
  PROVE  /\ Escaped(m)[0] = FALSE
         /\ \A i \in 1..Len(m) :
                Escaped(m)[i] = (i > 1 /\ m[i - 1] = Backslash /\ ~Escaped(m)[i - 1])
<1> DEFINE step == [i \in Nat |-> [b \in BOOLEAN |-> i > 1 /\ m[i - 1] = Backslash /\ ~b]]
<1>1. step \in [Nat -> [BOOLEAN -> BOOLEAN]]
  OBVIOUS
<1>2. PICK f \in [0..Len(m) -> BOOLEAN] : Follows(f, FALSE, step, Len(m))
  <2> HIDE DEF step
  <2> QED
    BY <1>1, Recursion, Len(m) \in Nat, FALSE \in BOOLEAN
<1>3. ASSUME NEW i \in 0..Len(m) PROVE f[i] = (i > 1 /\ m[i - 1] = Backslash /\ ~f[i - 1])
  <2>1. CASE i = 0
    BY <2>1, <1>2 DEF Follows
  <2>2. CASE i # 0
    <3>1. i \in Nat /\ i \in 1..Len(m) /\ i - 1 \in 0..Len(m) /\ f[i - 1] \in BOOLEAN
      BY <2>2
    <3>2. step[i][f[i - 1]] = (i > 1 /\ m[i - 1] = Backslash /\ ~f[i - 1])
      BY <3>1
    <3>3. f[i] = step[i][f[i - 1]]
      BY <3>1, <1>2, Zenon DEF Follows
    <3> QED
      BY <3>2, <3>3, Zenon
  <2> QED
    BY <2>1, <2>2
<1>4. IsEscaped(f, m)
  BY <1>3, Zenon DEF IsEscaped
<1>5. IsEscaped(CHOOSE h : IsEscaped(h, m), m)
  BY <1>4
<1>6. IsEscaped(Escaped(m), m)
  BY <1>5, Zenon DEF Escaped, IsEscaped
<1> DEFINE h == Escaped(m)
<1>7. h = [i \in 0..Len(m) |-> i > 1 /\ m[i - 1] = Backslash /\ ~h[i - 1]]
  BY <1>6 DEF IsEscaped
<1> HIDE DEF h
<1>8. \A i \in 0..Len(m) : h[i] = (i > 1 /\ m[i - 1] = Backslash /\ ~h[i - 1])
  BY <1>7, Zenon
<1>9. h[0] = FALSE
  <2>1. ~(0 > 1) /\ 0 \in 0..Len(m)
    OBVIOUS
  <2> QED
    BY <1>8, <2>1, Zenon
<1>10. \A i \in 1..Len(m) : i \in 0..Len(m)
  OBVIOUS
<1> QED
  BY <1>8, <1>9, <1>10, Zenon DEF h

LEMMA PlainGrows ==
  ASSUME NEW m \in Seq(Chars), NEW i \in 0..(Len(m) - 1), NEW ch
  PROVE  /\ m[i + 1] = ch /\ ~Escaped(m)[i + 1] => Plain(m, ch, i + 1) = Plain(m, ch, i) \cup {i + 1}
         /\ ~(m[i + 1] = ch /\ ~Escaped(m)[i + 1]) => Plain(m, ch, i + 1) = Plain(m, ch, i)
         /\ Plain(m, ch, i) \subseteq 1..i
         /\ IsFiniteSet(Plain(m, ch, i))
<1>1. 1..(i + 1) = (1..i) \cup {i + 1} /\ i + 1 \notin 1..i
  OBVIOUS
<1>2. Plain(m, ch, i) \subseteq 1..i /\ IsFiniteSet(1..i)
  BY FS_Interval DEF Plain
<1>3. IsFiniteSet(Plain(m, ch, i))
  BY <1>2, FS_Subset
<1> QED
  BY <1>1, <1>2, <1>3, Zenon DEF Plain

\* One more element, one more in the count.
LEMMA CountGrows ==
  ASSUME NEW S, IsFiniteSet(S), NEW x, x \notin S
  PROVE  Cardinality(S) \in Nat /\ Cardinality(S \cup {x}) = Cardinality(S) + 1
BY FS_AddElement, FS_CardinalityType

LEMMA InStringFlips ==
  ASSUME NEW m \in Seq(Chars), NEW i \in 0..(Len(m) - 1)
  PROVE  /\ m[i + 1] = Quote /\ ~Escaped(m)[i + 1] => (InString(m, i + 1) <=> ~InString(m, i))
         /\ ~(m[i + 1] = Quote /\ ~Escaped(m)[i + 1]) => (InString(m, i + 1) <=> InString(m, i))
<1> DEFINE q == Plain(m, Quote, i)
<1>1. i + 1 \notin q /\ IsFiniteSet(q)
  BY PlainGrows
<1>2. Cardinality(q) \in Nat /\ Cardinality(q \cup {i + 1}) = Cardinality(q) + 1
  <2> HIDE DEF q
  <2> QED BY <1>1, CountGrows
<1>3. ASSUME m[i + 1] = Quote, ~Escaped(m)[i + 1] PROVE InString(m, i + 1) <=> ~InString(m, i)
  <2>1. Plain(m, Quote, i + 1) = q \cup {i + 1}
    BY <1>3, PlainGrows
  <2>2. (Cardinality(q) + 1) % 2 = 1 <=> ~(Cardinality(q) % 2 = 1)
    <3> HIDE DEF q
    <3> QED BY <1>2
  <2> QED
    BY <2>1, <2>2, <1>2 DEF InString
<1>4. ASSUME ~(m[i + 1] = Quote /\ ~Escaped(m)[i + 1]) PROVE InString(m, i + 1) <=> InString(m, i)
  <2>1. Plain(m, Quote, i + 1) = q
    BY <1>4, PlainGrows
  <2> QED
    BY <2>1 DEF InString
<1> QED
  BY <1>3, <1>4

LEMMA BracesGrow ==
  ASSUME NEW m \in Seq(Chars), NEW i \in 0..(Len(m) - 1), NEW ch, ch # Quote
  PROVE  /\ Cardinality(Braces(m, ch, i)) \in Nat
         /\ m[i + 1] = ch /\ ~Escaped(m)[i + 1] /\ ~InString(m, i)
              => Cardinality(Braces(m, ch, i + 1)) = Cardinality(Braces(m, ch, i)) + 1
         /\ ~(m[i + 1] = ch /\ ~Escaped(m)[i + 1] /\ ~InString(m, i))
              => Cardinality(Braces(m, ch, i + 1)) = Cardinality(Braces(m, ch, i))
<1> DEFINE b == Braces(m, ch, i)
<1>1. b \subseteq Plain(m, ch, i) /\ i + 1 \notin Plain(m, ch, i) /\ IsFiniteSet(Plain(m, ch, i))
  BY PlainGrows DEF Braces
<1>2. IsFiniteSet(b) /\ i + 1 \notin b
  BY <1>1, FS_Subset
<1>3. Cardinality(b) \in Nat /\ Cardinality(b \cup {i + 1}) = Cardinality(b) + 1
  <2> HIDE DEF b
  <2> QED BY <1>2, CountGrows
<1>4. ASSUME m[i + 1] = ch, ~Escaped(m)[i + 1] PROVE InString(m, i + 1) <=> InString(m, i)
  BY <1>4, InStringFlips
<1>5. ASSUME m[i + 1] = ch, ~Escaped(m)[i + 1], ~InString(m, i)
      PROVE  Braces(m, ch, i + 1) = b \cup {i + 1}
  <2>1. Plain(m, ch, i + 1) = Plain(m, ch, i) \cup {i + 1}
    BY <1>5, PlainGrows
  <2> QED
    BY <2>1, <1>4, <1>5, Zenon DEF Braces
<1>6. ASSUME ~(m[i + 1] = ch /\ ~Escaped(m)[i + 1] /\ ~InString(m, i))
      PROVE  Braces(m, ch, i + 1) = b
  <2>1. CASE m[i + 1] = ch /\ ~Escaped(m)[i + 1]
    <3>1. Plain(m, ch, i + 1) = Plain(m, ch, i) \cup {i + 1}
      BY <2>1, PlainGrows
    <3> QED
      BY <3>1, <2>1, <1>4, <1>6, Zenon DEF Braces
  <2>2. CASE ~(m[i + 1] = ch /\ ~Escaped(m)[i + 1])
    <3>1. Plain(m, ch, i + 1) = Plain(m, ch, i)
      BY <2>2, PlainGrows
    <3> QED
      BY <3>1 DEF Braces
  <2> QED
    BY <2>1, <2>2
<1> QED
  BY <1>3, <1>5, <1>6
LEMMA DepthMoves ==
  ASSUME NEW m \in Seq(Chars), NEW i \in 0..(Len(m) - 1)
  PROVE  LET out == ~Escaped(m)[i + 1] /\ ~InString(m, i) IN
         /\ Depth(m, i) \in Int
         /\ out /\ m[i + 1] = Open => Depth(m, i + 1) = Depth(m, i) + 1
         /\ out /\ m[i + 1] = Close => Depth(m, i + 1) = Depth(m, i) - 1
         /\ ~(out /\ m[i + 1] \in {Open, Close}) => Depth(m, i + 1) = Depth(m, i)
<1> DEFINE o(j) == Cardinality(Braces(m, Open, j))
           c(j) == Cardinality(Braces(m, Close, j))
           out == ~Escaped(m)[i + 1] /\ ~InString(m, i)
<1>1. /\ o(i) \in Nat
      /\ m[i + 1] = Open /\ out => o(i + 1) = o(i) + 1
      /\ ~(m[i + 1] = Open /\ out) => o(i + 1) = o(i)
  BY BracesGrow, CharsDiffer
<1>2. /\ c(i) \in Nat
      /\ m[i + 1] = Close /\ out => c(i + 1) = c(i) + 1
      /\ ~(m[i + 1] = Close /\ out) => c(i + 1) = c(i)
  BY BracesGrow, CharsDiffer
<1>3. Depth(m, i) = o(i) - c(i) /\ Depth(m, i + 1) = o(i + 1) - c(i + 1)
  BY DEF Depth
<1> HIDE DEF o, c, out
<1>4. /\ Depth(m, i) \in Int
      /\ out /\ m[i + 1] = Open => Depth(m, i + 1) = Depth(m, i) + 1
      /\ out /\ m[i + 1] = Close => Depth(m, i + 1) = Depth(m, i) - 1
      /\ ~(out /\ m[i + 1] \in {Open, Close}) => Depth(m, i + 1) = Depth(m, i)
  BY <1>1, <1>2, <1>3, CharsDiffer
<1> QED
  BY <1>4 DEF out

LEMMA NothingYet ==
  ASSUME NEW m \in Seq(Chars)
  PROVE  Depth(m, 0) = 0 /\ ~InString(m, 0)
<1>1. \A ch : Plain(m, ch, 0) = {} /\ Braces(m, ch, 0) = {}
  BY DEF Plain, Braces
<1>2. Cardinality({}) = 0
  BY FS_EmptySet
<1>3. Depth(m, 0) = 0 - 0
  BY <1>1, <1>2 DEF Depth
<1>4. ~(0 % 2 = 1)
  OBVIOUS
<1>5. ~InString(m, 0)
  BY <1>1, <1>2, <1>4, Zenon DEF InString
<1> QED
  BY <1>3, <1>5

\* The last of the first i characters escapes the next one.
Escapes(m, i) == i > 0 /\ m[i] = Backslash /\ ~Escaped(m)[i]

\* What the scan of the first i characters should know.
Known(m, i, end) ==
    [depth |-> Depth(m, i), str |-> InString(m, i), esc |-> Escapes(m, i), pos |-> i, end |-> end]

LEMMA EscapesNext ==
  ASSUME NEW m \in Seq(Chars), NEW i \in 0..(Len(m) - 1)
  PROVE  Escapes(m, i) <=> Escaped(m)[i + 1]
<1>1. i + 1 \in 1..Len(m) /\ (i + 1) - 1 = i /\ (i + 1 > 1 <=> i > 0)
  OBVIOUS
<1>2. Escaped(m)[i + 1] = (i + 1 > 1 /\ m[(i + 1) - 1] = Backslash /\ ~Escaped(m)[(i + 1) - 1])
  BY <1>1, EscapedDef, Zenon
<1> QED
  BY <1>1, <1>2, Zenon DEF Escapes

LEMMA KnownStep ==
  ASSUME NEW m \in Seq(Chars), NEW i \in 0..(Len(m) - 1), NEW r,
         ScanCases(Known(m, i, 0), m[i + 1], r)
  PROVE  r = Known(m, i + 1, IF Depth(m, i) = 1 /\ Depth(m, i + 1) = 0 THEN i + 1 ELSE 0)
<1> DEFINE st == Known(m, i, 0)
           ch == m[i + 1]
           out == ~Escaped(m)[i + 1] /\ ~InString(m, i)
<1>1. /\ st.depth = Depth(m, i) /\ st.str = InString(m, i) /\ st.esc = Escapes(m, i)
      /\ st.pos = i /\ st.end = 0
  BY DEF Known
<1>2. Escapes(m, i) <=> Escaped(m)[i + 1]
  BY EscapesNext
<1>3. /\ Depth(m, i) \in Int
      /\ out /\ ch = Open => Depth(m, i + 1) = Depth(m, i) + 1
      /\ out /\ ch = Close => Depth(m, i + 1) = Depth(m, i) - 1
      /\ ~(out /\ ch \in {Open, Close}) => Depth(m, i + 1) = Depth(m, i)
  BY DepthMoves
<1>4. /\ ch = Quote /\ ~Escaped(m)[i + 1] => (InString(m, i + 1) <=> ~InString(m, i))
      /\ ~(ch = Quote /\ ~Escaped(m)[i + 1]) => (InString(m, i + 1) <=> InString(m, i))
  BY InStringFlips
<1>5. Escapes(m, i + 1) <=> ch = Backslash /\ ~Escaped(m)[i + 1]
  BY DEF Escapes
<1>6. ScanCases(st, ch, r)
  OBVIOUS
<1>7. InString(m, i) \in BOOLEAN /\ InString(m, i + 1) \in BOOLEAN
      /\ Escapes(m, i) \in BOOLEAN /\ Escapes(m, i + 1) \in BOOLEAN
  BY DEF InString, Escapes
<1> DEFINE D == Depth(m, i + 1)
           S == InString(m, i + 1)
           E == Escapes(m, i + 1)
           e == IF Depth(m, i) = 1 /\ D = 0 THEN i + 1 ELSE 0
<1>8. r = Moved(st, D, S, E, e)
  <2> HIDE DEF st, ch, D, S, E, e
  <2>1. CASE st.esc /\ r = Moved(st, st.depth, st.str, FALSE, 0)
    <3>1. D = st.depth /\ S = st.str /\ E = FALSE /\ e = 0
      BY <1>1, <1>2, <1>3, <1>4, <1>5, <1>7, <2>1 DEF D, S, E, e
    <3> QED BY <2>1, <3>1
  <2>2. CASE ~st.esc /\ ch = Backslash /\ r = Moved(st, st.depth, st.str, TRUE, 0)
    <3>1. D = st.depth /\ S = st.str /\ E = TRUE /\ e = 0
      BY <1>1, <1>2, <1>3, <1>4, <1>5, <1>7, <2>2, CharsDiffer DEF D, S, E, e
    <3> QED BY <2>2, <3>1
  <2>3. CASE ~st.esc /\ ch = Quote /\ r = Moved(st, st.depth, ~st.str, FALSE, 0)
    <3>1. D = st.depth /\ S = (~st.str) /\ E = FALSE /\ e = 0
      BY <1>1, <1>2, <1>3, <1>4, <1>5, <1>7, <2>3, CharsDiffer DEF D, S, E, e
    <3> QED BY <2>3, <3>1
  <2>4. CASE ~st.esc /\ ~st.str /\ ch = Open /\ r = Moved(st, st.depth + 1, st.str, FALSE, 0)
    <3>1. D = st.depth + 1 /\ S = st.str /\ E = FALSE /\ e = 0
      BY <1>1, <1>2, <1>3, <1>4, <1>5, <1>7, <2>4, CharsDiffer DEF D, S, E, e
    <3> QED BY <2>4, <3>1
  <2>5. CASE ~st.esc /\ ~st.str /\ ch = Close
             /\ r = Moved(st, st.depth - 1, st.str, FALSE, IF st.depth = 1 THEN st.pos + 1 ELSE 0)
    <3>1. D = st.depth - 1 /\ S = st.str /\ E = FALSE /\ e = IF st.depth = 1 THEN st.pos + 1 ELSE 0
      BY <1>1, <1>2, <1>3, <1>4, <1>5, <1>7, <2>5, CharsDiffer DEF D, S, E, e
    <3> QED BY <2>5, <3>1
  <2>6. CASE ~st.esc /\ ch \notin {Backslash, Quote} /\ (st.str \/ ch \notin {Open, Close})
             /\ r = Moved(st, st.depth, st.str, FALSE, 0)
    <3>1. D = st.depth /\ S = st.str /\ E = FALSE /\ e = 0
      BY <1>1, <1>2, <1>3, <1>4, <1>5, <1>7, <2>6 DEF D, S, E, e
    <3> QED BY <2>6, <3>1
  <2>7. ~(st.end > 0)
    BY <1>1
  <2> QED
    BY <1>6, <2>1, <2>2, <2>3, <2>4, <2>5, <2>6, <2>7, Zenon DEF ScanCases
<1> QED
  BY <1>1, <1>8 DEF Moved, Known

\* As long as t agrees with an object, the scan of t knows what there is to
\* know of the object, and at its last character that it ends.
LEMMA ScanAgrees ==
  ASSUME NEW m \in Seq(Chars), IsObject(m), NEW t \in Seq(Chars),
         NEW n \in 0..Len(m), n <= Len(t), \A i \in 1..n : t[i] = m[i]
  PROVE  Scan(t)[n] = Known(m, n, IF n = Len(m) THEN n ELSE 0)
<1> DEFINE h == Scan(t)
           want(i) == Known(m, i, IF i = Len(m) THEN i ELSE 0)
<1>1. /\ h \in [0..Len(t) -> ScanStates]
      /\ h[0] = ScanStart
      /\ \A i \in 1..Len(t) : h[i] = ScanChar(h[i - 1], t[i])
  BY ScanDef
<1> HIDE DEF h
<1>2. Len(m) \in Nat /\ Len(m) > 0 /\ Len(t) \in Nat
  BY DEF IsObject
<1> DEFINE A == {i \in Nat : i \in 0..n => h[i] = want(i)}
<1>3. 0 \in A
  <2>1. Depth(m, 0) = 0 /\ InString(m, 0) = FALSE /\ Escapes(m, 0) = FALSE
    BY NothingYet DEF InString, Escapes
  <2>2. ScanStart = Known(m, 0, 0)
    BY <2>1 DEF ScanStart, Known
  <2> QED
    BY <2>2, <1>1, <1>2
<1>4. ASSUME NEW i \in Nat, i \in A PROVE i + 1 \in A
  <2>1. SUFFICES ASSUME i + 1 \in 0..n PROVE h[i + 1] = want(i + 1)
    OBVIOUS
  <2>2. i \in 0..(Len(m) - 1) /\ i + 1 \in 1..Len(t) /\ t[i + 1] = m[i + 1] /\ i \in 0..n
    BY <2>1, <1>2
  <2>3. h[i] = Known(m, i, 0)
    BY <1>4, <2>2, <1>2
  <2>4. h[i + 1] = ScanChar(h[i], m[i + 1]) /\ h[i] \in ScanStates
    BY <1>1, <2>2
  <2>5. ScanCases(Known(m, i, 0), m[i + 1], h[i + 1])
    BY <2>3, <2>4, ScanCharCases
  <2>6. h[i + 1] = Known(m, i + 1, IF Depth(m, i) = 1 /\ Depth(m, i + 1) = 0 THEN i + 1 ELSE 0)
    BY <2>2, <2>5, KnownStep
  <2>7. Depth(m, i) = 1 /\ Depth(m, i + 1) = 0 <=> i + 1 = Len(m)
    <3>1. CASE i + 1 # Len(m)
      <4>1. i + 1 \in 1..(Len(m) - 1)
        BY <3>1, <2>2, <1>2
      <4>2. Depth(m, i + 1) > 0
        BY <4>1 DEF IsObject
      <4> QED
        BY <4>2, <3>1
    <3>2. CASE i + 1 = Len(m)
      <4>1. Depth(m, i + 1) = 0
        BY <3>2 DEF IsObject
      <4>2. /\ Depth(m, i) \in Int
            /\ \/ Depth(m, i + 1) = Depth(m, i) + 1 /\ m[i + 1] = Open
               \/ Depth(m, i + 1) = Depth(m, i) - 1
               \/ Depth(m, i + 1) = Depth(m, i)
        BY <2>2, DepthMoves
      <4>3. CASE i > 0
        <5>1. i \in 1..(Len(m) - 1)
          BY <4>3, <2>2, <1>2
        <5>2. Depth(m, i) > 0
          BY <5>1 DEF IsObject
        <5> QED
          BY <5>2, <4>1, <4>2, <3>2
      <4>4. CASE i = 0
        <5>1. m[i + 1] = Open /\ Depth(m, i) = 0 /\ ~InString(m, i) /\ ~Escapes(m, i)
          BY <4>4, NothingYet DEF IsObject, Escapes
        <5>2. Depth(m, i + 1) = Depth(m, i) + 1
          BY <5>1, <2>2, DepthMoves, EscapesNext
        <5> QED
          BY <5>1, <5>2, <4>1
      <4> QED
        BY <4>3, <4>4
    <3> QED
      BY <3>1, <3>2
  <2> QED
    BY <2>6, <2>7, Zenon
<1>5. Nat \subseteq A
  <2> HIDE DEF A
  <2> QED BY <1>3, <1>4, Induct
<1>6. n \in Nat /\ n \in 0..n
  OBVIOUS
<1> QED
  BY <1>5, <1>6 DEF h

\* What begins with an object ends where the object does; a proper prefix of
\* an object does not end.
LEMMA ObjectEnds ==
  ASSUME NEW m \in Seq(Chars), IsObject(m), NEW t \in Seq(Chars),
         \A i \in 1..Len(t) : i <= Len(m) => t[i] = m[i]
  PROVE  ObjectEnd(t) = IF Len(m) <= Len(t) THEN Len(m) ELSE 0
<1>1. Len(m) \in Nat /\ Len(m) > 0 /\ Len(t) \in Nat
  BY DEF IsObject
<1>2. CASE Len(m) <= Len(t)
  <2>1. Scan(t)[Len(m)] = Known(m, Len(m), Len(m))
    BY <1>1, <1>2, ScanAgrees
  <2>2. Scan(t)[Len(m)].end = Len(m)
    BY <2>1 DEF Known
  <2> QED
    BY <2>2, <1>1, <1>2, ScanSticks
<1>3. CASE Len(t) < Len(m)
  <2>1. Scan(t)[Len(t)] = Known(m, Len(t), 0)
    BY <1>1, <1>3, ScanAgrees
  <2> QED
    BY <2>1, <1>1, <1>3 DEF Known, ObjectEnd
<1> QED
  BY <1>1, <1>2, <1>3
----------------------------------------------------------------------------
(* Sessions and their bytes                                                *)

Parts == [lead : Seq(Whitespace), msg : Seq(Chars)]

LEMMA SessionFacts ==
  ASSUME NEW s \in Sessions
  PROVE  /\ s \in Seq(Parts) /\ Len(s) \in Nat
         /\ \A k \in 1..Len(s) :
              /\ s[k].lead \in Seq(Whitespace) /\ s[k].lead \in Seq(Chars)
              /\ s[k].msg \in Seq(Chars) /\ IsObject(s[k].msg) /\ Len(s[k].msg) \in Nat \ {0}
<1>a. s \in Seq(Parts)
  BY SessionsAssumption DEF Parts
<1>b. DOMAIN s = 1..Len(s) /\ \A k \in DOMAIN s : IsObject(s[k].msg)
  BY <1>a, SessionsAssumption
<1>1. s \in Seq(Parts) /\ \A k \in 1..Len(s) : IsObject(s[k].msg)
  BY <1>a, <1>b
<1>2. Whitespace \subseteq Chars
  BY DEF Chars
<1>3. ASSUME NEW k \in 1..Len(s)
      PROVE  /\ s[k].lead \in Seq(Whitespace) /\ s[k].lead \in Seq(Chars)
             /\ s[k].msg \in Seq(Chars) /\ Len(s[k].msg) \in Nat \ {0}
  <2>1. s[k] \in Parts
    BY <1>1
  <2>2. s[k].lead \in Seq(Whitespace) /\ s[k].msg \in Seq(Chars)
    BY <2>1 DEF Parts
  <2>3. s[k].lead \in Seq(Chars)
    BY <1>2, <2>2, SeqMonotonic
  <2>4. s[k].msg # <<>>
    BY <1>1 DEF IsObject
  <2> QED
    BY <2>2, <2>3, <2>4
<1> QED
  BY <1>1, <1>3

IsSent(f, s) ==
    f = [i \in 0..Len(s) |-> IF i = 0 THEN <<>> ELSE f[i - 1] \o s[i].lead \o s[i].msg]

LEMMA BytesDef ==
  ASSUME NEW s \in Sessions
  PROVE  /\ Bytes(s, 0) = <<>>
         /\ \A k \in 0..Len(s) : Bytes(s, k) \in Seq(Chars)
         /\ \A k \in 1..Len(s) : Bytes(s, k) = Bytes(s, k - 1) \o s[k].lead \o s[k].msg
<1>0. Len(s) \in Nat
  BY SessionFacts
<1> DEFINE step == [i \in Nat |-> [b \in Seq(Chars) |->
                        IF i \in 1..Len(s) THEN b \o s[i].lead \o s[i].msg ELSE b]]
<1>1. step \in [Nat -> [Seq(Chars) -> Seq(Chars)]]
  <2>1. ASSUME NEW i \in 1..Len(s), NEW b \in Seq(Chars)
        PROVE  b \o s[i].lead \o s[i].msg \in Seq(Chars)
    BY SessionFacts, ConcatProperties
  <2> QED
    BY <2>1
<1>2. PICK f \in [0..Len(s) -> Seq(Chars)] : Follows(f, <<>>, step, Len(s))
  <2> HIDE DEF step
  <2>1. <<>> \in Seq(Chars) /\ Len(s) \in Nat
    BY SessionFacts
  <2> QED
    BY <1>1, <2>1, Recursion
<1>3. ASSUME NEW i \in 1..Len(s) PROVE f[i] = f[i - 1] \o s[i].lead \o s[i].msg
  <2>1. i \in Nat /\ i - 1 \in 0..Len(s) /\ f[i - 1] \in Seq(Chars)
    BY SessionFacts
  <2>2. step[i][f[i - 1]] = f[i - 1] \o s[i].lead \o s[i].msg
    BY <2>1
  <2> QED
    BY <2>2, <1>2 DEF Follows
<1>4. IsSent(f, s)
  <2>1. f = [i \in 0..Len(s) |-> f[i]] /\ f[0] = <<>>
    BY <1>2, <1>0 DEF Follows
  <2>2. \A i \in 0..Len(s) : i # 0 => i \in 1..Len(s)
    BY <1>0
  <2> QED
    BY <2>1, <2>2, <1>3, Zenon DEF IsSent
<1>5. IsSent(CHOOSE h : IsSent(h, s), s)
  BY <1>4
<1> DEFINE h == CHOOSE g : IsSent(g, s)
<1>6. \A k : Bytes(s, k) = h[k]
  BY Zenon DEF Bytes, IsSent
<1>7. h = [i \in 0..Len(s) |-> IF i = 0 THEN <<>> ELSE h[i - 1] \o s[i].lead \o s[i].msg]
  BY <1>5 DEF IsSent
<1> HIDE DEF h
<1>8. /\ h[0] = <<>>
      /\ \A i \in 1..Len(s) : h[i] = h[i - 1] \o s[i].lead \o s[i].msg
  <2>1. 0 \in 0..Len(s) /\ \A i \in 1..Len(s) : i \in 0..Len(s) /\ i # 0
    BY <1>0
  <2> QED
    BY <2>1, <1>7, Zenon
<1>9. \A k \in 0..Len(s) : h[k] \in Seq(Chars)
  <2> DEFINE A == {k \in Nat : k \in 0..Len(s) => h[k] \in Seq(Chars)}
  <2>1. 0 \in A
    <3>1. h[0] \in Seq(Chars)
      BY <1>8
    <3> QED
      BY <3>1
  <2>2. ASSUME NEW n \in Nat, n \in A PROVE n + 1 \in A
    <3>1. SUFFICES ASSUME n + 1 \in 0..Len(s) PROVE h[n + 1] \in Seq(Chars)
      OBVIOUS
    <3>a. n + 1 \in 1..Len(s) /\ n \in 0..Len(s) /\ (n + 1) - 1 = n
      BY <3>1, <1>0
    <3>2. h[n] \in Seq(Chars) /\ n + 1 \in 1..Len(s) /\ h[n + 1] = h[n] \o s[n + 1].lead \o s[n + 1].msg
      BY <1>8, <2>2, <3>a, Zenon
    <3>3. s[n + 1].lead \in Seq(Chars) /\ s[n + 1].msg \in Seq(Chars)
      BY <3>2, SessionFacts
    <3> QED
      BY <3>2, <3>3, ConcatProperties
  <2>3. Nat \subseteq A
    <3> HIDE DEF A
    <3> QED BY <2>1, <2>2, Induct
  <2> QED
    BY <2>3, <1>0
<1> QED
  BY <1>6, <1>8, <1>9

\* Where the k-th message of a session ends, and where it begins.
Ends(s, k) == Len(Bytes(s, k))
Begins(s, k) == Ends(s, k - 1) + Len(s[k].lead)

LEMMA EndsGrow ==
  ASSUME NEW s \in Sessions, NEW k \in 1..Len(s)
  PROVE  /\ Ends(s, k - 1) \in Nat /\ Ends(s, k) \in Nat /\ Begins(s, k) \in Nat
         /\ Ends(s, k - 1) <= Begins(s, k) /\ Begins(s, k) < Ends(s, k)
         /\ Ends(s, k) = Begins(s, k) + Len(s[k].msg)
         /\ \A i \in 1..Ends(s, k - 1) : Bytes(s, k)[i] = Bytes(s, k - 1)[i]
         /\ \A i \in (Ends(s, k - 1) + 1)..Begins(s, k) : Bytes(s, k)[i] \in Whitespace
         /\ \A i \in 1..Len(s[k].msg) : Bytes(s, k)[Begins(s, k) + i] = s[k].msg[i]
<1>0. Len(s) \in Nat /\ k - 1 \in 0..Len(s)
  BY SessionFacts
<1>1. PICK b \in Seq(Chars) : b = Bytes(s, k - 1)
  BY <1>0, BytesDef
<1>2. PICK l \in Seq(Chars) : l = s[k].lead /\ l \in Seq(Whitespace)
  BY SessionFacts
<1>3. PICK m \in Seq(Chars) : m = s[k].msg /\ Len(m) \in Nat \ {0}
  BY SessionFacts
<1>4. Bytes(s, k) = (b \o l) \o m
  BY <1>1, <1>2, <1>3, BytesDef
<1>5. PICK c \in Seq(Chars) : /\ c = b \o l /\ Len(c) = Len(b) + Len(l)
                              /\ \A i \in 1..(Len(b) + Len(l)) :
                                     c[i] = IF i <= Len(b) THEN b[i] ELSE l[i - Len(b)]
  <2>1. /\ b \o l \in Seq(Chars) /\ Len(b \o l) = Len(b) + Len(l)
        /\ \A i \in 1..(Len(b) + Len(l)) :
               (b \o l)[i] = IF i <= Len(b) THEN b[i] ELSE l[i - Len(b)]
    BY ConcatProperties, Zenon
  <2> QED
    BY <2>1, Zenon
<1>6. PICK d \in Seq(Chars) : /\ d = c \o m /\ Len(d) = Len(c) + Len(m)
                              /\ \A i \in 1..(Len(c) + Len(m)) :
                                     d[i] = IF i <= Len(c) THEN c[i] ELSE m[i - Len(c)]
  <2>1. /\ c \o m \in Seq(Chars) /\ Len(c \o m) = Len(c) + Len(m)
        /\ \A i \in 1..(Len(c) + Len(m)) :
               (c \o m)[i] = IF i <= Len(c) THEN c[i] ELSE m[i - Len(c)]
    BY ConcatProperties, Zenon
  <2> QED
    BY <2>1, Zenon
<1>7. Bytes(s, k) = d /\ Bytes(s, k - 1) = b /\ s[k].msg = m
  BY <1>1, <1>3, <1>4, <1>5, <1>6
<1>8. Ends(s, k - 1) = Len(b) /\ Ends(s, k) = Len(d) /\ Begins(s, k) = Len(c)
  BY <1>7, <1>2, <1>5 DEF Ends, Begins
<1>9. Len(b) \in Nat /\ Len(l) \in Nat /\ Len(m) \in Nat \ {0}
  BY <1>3
<1>10. \A i \in 1..Len(b) : d[i] = b[i]
  BY <1>5, <1>6, <1>9
<1>11. ASSUME NEW i \in (Len(b) + 1)..Len(c) PROVE d[i] \in Whitespace
  <2>1. d[i] = l[i - Len(b)] /\ i - Len(b) \in 1..Len(l)
    BY <1>5, <1>6, <1>9
  <2> QED
    BY <2>1, <1>2
<1>12. \A i \in 1..Len(m) : d[Len(c) + i] = m[i]
  <2>1. ASSUME NEW i \in 1..Len(m) PROVE d[Len(c) + i] = m[i]
    <3>1. Len(c) + i \in 1..(Len(c) + Len(m)) /\ ~(Len(c) + i <= Len(c)) /\ Len(c) + i - Len(c) = i
      BY <1>5, <1>9
    <3> QED
      BY <3>1, <1>6
  <2> QED
    BY <2>1
<1>13. Len(c) = Len(b) + Len(l) /\ Len(d) = Len(c) + Len(m)
  BY <1>5, <1>6
<1> HIDE DEF Ends, Begins
<1> QED
  BY <1>7, <1>8, <1>9, <1>10, <1>11, <1>12, <1>13
\* What has been sent stays sent.
LEMMA BytesStay ==
  ASSUME NEW s \in Sessions, NEW j \in 0..Len(s), NEW k \in j..Len(s)
  PROVE  /\ Ends(s, j) \in Nat /\ Ends(s, k) \in Nat
         /\ Ends(s, j) <= Ends(s, k)
         /\ j < k => Ends(s, j) < Ends(s, k)
         /\ \A i \in 1..Ends(s, j) : Bytes(s, k)[i] = Bytes(s, j)[i]
<1>0. Len(s) \in Nat /\ j \in Nat /\ k \in Nat
  BY SessionFacts
<1> DEFINE Kept(n) == /\ Ends(s, j) <= Ends(s, n)
                      /\ j < n => Ends(s, j) < Ends(s, n)
                      /\ \A i \in 1..Ends(s, j) : Bytes(s, n)[i] = Bytes(s, j)[i]
           A == {n \in Nat : n \in j..Len(s) => Kept(n)}
<1>1. \A n \in 0..Len(s) : Ends(s, n) \in Nat
  BY BytesDef DEF Ends
<1>2. Kept(j)
  BY <1>1
<1>3. 0 \in A
  BY <1>0, <1>2
<1>4. ASSUME NEW n \in Nat, n \in A PROVE n + 1 \in A
  <2>1. SUFFICES ASSUME n + 1 \in j..Len(s), n + 1 # j PROVE Kept(n + 1)
    BY <1>2
  <2>2. n \in j..Len(s) /\ n + 1 \in 1..Len(s) /\ (n + 1) - 1 = n /\ n \in 0..Len(s)
    BY <2>1, <1>0
  <2>3. Kept(n)
    BY <2>2, <1>4
  <2>4. /\ Ends(s, n) < Ends(s, n + 1)
        /\ \A i \in 1..Ends(s, n) : Bytes(s, n + 1)[i] = Bytes(s, n)[i]
    <3>1. /\ Ends(s, (n + 1) - 1) <= Begins(s, n + 1) /\ Begins(s, n + 1) < Ends(s, n + 1)
          /\ Begins(s, n + 1) \in Nat
          /\ \A i \in 1..Ends(s, (n + 1) - 1) : Bytes(s, n + 1)[i] = Bytes(s, (n + 1) - 1)[i]
      BY <2>2, EndsGrow
    <3>2. /\ Ends(s, n) <= Begins(s, n + 1)
          /\ \A i \in 1..Ends(s, n) : Bytes(s, n + 1)[i] = Bytes(s, n)[i]
      BY <3>1, <2>2
    <3>3. Ends(s, n) \in Nat /\ Ends(s, n + 1) \in Nat
      BY <1>1, <2>2
    <3> QED
      BY <3>1, <3>2, <3>3
  <2>5. Ends(s, n) \in Nat /\ Ends(s, n + 1) \in Nat /\ Ends(s, j) \in Nat
    BY <1>1, <2>2
  <2> QED
    BY <2>3, <2>4, <2>5
<1>5. Nat \subseteq A
  <2> HIDE DEF A
  <2> QED BY <1>3, <1>4, Induct
<1>6. Kept(k)
  BY <1>5, <1>0
<1> QED
  BY <1>6, <1>1, <1>0

\* The k-th message of a session, where it lies among all of its bytes.
LEMMA WireHolds ==
  ASSUME NEW s \in Sessions, NEW k \in 1..Len(s)
  PROVE  /\ Ends(s, k) <= Len(Wire(s))
         /\ \A i \in (Ends(s, k - 1) + 1)..Begins(s, k) : Wire(s)[i] \in Whitespace
         /\ \A i \in 1..Len(s[k].msg) : Wire(s)[Begins(s, k) + i] = s[k].msg[i]
<1>1. Len(s) \in Nat /\ k \in 0..Len(s) /\ Len(s) \in k..Len(s) /\ Len(s[k].msg) \in Nat
  BY SessionFacts
<1>2. /\ Ends(s, k) <= Ends(s, Len(s)) /\ Ends(s, k) \in Nat
      /\ \A i \in 1..Ends(s, k) : Bytes(s, Len(s))[i] = Bytes(s, k)[i]
  BY <1>1, BytesStay
<1>3. /\ Ends(s, k - 1) \in Nat /\ Begins(s, k) \in Nat
      /\ Begins(s, k) < Ends(s, k) /\ Ends(s, k) = Begins(s, k) + Len(s[k].msg)
      /\ \A i \in (Ends(s, k - 1) + 1)..Begins(s, k) : Bytes(s, k)[i] \in Whitespace
      /\ \A i \in 1..Len(s[k].msg) : Bytes(s, k)[Begins(s, k) + i] = s[k].msg[i]
  BY EndsGrow
<1>4. Wire(s) = Bytes(s, Len(s)) /\ Ends(s, Len(s)) = Len(Wire(s))
  BY DEF Wire, Ends
<1>5. ASSUME NEW i \in (Ends(s, k - 1) + 1)..Begins(s, k) PROVE Wire(s)[i] \in Whitespace
  <2>1. i \in 1..Ends(s, k)
    BY <1>2, <1>3
  <2> QED
    BY <2>1, <1>2, <1>3, <1>4
<1>6. ASSUME NEW i \in 1..Len(s[k].msg) PROVE Wire(s)[Begins(s, k) + i] = s[k].msg[i]
  <2>1. Begins(s, k) + i \in 1..Ends(s, k)
    BY <1>1, <1>2, <1>3
  <2> QED
    BY <2>1, <1>2, <1>3, <1>4
<1> QED
  BY <1>2, <1>4, <1>5, <1>6
----------------------------------------------------------------------------
(* One call of extract_next_message                                        *)

LEMMA MinIs ==
  ASSUME NEW S \in SUBSET Int, NEW x \in S, \A y \in S : x <= y
  PROVE  Min(S) = x
<1>1. Min(S) \in S /\ \A y \in S : Min(S) <= y
  BY Zenon DEF Min
<1>2. PICK n \in S : n = Min(S) /\ \A y \in S : n <= y
  BY <1>1, Zenon
<1>3. n <= x /\ x <= n /\ n \in Int /\ x \in Int
  BY <1>2
<1> QED
  BY <1>2, <1>3

\* q blanks, and not one more.
Blanks(t, q) ==
    /\ \A i \in 1..q : t[i] \in Whitespace
    /\ q < Len(t) => t[q + 1] \notin Whitespace

LEMMA SkipsBlanks ==
  ASSUME NEW t \in Seq(Chars), NEW q \in 0..Len(t), Blanks(t, q)
  PROVE  SkipWhitespace(t) = SubSeq(t, q + 1, Len(t))
<1> DEFINE I == {i \in 1..Len(t) : t[i] \notin Whitespace}
           ink == IF I # {} THEN Min(I) ELSE 0
<1>1. SkipWhitespace(t) = IF ink = 0 THEN <<>> ELSE SubSeq(t, ink, Len(t))
  BY Zenon DEF SkipWhitespace, SelectInSeq
<1>2. Len(t) \in Nat /\ q \in Nat
  OBVIOUS
<1>3. CASE q = Len(t)
  <2>1. I = {}
    BY <1>3, <1>2 DEF Blanks
  <2>2. SubSeq(t, q + 1, Len(t)) = <<>>
    BY <1>2, <1>3, SubSeqEmpty
  <2> QED
    BY <1>1, <2>1, <2>2
<1>4. CASE q < Len(t)
  <2>1. I \in SUBSET Int /\ q + 1 \in I /\ \A y \in I : q + 1 <= y
    BY <1>4, <1>2 DEF Blanks
  <2>2. Min(I) = q + 1 /\ I # {}
    <3> HIDE DEF I
    <3> QED BY <2>1, MinIs
  <2>3. ink = q + 1 /\ ~(ink = 0)
    <3> HIDE DEF I
    <3> QED BY <2>2, <1>2
  <2> HIDE DEF ink
  <2> QED
    BY <1>1, <2>3
<1> QED
  BY <1>2, <1>3, <1>4

LEMMA SomeBlanks ==
  ASSUME NEW t \in Seq(Chars)
  PROVE  \E q \in 0..Len(t) : Blanks(t, q)
<1> DEFINE I == {i \in 1..Len(t) : t[i] \notin Whitespace}
<1>1. CASE I = {}
  <2>1. Blanks(t, Len(t)) /\ Len(t) \in 0..Len(t)
    BY <1>1 DEF Blanks
  <2> QED
    BY <2>1
<1>2. CASE I # {}
  <2>1. I \in SUBSET Nat
    OBVIOUS
  <2>2. PICK x \in I : \A y \in I : x <= y
    <3> HIDE DEF I
    <3> QED BY <1>2, <2>1, LeastOf
  <2>3. Blanks(t, x - 1) /\ x - 1 \in 0..Len(t)
    BY <2>2 DEF Blanks
  <2> QED
    BY <2>3
<1> QED
  BY <1>1, <1>2

\* A sequence without its first n characters.
LEMMA TailTyped ==
  ASSUME NEW t \in Seq(Chars), NEW n \in 0..Len(t)
  PROVE  /\ SubSeq(t, n + 1, Len(t)) \in Seq(Chars)
         /\ Len(SubSeq(t, n + 1, Len(t))) = Len(t) - n
<1>1. n + 1 \in Int /\ Len(t) \in Int /\ \A i \in (n + 1)..Len(t) : t[i] \in Chars
  OBVIOUS
<1>2. /\ SubSeq(t, n + 1, Len(t)) \in Seq(Chars)
      /\ Len(SubSeq(t, n + 1, Len(t))) = IF n + 1 <= Len(t) THEN Len(t) - (n + 1) + 1 ELSE 0
  BY <1>1, SubSeqProperties
<1> QED
  BY <1>2

LEMMA SkipTyped ==
  ASSUME NEW t \in Seq(Chars)
  PROVE  SkipWhitespace(t) \in Seq(Chars)
<1>1. PICK q \in 0..Len(t) : Blanks(t, q)
  BY SomeBlanks
<1> QED
  BY <1>1, SkipsBlanks, TailTyped

Extracts(s, end, x) ==
    \/ s = <<>> /\ x = [msg |-> <<>>, rest |-> <<>>]
    \/ s # <<>> /\ s[1] # Open /\ x.msg = <<>> /\ x \in [msg : Seq(Chars), rest : Seq(Chars)]
    \/ s # <<>> /\ s[1] = Open /\ end = 0 /\ x = [msg |-> <<>>, rest |-> s]
    \/ s # <<>> /\ s[1] = Open /\ end # 0
       /\ x = [msg |-> SubSeq(s, 1, end), rest |-> SubSeq(s, end + 1, Len(s))]

LEMMA ExtractNextCases ==
  ASSUME NEW buf \in Seq(Chars)
  PROVE  /\ Extracts(SkipWhitespace(buf), ObjectEnd(SkipWhitespace(buf)), ExtractNext(buf))
         /\ ExtractNext(buf) \in [msg : Seq(Chars), rest : Seq(Chars)]
<1> DEFINE s == SkipWhitespace(buf)
           end == ObjectEnd(s)
           I == {i \in 1..Len(s) : s[i] = Newline}
           newline == IF I # {} THEN Min(I) ELSE 0
           x == ExtractNext(buf)
<1>1. s \in Seq(Chars) /\ end \in 0..Len(s)
  BY SkipTyped, ObjectEndTyped
<1>2. newline \in 0..Len(s)
  <2>1. CASE I = {}
    BY <2>1, <1>1
  <2>2. CASE I # {}
    <3>1. I \in SUBSET Nat /\ I \in SUBSET Int
      BY <1>1
    <3>2. PICK y \in I : \A z \in I : y <= z
      <4> HIDE DEF I
      <4> QED BY <2>2, <3>1, LeastOf
    <3>3. Min(I) = y
      <4> HIDE DEF I
      <4> QED BY <3>1, <3>2, MinIs
    <3>4. y \in 1..Len(s)
      OBVIOUS
    <3> HIDE DEF I, s
    <3> QED
      BY <3>3, <3>4, <2>2
  <2> QED
    BY <2>1, <2>2
<1>3. x = CASE s = <<>>                 -> [msg |-> <<>>, rest |-> <<>>]
            [] s # <<>> /\ s[1] # Open  ->
                 [msg |-> <<>>, rest |-> IF newline = 0 THEN <<>> ELSE SubSeq(s, newline + 1, Len(s))]
            [] s # <<>> /\ s[1] = Open /\ end = 0 -> [msg |-> <<>>, rest |-> s]
            [] OTHER                    ->
                 [msg |-> SubSeq(s, 1, end), rest |-> SubSeq(s, end + 1, Len(s))]
  BY Zenon DEF ExtractNext, SelectInSeq
<1> HIDE DEF s, end, newline, x
<1>4. <<>> \in Seq(Chars)
  OBVIOUS
<1>5. CASE s = <<>>
  <2>1. x = [msg |-> <<>>, rest |-> <<>>]
    BY <1>3, <1>5, Zenon
  <2>2. x \in [msg : Seq(Chars), rest : Seq(Chars)]
    BY <2>1, <1>4
  <2> QED
    BY <2>1, <2>2, <1>5, Zenon DEF Extracts, s, end, x
<1>6. CASE s # <<>> /\ s[1] # Open
  <2>1. x = [msg |-> <<>>, rest |-> IF newline = 0 THEN <<>> ELSE SubSeq(s, newline + 1, Len(s))]
    BY <1>3, <1>6, Zenon
  <2>2. (IF newline = 0 THEN <<>> ELSE SubSeq(s, newline + 1, Len(s))) \in Seq(Chars)
    BY <1>1, <1>2, <1>4, TailTyped
  <2>3. x \in [msg : Seq(Chars), rest : Seq(Chars)] /\ x.msg = <<>>
    BY <2>1, <2>2, <1>4
  <2> QED
    BY <2>3, <1>6, Zenon DEF Extracts, s, end, x
<1>7. CASE s # <<>> /\ s[1] = Open /\ end = 0
  <2>1. x = [msg |-> <<>>, rest |-> s]
    BY <1>3, <1>7, Zenon
  <2>2. x \in [msg : Seq(Chars), rest : Seq(Chars)]
    BY <2>1, <1>1, <1>4
  <2> QED
    BY <2>1, <2>2, <1>7, Zenon DEF Extracts, s, end, x
<1>8. CASE s # <<>> /\ s[1] = Open /\ end # 0
  <2>1. x = [msg |-> SubSeq(s, 1, end), rest |-> SubSeq(s, end + 1, Len(s))]
    BY <1>3, <1>8, Zenon
  <2>2. SubSeq(s, 1, end) \in Seq(Chars)
    <3>1. end \in Int /\ \A i \in 1..end : s[i] \in Chars
      BY <1>1
    <3> QED
      BY <3>1, SubSeqProperties
  <2>3. SubSeq(s, end + 1, Len(s)) \in Seq(Chars)
    BY <1>1, TailTyped
  <2>4. x \in [msg : Seq(Chars), rest : Seq(Chars)]
    BY <2>1, <2>2, <2>3
  <2> QED
    BY <2>1, <2>4, <1>8, Zenon DEF Extracts, s, end, x
<1> QED
  BY <1>5, <1>6, <1>7, <1>8
----------------------------------------------------------------------------
(* The buffer                                                              *)

\* The bytes of a session from the p-th to the r-th, the p-th not included.
Rest(s, p, r) == SubSeq(Wire(s), p + 1, r)

LEMMA WireTyped ==
  ASSUME NEW s \in Sessions
  PROVE  Wire(s) \in Seq(Chars) /\ Len(Wire(s)) \in Nat /\ Ends(s, Len(s)) = Len(Wire(s))
<1>1. Len(s) \in 0..Len(s)
  BY SessionFacts
<1>2. Bytes(s, Len(s)) \in Seq(Chars)
  BY <1>1, BytesDef
<1> QED
  BY <1>2 DEF Wire, Ends

LEMMA RestFacts ==
  ASSUME NEW s \in Sessions, NEW r \in 0..Len(Wire(s)), NEW p \in 0..r
  PROVE  /\ Rest(s, p, r) \in Seq(Chars)
         /\ Len(Rest(s, p, r)) = r - p
         /\ \A i \in 1..(r - p) : Rest(s, p, r)[i] = Wire(s)[p + i]
<1>1. PICK w \in Seq(Chars) : w = Wire(s) /\ Len(w) \in Nat
  BY WireTyped
<1>2. p + 1 \in Int /\ r \in Int /\ \A i \in (p + 1)..r : w[i] \in Chars
  BY <1>1
<1>3. /\ SubSeq(w, p + 1, r) \in Seq(Chars)
      /\ Len(SubSeq(w, p + 1, r)) = IF p + 1 <= r THEN r - (p + 1) + 1 ELSE 0
      /\ \A i \in 1..(r - (p + 1) + 1) : SubSeq(w, p + 1, r)[i] = w[(p + 1) + i - 1]
  BY <1>2, SubSeqProperties
<1>4. PICK v \in Seq(Chars) : /\ v = SubSeq(w, p + 1, r)
                              /\ Len(v) = IF p + 1 <= r THEN r - (p + 1) + 1 ELSE 0
                              /\ \A i \in 1..(r - (p + 1) + 1) : v[i] = w[(p + 1) + i - 1]
  BY <1>3, Zenon
<1>5. Len(v) = r - p /\ \A i \in 1..(r - p) : v[i] = w[p + i]
  <2>1. r \in Nat /\ p \in Nat /\ p <= r
    BY <1>1
  <2>2. ASSUME NEW i \in 1..(r - p) PROVE v[i] = w[p + i]
    <3>1. i \in 1..(r - (p + 1) + 1) /\ (p + 1) + i - 1 = p + i
      BY <2>1
    <3> QED
      BY <3>1, <1>4
  <2> QED
    BY <2>1, <2>2, <1>4
<1> QED
  BY <1>1, <1>4, <1>5 DEF Rest

LEMMA RestOfRest ==
  ASSUME NEW s \in Sessions, NEW r \in 0..Len(Wire(s)), NEW p \in 0..r, NEW q \in p..r
  PROVE  SubSeq(Rest(s, p, r), (q - p) + 1, Len(Rest(s, p, r))) = Rest(s, q, r)
<1>0. r \in Nat /\ p \in Nat /\ q \in Nat /\ q \in 0..r
  BY WireTyped
<1>1. PICK t \in Seq(Chars) : /\ t = Rest(s, p, r) /\ Len(t) = r - p
                              /\ \A i \in 1..(r - p) : t[i] = Wire(s)[p + i]
  BY RestFacts, Zenon
<1>2. PICK u \in Seq(Chars) : /\ u = Rest(s, q, r) /\ Len(u) = r - q
                              /\ \A i \in 1..(r - q) : u[i] = Wire(s)[q + i]
  BY <1>0, RestFacts, Zenon
<1> DEFINE n == q - p
<1>3. n \in 0..Len(t) /\ Len(t) - n = r - q
  BY <1>0, <1>1
<1>4. /\ SubSeq(t, n + 1, Len(t)) \in Seq(Chars)
      /\ Len(SubSeq(t, n + 1, Len(t))) = r - q
      /\ \A i \in 1..(r - q) : SubSeq(t, n + 1, Len(t))[i] = t[n + i]
  <2>1. n + 1 \in Int /\ Len(t) \in Int /\ \A i \in (n + 1)..Len(t) : t[i] \in Chars
    BY <1>3
  <2>2. /\ SubSeq(t, n + 1, Len(t)) \in Seq(Chars)
        /\ Len(SubSeq(t, n + 1, Len(t))) = IF n + 1 <= Len(t) THEN Len(t) - (n + 1) + 1 ELSE 0
        /\ \A i \in 1..(Len(t) - (n + 1) + 1) : SubSeq(t, n + 1, Len(t))[i] = t[(n + 1) + i - 1]
    <3> HIDE DEF n
    <3> QED BY <2>1, SubSeqProperties
  <2>3. \A i \in 1..(r - q) : i \in 1..(Len(t) - (n + 1) + 1) /\ (n + 1) + i - 1 = n + i
    BY <1>0, <1>3
  <2>4. (IF n + 1 <= Len(t) THEN Len(t) - (n + 1) + 1 ELSE 0) = r - q
    BY <1>0, <1>3
  <2> HIDE DEF n
  <2> QED
    BY <2>2, <2>3, <2>4, Zenon
<1>5. PICK v \in Seq(Chars) : /\ v = SubSeq(t, n + 1, Len(t)) /\ Len(v) = r - q
                              /\ \A i \in 1..(r - q) : v[i] = t[n + i]
  BY <1>4, Zenon
<1>6. ASSUME NEW i \in 1..(r - q) PROVE v[i] = u[i]
  <2>1. n + i \in 1..(r - p) /\ p + (n + i) = q + i
    BY <1>0
  <2> HIDE DEF n
  <2>2. v[i] = t[n + i] /\ t[n + i] = Wire(s)[p + (n + i)] /\ u[i] = Wire(s)[q + i]
    BY <1>1, <1>2, <1>5, <2>1, Zenon
  <2> QED
    BY <2>1, <2>2, Zenon
<1>7. v = u
  BY <1>2, <1>5, <1>6, SeqEqual
<1> QED
  BY <1>1, <1>2, <1>5, <1>7

LEMMA RestGrows ==
  ASSUME NEW s \in Sessions, NEW r \in 0..Len(Wire(s)), NEW p \in 0..r, NEW z \in r..Len(Wire(s))
  PROVE  Rest(s, p, r) \o SubSeq(Wire(s), r + 1, z) = Rest(s, p, z)
<1>1. PICK w \in Seq(Chars) : w = Wire(s) /\ Len(w) \in Nat
  BY WireTyped
<1>2. p + 1 \in 1..(Len(w) + 1) /\ r \in ((p + 1) - 1)..Len(w) /\ z \in r..Len(w)
  BY <1>1
<1>3. SubSeq(w, p + 1, r) \o SubSeq(w, r + 1, z) = SubSeq(w, p + 1, z)
  BY <1>2, ConcatAdjacentSubSeq
<1> QED
  BY <1>1, <1>3 DEF Rest

\* buf is what has arrived behind the first k messages, with none, some or
\* all of the blanks that come next.
Holds(s, k, r, p, buf) ==
    /\ p \in Ends(s, k)..r
    /\ k < Len(s) => p <= Begins(s, k + 1)
    /\ buf = Rest(s, p, r)

\* The first character of the next message has arrived; its last one has.
Started(s, k, r) == k < Len(s) /\ Begins(s, k + 1) < r
Finished(s, k, r) == k < Len(s) /\ Ends(s, k + 1) <= r

LEMMA NextBounds ==
  ASSUME NEW s \in Sessions, NEW k \in 0..Len(s)
  PROVE  /\ k \in Nat /\ Len(s) \in Nat
         /\ Ends(s, k) \in Nat /\ Ends(s, k) <= Len(Wire(s)) /\ Len(Wire(s)) \in Nat
         /\ k = Len(s) => Ends(s, k) = Len(Wire(s))
         /\ k < Len(s) => /\ k + 1 \in 1..Len(s)
                          /\ Begins(s, k + 1) \in Nat /\ Ends(s, k + 1) \in Nat
                          /\ Ends(s, k) <= Begins(s, k + 1) /\ Begins(s, k + 1) < Ends(s, k + 1)
                          /\ Ends(s, k + 1) = Begins(s, k + 1) + Len(s[k + 1].msg)
                          /\ Ends(s, k + 1) <= Len(Wire(s))
                          /\ \A i \in (Ends(s, k) + 1)..Begins(s, k + 1) : Wire(s)[i] \in Whitespace
                          /\ \A i \in 1..Len(s[k + 1].msg) :
                                 Wire(s)[Begins(s, k + 1) + i] = s[k + 1].msg[i]
<1>1. k \in Nat /\ Len(s) \in Nat /\ Len(s) \in k..Len(s) /\ Len(Wire(s)) \in Nat
      /\ Ends(s, Len(s)) = Len(Wire(s))
  BY SessionFacts, WireTyped
<1>2. Ends(s, k) \in Nat /\ Ends(s, k) <= Len(Wire(s))
  BY <1>1, BytesStay
<1>3. ASSUME k < Len(s)
      PROVE  /\ k + 1 \in 1..Len(s)
             /\ Begins(s, k + 1) \in Nat /\ Ends(s, k + 1) \in Nat
             /\ Ends(s, k) <= Begins(s, k + 1) /\ Begins(s, k + 1) < Ends(s, k + 1)
             /\ Ends(s, k + 1) = Begins(s, k + 1) + Len(s[k + 1].msg)
             /\ Ends(s, k + 1) <= Len(Wire(s))
             /\ \A i \in (Ends(s, k) + 1)..Begins(s, k + 1) : Wire(s)[i] \in Whitespace
             /\ \A i \in 1..Len(s[k + 1].msg) : Wire(s)[Begins(s, k + 1) + i] = s[k + 1].msg[i]
  <2>1. k + 1 \in 1..Len(s) /\ (k + 1) - 1 = k
    BY <1>1, <1>3
  <2>2. /\ Begins(s, k + 1) \in Nat /\ Ends(s, k + 1) \in Nat
        /\ Ends(s, (k + 1) - 1) <= Begins(s, k + 1) /\ Begins(s, k + 1) < Ends(s, k + 1)
        /\ Ends(s, k + 1) = Begins(s, k + 1) + Len(s[k + 1].msg)
    BY <2>1, EndsGrow
  <2>3. /\ Ends(s, k + 1) <= Len(Wire(s))
        /\ \A i \in (Ends(s, (k + 1) - 1) + 1)..Begins(s, k + 1) : Wire(s)[i] \in Whitespace
        /\ \A i \in 1..Len(s[k + 1].msg) : Wire(s)[Begins(s, k + 1) + i] = s[k + 1].msg[i]
    BY <2>1, WireHolds
  <2> QED
    BY <2>1, <2>2, <2>3, Zenon
<1> QED
  BY <1>1, <1>2, <1>3

LEMMA SkipHolds ==
  ASSUME NEW s \in Sessions, NEW k \in 0..Len(s), NEW r \in 0..Len(Wire(s)),
         NEW p, NEW buf, Holds(s, k, r, p, buf)
  PROVE  /\ buf \in Seq(Chars) /\ p \in 0..r /\ Len(buf) = r - p
         /\ SkipWhitespace(buf) = IF Started(s, k, r) THEN Rest(s, Begins(s, k + 1), r) ELSE <<>>
<1>1. /\ k \in Nat /\ Len(s) \in Nat /\ Ends(s, k) \in Nat /\ Len(Wire(s)) \in Nat
      /\ k = Len(s) => Ends(s, k) = Len(Wire(s))
      /\ k < Len(s) => /\ Begins(s, k + 1) \in Nat /\ Ends(s, k) <= Begins(s, k + 1)
                       /\ k + 1 \in 1..Len(s)
                       /\ \A i \in (Ends(s, k) + 1)..Begins(s, k + 1) : Wire(s)[i] \in Whitespace
  BY NextBounds
<1>2. p \in 0..r /\ p \in Nat /\ r \in Nat /\ Ends(s, k) <= p
  BY <1>1 DEF Holds
<1>3. /\ buf \in Seq(Chars) /\ Len(buf) = r - p
      /\ \A i \in 1..(r - p) : buf[i] = Wire(s)[p + i]
  BY <1>2, RestFacts DEF Holds
<1>4. CASE ~Started(s, k, r)
  <2>1. \A i \in 1..(r - p) : buf[i] \in Whitespace
    <3>1. CASE k = Len(s)
      <4>1. p = r
        BY <3>1, <1>1, <1>2
      <4> QED
        BY <4>1, <1>2
    <3>2. CASE k < Len(s)
      <4>1. ASSUME NEW i \in 1..(r - p) PROVE p + i \in (Ends(s, k) + 1)..Begins(s, k + 1)
        BY <3>2, <1>1, <1>2, <1>4 DEF Started
      <4> QED
        BY <4>1, <1>1, <1>3, <3>2
    <3> QED
      BY <3>1, <3>2, <1>1
  <2>2. Blanks(buf, Len(buf)) /\ Len(buf) \in 0..Len(buf)
    BY <2>1, <1>3 DEF Blanks
  <2>3. SkipWhitespace(buf) = SubSeq(buf, Len(buf) + 1, Len(buf))
    BY <2>2, <1>3, SkipsBlanks
  <2>4. SubSeq(buf, Len(buf) + 1, Len(buf)) = <<>>
    BY <1>2, <1>3, SubSeqEmpty
  <2> QED
    BY <2>3, <2>4, <1>2, <1>3, <1>4
<1>5. CASE Started(s, k, r)
  <2> DEFINE z == Begins(s, k + 1)
             q == z - p
  <2>1. k < Len(s) /\ z < r /\ p <= z /\ z \in Nat
    BY <1>1, <1>5 DEF Started, Holds
  <2>2. q \in 0..Len(buf) /\ q < Len(buf) /\ q + 1 \in 1..(r - p) /\ p + (q + 1) = z + 1 /\ z \in p..r
    BY <2>1, <1>2, <1>3
  <2>3. ASSUME NEW i \in 1..q PROVE buf[i] \in Whitespace
    <3>1. i \in 1..(r - p) /\ p + i \in (Ends(s, k) + 1)..z
      <4>1. i \in Nat /\ i > 0 /\ i <= z - p
        BY <2>1, <1>2
      <4> HIDE DEF z
      <4> QED BY <4>1, <2>1, <1>1, <1>2
    <3> QED
      BY <3>1, <2>1, <1>1, <1>3
  <2>4. buf[q + 1] = Open
    <3>1. /\ IsObject(s[k + 1].msg) /\ Len(s[k + 1].msg) \in Nat \ {0}
      BY <2>1, <1>1, SessionFacts
    <3>2. Wire(s)[z + 1] = s[k + 1].msg[1]
      <4>1. \A i \in 1..Len(s[k + 1].msg) : Wire(s)[z + i] = s[k + 1].msg[i]
        BY <2>1, NextBounds
      <4> QED
        BY <4>1, <3>1
    <3>3. s[k + 1].msg[1] = Open
      BY <3>1 DEF IsObject
    <3>4. buf[q + 1] = Wire(s)[z + 1]
      <4> HIDE DEF q, z
      <4> QED BY <2>2, <1>3
    <3> QED
      BY <3>2, <3>3, <3>4
  <2>5. Blanks(buf, q)
    <3> HIDE DEF q
    <3> QED BY <2>3, <2>4, CharsDiffer DEF Blanks
  <2>6. SkipWhitespace(buf) = SubSeq(buf, q + 1, Len(buf))
    <3> HIDE DEF q
    <3> QED BY <2>2, <2>5, <1>3, SkipsBlanks
  <2>7. SubSeq(Rest(s, p, r), (z - p) + 1, Len(Rest(s, p, r))) = Rest(s, z, r)
    <3> HIDE DEF z
    <3> QED BY <2>2, <1>2, RestOfRest
  <2>8. buf = Rest(s, p, r)
    BY DEF Holds
  <2> QED
    BY <2>6, <2>7, <2>8, <1>2, <1>3, <1>5
<1> QED
  BY <1>4, <1>5
----------------------------------------------------------------------------
(* The loop around it                                                      *)

DrainStates == [buf : Seq(Chars), msgs : Seq(Seq(Chars)), stop : BOOLEAN]

DrainCases(st, x, r) ==
    \/ st.stop /\ r = st
    \/ ~st.stop /\ x.msg = <<>> /\ r = [buf |-> x.rest, msgs |-> st.msgs, stop |-> TRUE]
    \/ ~st.stop /\ x.msg # <<>> /\ r = [buf |-> x.rest, msgs |-> Append(st.msgs, x.msg), stop |-> FALSE]

LEMMA DrainStepCases ==
  ASSUME NEW st \in DrainStates
  PROVE  /\ DrainCases(st, ExtractNext(st.buf), DrainStep(st))
         /\ DrainStep(st) \in DrainStates
<1> DEFINE x == ExtractNext(st.buf)
<1>1. /\ st.buf \in Seq(Chars) /\ st.msgs \in Seq(Seq(Chars)) /\ st.stop \in BOOLEAN
      /\ st = [buf |-> st.buf, msgs |-> st.msgs, stop |-> st.stop]
  BY DEF DrainStates
<1>2. x.msg \in Seq(Chars) /\ x.rest \in Seq(Chars)
  <2>1. x \in [msg : Seq(Chars), rest : Seq(Chars)]
    BY <1>1, ExtractNextCases
  <2> HIDE DEF x
  <2> QED
    BY <2>1
<1>3. CASE st.stop
  <2>1. DrainStep(st) = st
    BY <1>3, Zenon DEF DrainStep
  <2> QED
    BY <2>1, <1>3, Zenon DEF DrainCases
<1>4. CASE ~st.stop /\ x.msg = <<>>
  <2>1. DrainStep(st) = [st EXCEPT !.buf = x.rest, !.stop = TRUE]
    BY <1>4, Zenon DEF DrainStep
  <2> HIDE DEF x
  <2>2. DrainStep(st) = [buf |-> x.rest, msgs |-> st.msgs, stop |-> TRUE]
    BY <2>1, <1>1 DEF DrainStates
  <2>3. DrainStep(st) \in DrainStates
    BY <2>2, <1>1, <1>2 DEF DrainStates
  <2> QED
    BY <2>2, <2>3, <1>4, Zenon DEF DrainCases, x
<1>5. CASE ~st.stop /\ x.msg # <<>>
  <2>1. DrainStep(st) = [st EXCEPT !.buf = x.rest, !.msgs = Append(@, x.msg)]
    BY <1>5, Zenon DEF DrainStep
  <2>a. st.stop = FALSE
    BY <1>1, <1>5
  <2> HIDE DEF x
  <2>2. DrainStep(st) = [buf |-> x.rest, msgs |-> Append(st.msgs, x.msg), stop |-> FALSE]
    BY <2>1, <2>a, <1>1 DEF DrainStates
  <2>b. Append(st.msgs, x.msg) \in Seq(Seq(Chars))
    BY <1>1, <1>2
  <2>3. DrainStep(st) \in DrainStates
    BY <2>2, <2>b, <1>2 DEF DrainStates
  <2> QED
    BY <2>2, <2>3, <1>5, Zenon DEF DrainCases, x
<1> QED
  BY <1>3, <1>4, <1>5

Start(buf) == [buf |-> buf, msgs |-> <<>>, stop |-> FALSE]
Rounds(f, buf) ==
    f = [i \in 0..(Len(buf) + 1) |->
            IF i = 0 THEN [buf |-> buf, msgs |-> <<>>, stop |-> FALSE] ELSE DrainStep(f[i - 1])]

LEMMA DrainDef ==
  ASSUME NEW buf \in Seq(Chars)
  PROVE  \E h \in [0..(Len(buf) + 1) -> DrainStates] :
            /\ h[0] = Start(buf)
            /\ \A i \in 1..(Len(buf) + 1) : h[i] = DrainStep(h[i - 1])
            /\ Drain(buf) = h[Len(buf) + 1]
<1> DEFINE n == Len(buf) + 1
           step == [i \in Nat |-> [st \in DrainStates |-> DrainStep(st)]]
<1>1. step \in [Nat -> [DrainStates -> DrainStates]]
  BY DrainStepCases
<1>2. Start(buf) \in DrainStates /\ n \in Nat
  BY DEF Start, DrainStates
<1>3. PICK f \in [0..n -> DrainStates] : Follows(f, Start(buf), step, n)
  <2> HIDE DEF step, n
  <2> QED
    BY <1>1, <1>2, Recursion
<1> HIDE DEF n
<1>4. f[0] = Start(buf) /\ \A i \in 1..n : f[i] = DrainStep(f[i - 1])
  <2>1. ASSUME NEW i \in 1..n PROVE f[i] = DrainStep(f[i - 1])
    <3>1. i \in Nat /\ i - 1 \in 0..n /\ f[i - 1] \in DrainStates
      BY <1>2
    <3>2. step[i][f[i - 1]] = DrainStep(f[i - 1])
      BY <3>1
    <3> QED
      BY <3>2, <1>3 DEF Follows
  <2> QED
    BY <2>1, <1>3 DEF Follows
<1>5. Rounds(f, buf)
  <2>1. \A i \in 0..n : i # 0 => i \in 1..n
    BY <1>2
  <2>2. f = [i \in 0..n |-> f[i]]
    OBVIOUS
  <2> QED
    BY <2>1, <2>2, <1>4, Zenon DEF Rounds, Start, n
<1> DEFINE h == CHOOSE g : Rounds(g, buf)
<1>6. Rounds(h, buf)
  BY <1>5
<1>7. Drain(buf) = h[n]
  BY Zenon DEF Drain, Rounds, n
<1>8. h = [i \in 0..n |-> IF i = 0 THEN Start(buf) ELSE DrainStep(h[i - 1])]
  BY <1>6, Zenon DEF Rounds, Start, n
<1> HIDE DEF h
<1>9. h[0] = Start(buf) /\ \A i \in 1..n : h[i] = DrainStep(h[i - 1])
  <2>1. 0 \in 0..n /\ \A i \in 1..n : i \in 0..n /\ i # 0
    BY <1>2
  <2> QED
    BY <2>1, <1>8, Zenon
<1>10. \A i \in 0..n : h[i] \in DrainStates
  <2> DEFINE A == {i \in Nat : i \in 0..n => h[i] \in DrainStates}
  <2>1. 0 \in A
    BY <1>9, <1>2
  <2>2. ASSUME NEW i \in Nat, i \in A PROVE i + 1 \in A
    <3>1. SUFFICES ASSUME i + 1 \in 0..n PROVE h[i + 1] \in DrainStates
      OBVIOUS
    <3>2. i + 1 \in 1..n /\ i \in 0..n /\ (i + 1) - 1 = i
      BY <3>1, <1>2
    <3>3. h[i] \in DrainStates /\ h[i + 1] = DrainStep(h[i])
      BY <3>2, <2>2, <1>9, Zenon
    <3> QED
      BY <3>3, DrainStepCases
  <2>3. Nat \subseteq A
    <3> HIDE DEF A
    <3> QED BY <2>1, <2>2, Induct
  <2> QED
    BY <2>3, <1>2
<1>11. h \in [0..n -> DrainStates]
  BY <1>8, <1>10
<1> QED
  BY <1>7, <1>9, <1>11 DEF n

\* One round on a buffer that holds what has arrived.
LEMMA RoundTakesOne ==
  ASSUME NEW s \in Sessions, NEW k \in 0..Len(s), NEW r \in 0..Len(Wire(s)),
         NEW p, NEW buf, Holds(s, k, r, p, buf)
  PROVE  /\ Finished(s, k, r)
              => /\ ExtractNext(buf) = [msg |-> s[k + 1].msg, rest |-> Rest(s, Ends(s, k + 1), r)]
                 /\ s[k + 1].msg # <<>>
                 /\ Holds(s, k + 1, r, Ends(s, k + 1), Rest(s, Ends(s, k + 1), r))
                 /\ Len(Rest(s, Ends(s, k + 1), r)) < Len(buf)
         /\ ~Finished(s, k, r)
              => /\ ExtractNext(buf).msg = <<>>
                 /\ \E q : Holds(s, k, r, q, ExtractNext(buf).rest)
<1> DEFINE z == Begins(s, k + 1)
           e == Ends(s, k + 1)
           m == s[k + 1].msg
           v == SkipWhitespace(buf)
           x == ExtractNext(buf)
<1>1. /\ k \in Nat /\ Len(s) \in Nat /\ Ends(s, k) \in Nat /\ Len(Wire(s)) \in Nat
      /\ Ends(s, k) <= Len(Wire(s))
      /\ k < Len(s) => /\ k + 1 \in 1..Len(s) /\ z \in Nat /\ e \in Nat
                       /\ Ends(s, k) <= z /\ z < e /\ e = z + Len(m)
                       /\ e <= Len(Wire(s))
                       /\ \A i \in 1..Len(m) : Wire(s)[z + i] = m[i]
  BY NextBounds
<1>2. /\ buf \in Seq(Chars) /\ p \in 0..r /\ Len(buf) = r - p
      /\ v = IF Started(s, k, r) THEN Rest(s, z, r) ELSE <<>>
  BY SkipHolds
<1>3. Extracts(v, ObjectEnd(v), x)
  BY <1>2, ExtractNextCases
<1>4. p \in Nat /\ r \in Nat /\ Ends(s, k) <= p /\ p <= r /\ (k < Len(s) => p <= z)
  BY <1>1, <1>2 DEF Holds
<1>5. k < Len(s) => m \in Seq(Chars) /\ IsObject(m) /\ Len(m) \in Nat \ {0} /\ m[1] = Open
  <2>1. k < Len(s) => m \in Seq(Chars) /\ IsObject(m) /\ Len(m) \in Nat \ {0}
    BY <1>1, SessionFacts
  <2> QED
    BY <2>1 DEF IsObject
<1>6. CASE ~Started(s, k, r)
  <2>1. ~Finished(s, k, r)
    BY <1>1, <1>4, <1>6 DEF Started, Finished
  <2>2. v = <<>>
    BY <1>2, <1>6, Zenon
  <2>3. x = [msg |-> <<>>, rest |-> <<>>]
    BY <1>3, <2>2, Zenon DEF Extracts
  <2>4. Holds(s, k, r, r, <<>>)
    <3>1. r \in Ends(s, k)..r /\ (k < Len(s) => r <= z)
      BY <1>1, <1>4, <1>6 DEF Started
    <3>2. Rest(s, r, r) = <<>>
      BY <1>4, SubSeqEmpty DEF Rest
    <3> QED
      BY <3>1, <3>2 DEF Holds
  <2>5. x.msg = <<>> /\ x.rest = <<>>
    <3> HIDE DEF x
    <3> QED BY <2>3
  <2> QED
    BY <2>1, <2>4, <2>5, Zenon
<1>7. CASE Started(s, k, r)
  <2>1. k < Len(s) /\ z < r /\ z \in 0..r
    BY <1>1, <1>7 DEF Started
  <2>2. /\ v = Rest(s, z, r) /\ v \in Seq(Chars) /\ Len(v) = r - z
        /\ \A i \in 1..(r - z) : v[i] = Wire(s)[z + i]
    <3>1. v = Rest(s, z, r)
      BY <1>2, <1>7, Zenon
    <3> HIDE DEF v, z
    <3> QED
      BY <3>1, <2>1, RestFacts
  <2>3. \A i \in 1..Len(v) : i <= Len(m) => v[i] = m[i]
    <3> HIDE DEF v, z, m
    <3> QED BY <2>1, <2>2, <1>1, <1>5
  <2>4. ObjectEnd(v) = IF Len(m) <= Len(v) THEN Len(m) ELSE 0
    <3> HIDE DEF v, m
    <3> QED BY <2>1, <2>2, <2>3, <1>5, ObjectEnds
  <2>5. v # <<>> /\ v[1] = Open
    <3> HIDE DEF v, m, z
    <3>1. 1 \in 1..Len(v) /\ 1 <= Len(m)
      BY <2>1, <2>2, <1>4, <1>5
    <3> QED
      BY <3>1, <2>1, <2>2, <2>3, <1>5
  <2>6. CASE ~Finished(s, k, r)
    <3>1. ObjectEnd(v) = 0
      <4>1. ~(Len(m) <= Len(v))
        <5>1. r < e
          BY <2>1, <2>6, <1>1, <1>4 DEF Finished
        <5> HIDE DEF v, m, z, e
        <5> QED BY <5>1, <2>1, <2>2, <1>1, <1>4, <1>5
      <4> QED
        BY <4>1, <2>4, Zenon
    <3>2. x = [msg |-> <<>>, rest |-> v]
      BY <3>1, <2>5, <1>3, Zenon DEF Extracts
    <3>3. Holds(s, k, r, z, v)
      BY <2>1, <2>2, <1>1, <1>4 DEF Holds
    <3>4. x.msg = <<>> /\ x.rest = v
      <4> HIDE DEF x, v
      <4> QED BY <3>2
    <3> QED
      BY <3>3, <3>4, <2>6, Zenon
  <2>7. CASE Finished(s, k, r)
    <3>1. e <= r /\ e \in 0..r
      BY <2>1, <2>7, <1>1, <1>4 DEF Finished
    <3>2. Len(m) <= Len(v) /\ Len(m) = e - z /\ Len(m) # 0
      <4> HIDE DEF v, m, z, e
      <4> QED BY <3>1, <2>1, <2>2, <1>1, <1>4, <1>5
    <3>3. ObjectEnd(v) = Len(m) /\ ObjectEnd(v) # 0
      BY <3>2, <2>4, Zenon
    <3>4. x = [msg |-> SubSeq(v, 1, Len(m)), rest |-> SubSeq(v, Len(m) + 1, Len(v))]
      BY <3>3, <2>5, <1>3, Zenon DEF Extracts
    <3>5. SubSeq(v, 1, Len(m)) = m
      <4> HIDE DEF v, m, z, e
      <4>1. Len(m) \in Int /\ 1 \in Int /\ \A i \in 1..Len(m) : v[i] \in Chars
        BY <3>2, <2>1, <2>2, <1>5
      <4>2. /\ SubSeq(v, 1, Len(m)) \in Seq(Chars)
            /\ Len(SubSeq(v, 1, Len(m))) = IF 1 <= Len(m) THEN Len(m) - 1 + 1 ELSE 0
            /\ \A i \in 1..(Len(m) - 1 + 1) : SubSeq(v, 1, Len(m))[i] = v[1 + i - 1]
        BY <4>1, SubSeqProperties
      <4>3. PICK u \in Seq(Chars) : /\ u = SubSeq(v, 1, Len(m))
                                    /\ Len(u) = IF 1 <= Len(m) THEN Len(m) - 1 + 1 ELSE 0
                                    /\ \A i \in 1..(Len(m) - 1 + 1) : u[i] = v[1 + i - 1]
        BY <4>2, Zenon
      <4>4. Len(u) = Len(m) /\ Len(m) \in Nat
        BY <4>3, <2>1, <1>5
      <4>5. ASSUME NEW i \in 1..Len(u) PROVE u[i] = m[i]
        <5>1. i \in 1..(Len(m) - 1 + 1) /\ 1 + i - 1 = i /\ i \in 1..Len(v) /\ i <= Len(m)
          BY <4>4, <3>2, <2>2, <1>4, <2>1
        <5>2. u[i] = v[i] /\ v[i] = m[i]
          BY <5>1, <4>3, <2>3
        <5> QED
          BY <5>2
      <4>6. u = m
        BY <4>4, <4>5, <2>1, <1>5, SeqEqual
      <4> QED
        BY <4>3, <4>6
    <3>6. SubSeq(v, Len(m) + 1, Len(v)) = Rest(s, e, r)
      <4>1. e \in z..r
        BY <3>1, <2>1, <1>1
      <4>2. SubSeq(Rest(s, z, r), (e - z) + 1, Len(Rest(s, z, r))) = Rest(s, e, r)
        <5> HIDE DEF z, e
        <5> QED BY <4>1, <2>1, RestOfRest
      <4> QED
        BY <4>2, <3>2, <2>2, Zenon
    <3>7. Holds(s, k + 1, r, e, Rest(s, e, r))
      <4>1. k + 1 < Len(s) => e <= Begins(s, (k + 1) + 1)
        <5>1. k + 1 \in 0..Len(s)
          BY <2>1, <1>1
        <5> QED
          BY <5>1, NextBounds
      <4>2. e \in e..r
        BY <3>1, <2>1, <1>1, <1>4
      <4> QED
        BY <4>1, <4>2 DEF Holds
    <3>8. Len(Rest(s, e, r)) < Len(buf)
      <4>1. Len(Rest(s, e, r)) = r - e
        BY <3>1, RestFacts
      <4>2. p < e /\ e <= r /\ e \in Nat
        BY <2>1, <3>1, <1>1, <1>4
      <4> HIDE DEF e
      <4> QED
        BY <4>1, <4>2, <1>2, <1>4
    <3>9. m # <<>>
      BY <2>1, <1>5
    <3> QED
      BY <3>4, <3>5, <3>6, <3>7, <3>8, <3>9, <2>7, Zenon
  <2> QED
    BY <2>6, <2>7
<1> QED
  BY <1>6, <1>7
\* The messages of a session behind the j-th, up to the k-th.
Msgs(s, j, k) == [i \in 1..(k - j) |-> s[j + i].msg]

LEMMA MsgsTyped ==
  ASSUME NEW s \in Sessions, NEW j \in 0..Len(s), NEW k \in j..Len(s)
  PROVE  /\ Msgs(s, j, k) \in Seq(Seq(Chars)) /\ Len(Msgs(s, j, k)) = k - j
         /\ \A i \in 1..(k - j) : Msgs(s, j, k)[i] = s[j + i].msg /\ j + i \in 1..Len(s)
<1>1. Len(s) \in Nat /\ j \in Nat /\ k \in Nat /\ k - j \in Nat
  BY SessionFacts
<1>2. ASSUME NEW i \in 1..(k - j) PROVE j + i \in 1..Len(s) /\ s[j + i].msg \in Seq(Chars)
  <2>1. j + i \in 1..Len(s)
    BY <1>1
  <2> QED
    BY <2>1, SessionFacts
<1> QED
  BY <1>1, <1>2 DEF Msgs

LEMMA MsgsGrow ==
  ASSUME NEW s \in Sessions, NEW j \in 0..Len(s), NEW k \in j..Len(s), k < Len(s)
  PROVE  Append(Msgs(s, j, k), s[k + 1].msg) = Msgs(s, j, k + 1)
<1>1. Len(s) \in Nat /\ j \in Nat /\ k \in Nat /\ k + 1 \in j..Len(s) /\ k + 1 \in 1..Len(s)
  BY SessionFacts
<1>2. PICK a \in Seq(Seq(Chars)) : /\ a = Msgs(s, j, k) /\ Len(a) = k - j
                                   /\ \A i \in 1..(k - j) : a[i] = s[j + i].msg
  BY MsgsTyped, Zenon
<1>3. PICK b \in Seq(Seq(Chars)) : /\ b = Msgs(s, j, k + 1) /\ Len(b) = (k + 1) - j
                                   /\ \A i \in 1..((k + 1) - j) : b[i] = s[j + i].msg
  BY <1>1, MsgsTyped, Zenon
<1>4. PICK m \in Seq(Chars) : m = s[k + 1].msg
  BY <1>1, SessionFacts
<1>5. PICK c \in Seq(Seq(Chars)) : /\ c = Append(a, m) /\ Len(c) = Len(a) + 1
                                   /\ \A i \in 1..Len(a) : c[i] = a[i]
                                   /\ c[Len(a) + 1] = m
  <2>1. /\ Append(a, m) \in Seq(Seq(Chars)) /\ Len(Append(a, m)) = Len(a) + 1
        /\ \A i \in 1..Len(a) : Append(a, m)[i] = a[i]
        /\ Append(a, m)[Len(a) + 1] = m
    BY AppendProperties
  <2> QED
    BY <2>1, Zenon
<1>6. Len(c) = Len(b)
  BY <1>1, <1>2, <1>3, <1>5
<1>7. ASSUME NEW i \in 1..Len(c) PROVE c[i] = b[i]
  <2>1. i \in 1..((k + 1) - j)
    BY <1>1, <1>2, <1>5
  <2>2. CASE i = Len(a) + 1
    <3>1. j + i = k + 1
      BY <2>2, <1>1, <1>2
    <3> QED
      BY <3>1, <2>1, <2>2, <1>3, <1>4, <1>5
  <2>3. CASE i # Len(a) + 1
    <3>1. i \in 1..(k - j) /\ i \in 1..Len(a)
      BY <2>3, <2>1, <1>1, <1>2
    <3> QED
      BY <3>1, <2>1, <1>2, <1>3, <1>5
  <2> QED
    BY <2>2, <2>3
<1>8. c = b
  BY <1>6, <1>7, SeqEqual
<1> QED
  BY <1>2, <1>3, <1>4, <1>5, <1>8

LEMMA MsgsJoin ==
  ASSUME NEW s \in Sessions, NEW j \in 0..Len(s), NEW k \in j..Len(s)
  PROVE  Msgs(s, 0, j) \o Msgs(s, j, k) = Msgs(s, 0, k)
<1>1. Len(s) \in Nat /\ j \in Nat /\ k \in Nat /\ 0 \in 0..Len(s) /\ k \in 0..Len(s)
  BY SessionFacts
<1>2. PICK a \in Seq(Seq(Chars)) : /\ a = Msgs(s, 0, j) /\ Len(a) = j - 0
                                   /\ \A i \in 1..(j - 0) : a[i] = s[0 + i].msg
  BY <1>1, MsgsTyped, Zenon
<1>3. PICK b \in Seq(Seq(Chars)) : /\ b = Msgs(s, j, k) /\ Len(b) = k - j
                                   /\ \A i \in 1..(k - j) : b[i] = s[j + i].msg
  BY <1>1, MsgsTyped, Zenon
<1>4. PICK c \in Seq(Seq(Chars)) : /\ c = Msgs(s, 0, k) /\ Len(c) = k - 0
                                   /\ \A i \in 1..(k - 0) : c[i] = s[0 + i].msg
  BY <1>1, MsgsTyped, Zenon
<1>5. PICK d \in Seq(Seq(Chars)) : /\ d = a \o b /\ Len(d) = Len(a) + Len(b)
                                   /\ \A i \in 1..(Len(a) + Len(b)) :
                                          d[i] = IF i <= Len(a) THEN a[i] ELSE b[i - Len(a)]
  <2>1. /\ a \o b \in Seq(Seq(Chars)) /\ Len(a \o b) = Len(a) + Len(b)
        /\ \A i \in 1..(Len(a) + Len(b)) : (a \o b)[i] = IF i <= Len(a) THEN a[i] ELSE b[i - Len(a)]
    BY ConcatProperties, Zenon
  <2> QED
    BY <2>1, Zenon
<1>a. Len(a) = j /\ Len(b) = k - j /\ Len(c) = k
  <2>1. Len(a) = j - 0 /\ Len(b) = k - j /\ Len(c) = k - 0
    BY <1>2, <1>3, <1>4, Zenon
  <2> QED
    BY <2>1, <1>1
<1>6. Len(d) = Len(c) /\ Len(d) = k
  <2>1. Len(d) = Len(a) + Len(b)
    BY <1>5, Zenon
  <2> QED
    BY <2>1, <1>a, <1>1
<1>7. ASSUME NEW i \in 1..Len(d) PROVE d[i] = c[i]
  <2>1. i \in 1..(k - 0) /\ i \in 1..(Len(a) + Len(b)) /\ i \in Nat /\ 0 + i = i
    BY <1>1, <1>5, <1>6
  <2>2. c[i] = s[i].msg
    BY <2>1, <1>4
  <2>3. CASE i <= j
    BY <2>1, <2>2, <2>3, <1>1, <1>2, <1>5
  <2>4. CASE i > j
    <3>1. i - Len(a) \in 1..(k - j) /\ j + (i - Len(a)) = i /\ ~(i <= Len(a))
      BY <2>1, <2>4, <1>1, <1>a
    <3>2. d[i] = b[i - Len(a)] /\ b[i - Len(a)] = s[j + (i - Len(a))].msg
      BY <3>1, <2>1, <1>3, <1>5
    <3> QED
      BY <3>1, <3>2, <2>2
  <2> QED
    BY <2>1, <2>3, <2>4, <1>1
<1>8. d = c
  BY <1>6, <1>7, SeqEqual
<1> QED
  BY <1>2, <1>3, <1>4, <1>5, <1>8

\* After n rounds on b: messages j + 1 to k are handled, the buffer holds what
\* has arrived behind them, and the loop has stopped for want of another, or
\* has taken a character a round.
Reached(s, j, r, b, n, st, k, q) ==
    /\ k \in j..Len(s)
    /\ Holds(s, k, r, q, st.buf)
    /\ st.msgs = Msgs(s, j, k)
    /\ st.stop => ~Finished(s, k, r)
    /\ ~st.stop => Len(st.buf) + n <= Len(b)

LEMMA RoundReaches ==
  ASSUME NEW s \in Sessions, NEW j \in 0..Len(s), NEW r \in 0..Len(Wire(s)),
         NEW b \in Seq(Chars), NEW n \in Nat, NEW st \in DrainStates,
         NEW k, NEW q, Reached(s, j, r, b, n, st, k, q)
  PROVE  \E l, o : Reached(s, j, r, b, n + 1, DrainStep(st), l, o)
<1> DEFINE x == ExtractNext(st.buf)
           d == DrainStep(st)
<1>1. /\ k \in j..Len(s) /\ Holds(s, k, r, q, st.buf) /\ st.msgs = Msgs(s, j, k)
      /\ st.stop => ~Finished(s, k, r)
      /\ ~st.stop => Len(st.buf) + n <= Len(b)
  BY DEF Reached
<1>2. k \in 0..Len(s) /\ k \in Nat /\ Len(s) \in Nat /\ j \in Nat
  BY <1>1, SessionFacts
<1>3. DrainCases(st, x, d)
  BY DrainStepCases
<1>4. Len(st.buf) \in Nat /\ Len(b) \in Nat
  BY DEF DrainStates
<1>5. CASE st.stop
  <2>1. d = st
    BY <1>3, <1>5, Zenon DEF DrainCases
  <2>2. Reached(s, j, r, b, n + 1, st, k, q)
    BY <1>1, <1>5, Zenon DEF Reached
  <2> QED
    BY <2>1, <2>2
<1>6. CASE ~st.stop /\ Finished(s, k, r)
  <2> DEFINE e == Ends(s, k + 1)
             rest == Rest(s, e, r)
  <2>1. /\ x = [msg |-> s[k + 1].msg, rest |-> rest] /\ s[k + 1].msg # <<>>
        /\ Holds(s, k + 1, r, e, rest) /\ Len(rest) < Len(st.buf)
    BY <1>1, <1>2, <1>6, RoundTakesOne
  <2>2. k < Len(s) /\ k + 1 \in j..Len(s) /\ k + 1 \in 0..Len(s)
    BY <1>1, <1>2, <1>6 DEF Finished
  <2>3. Append(st.msgs, s[k + 1].msg) = Msgs(s, j, k + 1)
    BY <1>1, <2>2, MsgsGrow
  <2>4. Len(rest) \in Nat
    <3>1. rest \in Seq(Chars)
      BY <2>1, <2>2, SkipHolds
    <3> HIDE DEF rest
    <3> QED BY <3>1
  <2> HIDE DEF x, rest
  <2>5. x.msg = s[k + 1].msg /\ x.rest = rest
    BY <2>1
  <2>6. d = [buf |-> rest, msgs |-> Msgs(s, j, k + 1), stop |-> FALSE]
    BY <1>3, <1>6, <2>1, <2>3, <2>5, Zenon DEF DrainCases
  <2> HIDE DEF d
  <2>7. d.buf = rest /\ d.msgs = Msgs(s, j, k + 1) /\ d.stop = FALSE
    BY <2>6
  <2>8. Len(d.buf) + (n + 1) <= Len(b)
    BY <1>1, <1>4, <1>6, <2>1, <2>4, <2>7
  <2>9. Reached(s, j, r, b, n + 1, d, k + 1, e)
    BY <2>1, <2>2, <2>7, <2>8, Zenon DEF Reached
  <2> QED
    BY <2>9 DEF d
<1>7. CASE ~st.stop /\ ~Finished(s, k, r)
  <2>1. x.msg = <<>> /\ \E o : Holds(s, k, r, o, x.rest)
    BY <1>1, <1>2, <1>7, RoundTakesOne
  <2>2. PICK o : Holds(s, k, r, o, x.rest)
    BY <2>1
  <2> HIDE DEF x
  <2>3. d = [buf |-> x.rest, msgs |-> st.msgs, stop |-> TRUE]
    BY <1>3, <1>7, <2>1, Zenon DEF DrainCases
  <2> HIDE DEF d
  <2>4. d.buf = x.rest /\ d.msgs = st.msgs /\ d.stop = TRUE
    BY <2>3
  <2>5. Reached(s, j, r, b, n + 1, d, k, o)
    BY <1>1, <1>7, <2>2, <2>4, Zenon DEF Reached
  <2> QED
    BY <2>5 DEF d
<1> QED
  BY <1>5, <1>6, <1>7

\* The loop has handled the messages up to the k-th and waits for the next.
Drained(s, j, r, d, k, q) ==
    /\ k \in j..Len(s)
    /\ Holds(s, k, r, q, d.buf)
    /\ ~Finished(s, k, r)
    /\ d.msgs = Msgs(s, j, k)

\* The loop handles every message that has arrived, and keeps the rest.
LEMMA DrainTakesAll ==
  ASSUME NEW s \in Sessions, NEW j \in 0..Len(s), NEW r \in 0..Len(Wire(s)),
         NEW p, NEW b, Holds(s, j, r, p, b)
  PROVE  \E k, q : Drained(s, j, r, Drain(b), k, q)
<1>1. b \in Seq(Chars) /\ Len(b) \in Nat /\ Len(s) \in Nat /\ j \in Nat
  BY SkipHolds, SessionFacts
<1> DEFINE z == Len(b) + 1
<1>2. PICK h \in [0..z -> DrainStates] :
            /\ h[0] = Start(b)
            /\ \A i \in 1..z : h[i] = DrainStep(h[i - 1])
            /\ Drain(b) = h[z]
  BY <1>1, DrainDef
<1>3. z \in Nat /\ z > Len(b)
  BY <1>1
<1> HIDE DEF z
<1> DEFINE A == {i \in Nat : i \in 0..z => \E k, q : Reached(s, j, r, b, i, h[i], k, q)}
<1>4. 0 \in A
  <2>1. /\ h[0].buf = b /\ h[0].msgs = <<>> /\ h[0].stop = FALSE
    BY <1>2 DEF Start
  <2>2. Msgs(s, j, j) = <<>> /\ j \in j..Len(s)
    <3>1. 1..(j - j) = {}
      BY <1>1
    <3>2. Len(Msgs(s, j, j)) = 0 /\ Msgs(s, j, j) \in Seq(Seq(Chars)) /\ j \in j..Len(s)
      BY <1>1, MsgsTyped
    <3> QED
      BY <3>2
  <2>3. Len(h[0].buf) + 0 <= Len(b)
    BY <2>1, <1>1
  <2>4. Reached(s, j, r, b, 0, h[0], j, p)
    BY <2>1, <2>2, <2>3, Zenon DEF Reached
  <2> QED
    BY <2>4
<1>5. ASSUME NEW i \in Nat, i \in A PROVE i + 1 \in A
  <2>1. SUFFICES ASSUME i + 1 \in 0..z PROVE \E k, q : Reached(s, j, r, b, i + 1, h[i + 1], k, q)
    OBVIOUS
  <2>2. i \in 0..z /\ i + 1 \in 1..z /\ (i + 1) - 1 = i /\ h[i] \in DrainStates
    BY <2>1, <1>3
  <2>3. PICK k, q : Reached(s, j, r, b, i, h[i], k, q)
    BY <2>2, <1>5
  <2>4. \E l, o : Reached(s, j, r, b, i + 1, DrainStep(h[i]), l, o)
    BY <2>2, <2>3, <1>1, RoundReaches
  <2>5. h[i + 1] = DrainStep(h[i])
    BY <2>2, <1>2, Zenon
  <2> QED
    BY <2>4, <2>5, Zenon
<1>6. Nat \subseteq A
  <2> HIDE DEF A
  <2> QED BY <1>4, <1>5, Induct
<1>7. PICK k, q : Reached(s, j, r, b, z, h[z], k, q)
  BY <1>3, <1>6
<1>8. h[z].stop
  <2>1. Len(h[z].buf) \in Nat
    <3>1. h[z] \in DrainStates
      BY <1>3
    <3> QED
      BY <3>1 DEF DrainStates
  <2>2. ~(Len(h[z].buf) + z <= Len(b))
    BY <2>1, <1>1, <1>3
  <2> QED
    BY <2>2, <1>7, Zenon DEF Reached
<1> QED
  BY <1>2, <1>7, <1>8, Zenon DEF Reached, Drained

----------------------------------------------------------------------------
(* The theorems                                                            *)

\* k messages have been received to their last byte and handled, and the
\* buffer holds what has arrived behind them.
Caught(k, q) ==
    /\ k \in 0..Len(session)
    /\ Holds(session, k, received, q, buffer)
    /\ ~Finished(session, k, received)
    /\ handled = Msgs(session, 0, k)

CaughtUp ==
    /\ session \in Sessions
    /\ received \in 0..Len(Wire(session))
    /\ \E k, q : Caught(k, q)

LEMMA InitCaughtUp == Init => CaughtUp
<1> SUFFICES ASSUME Init PROVE CaughtUp
  OBVIOUS
<1>1. session \in Sessions /\ received = 0 /\ buffer = <<>> /\ handled = <<>>
  BY DEF Init
<1>2. /\ Len(session) \in Nat /\ 0 \in 0..Len(session) /\ Len(Wire(session)) \in Nat
  BY <1>1, SessionFacts, WireTyped
<1>3. Ends(session, 0) = 0
  <2>1. Bytes(session, 0) = <<>>
    BY <1>1, BytesDef
  <2> QED
    BY <2>1 DEF Ends
<1>4. 0 < Len(session) => 0 <= Begins(session, 0 + 1) /\ Ends(session, 0 + 1) > 0
                                 /\ ~(Ends(session, 0 + 1) <= 0)
  <2>1. 0 < Len(session) => /\ Begins(session, 0 + 1) \in Nat /\ Ends(session, 0 + 1) \in Nat
                            /\ Begins(session, 0 + 1) < Ends(session, 0 + 1)
    BY <1>1, <1>2, NextBounds
  <2> QED
    BY <2>1
<1>5. Rest(session, 0, 0) = <<>>
  BY SubSeqEmpty DEF Rest
<1>6. Msgs(session, 0, 0) = <<>>
  <2>1. Len(Msgs(session, 0, 0)) = 0 /\ Msgs(session, 0, 0) \in Seq(Seq(Chars))
    BY <1>1, <1>2, MsgsTyped
  <2> QED
    BY <2>1
<1>7. Holds(session, 0, received, 0, buffer)
  BY <1>1, <1>3, <1>4, <1>5 DEF Holds
<1>8. ~Finished(session, 0, received)
  BY <1>1, <1>4, Zenon DEF Finished
<1>9. Caught(0, 0)
  BY <1>1, <1>2, <1>6, <1>7, <1>8 DEF Caught
<1> QED
  BY <1>1, <1>2, <1>9 DEF CaughtUp

LEMMA NextCaughtUp == CaughtUp /\ [Next]_vars => CaughtUp'
<1> SUFFICES ASSUME CaughtUp, [Next]_vars PROVE CaughtUp'
  OBVIOUS
<1>1. PICK k, q : Caught(k, q)
  BY DEF CaughtUp
<1>2. session \in Sessions /\ received \in 0..Len(Wire(session)) /\ Len(Wire(session)) \in Nat
  BY WireTyped DEF CaughtUp
<1>3. CASE UNCHANGED vars
  BY <1>1, <1>2, <1>3 DEF CaughtUp, Caught, vars
<1>4. ASSUME NEW n \in 1..MaxChunk, Recv(n) PROVE CaughtUp'
  <2> DEFINE s == session
             r == received + n
             b == buffer \o SubSeq(Wire(s), received + 1, r)
             d == Drain(b)
  <2>1. /\ r <= Len(Wire(s)) /\ buffer' = d.buf /\ handled' = handled \o d.msgs
        /\ received' = r /\ session' = s
    BY <1>4 DEF Recv
  <2>2. n \in Nat /\ received \in Nat /\ r \in 0..Len(Wire(s)) /\ r \in received..Len(Wire(s))
    BY <2>1, <1>2, SessionsAssumption
  <2>3. /\ k \in 0..Len(s) /\ Holds(s, k, received, q, buffer) /\ ~Finished(s, k, received)
        /\ handled = Msgs(s, 0, k)
    BY <1>1 DEF Caught
  <2>4. q \in 0..received /\ buffer = Rest(s, q, received) /\ q \in Ends(s, k)..received
        /\ (k < Len(s) => q <= Begins(s, k + 1))
    BY <2>3, <1>2, SkipHolds DEF Holds
  <2>5. b = Rest(s, q, r)
    <3> HIDE DEF r
    <3>1. Rest(s, q, received) \o SubSeq(Wire(s), received + 1, r) = Rest(s, q, r)
      BY <2>2, <2>4, <1>2, RestGrows
    <3> QED
      BY <3>1, <2>4
  <2>6. Holds(s, k, r, q, b)
    <3>1. q \in Ends(s, k)..r
      <4>1. Ends(s, k) \in Nat
        BY <2>3, <1>2, NextBounds
      <4> QED
        BY <4>1, <2>2, <2>4
    <3> QED
      BY <3>1, <2>4, <2>5 DEF Holds
  <2> HIDE DEF b, r
  <2>7. PICK l, o : Drained(s, k, r, d, l, o)
    BY <2>2, <2>3, <2>6, <1>2, DrainTakesAll
  <2>8. handled' = Msgs(s, 0, l)
    BY <2>1, <2>3, <2>7, <1>2, MsgsJoin DEF Drained
  <2>9. l \in 0..Len(s)
    BY <2>3, <2>7, <1>2, SessionFacts DEF Drained
  <2>10. Caught(l, o)'
    BY <2>1, <2>7, <2>8, <2>9 DEF Caught, Drained
  <2>11. session' \in Sessions /\ received' \in 0..Len(Wire(session'))
    BY <2>1, <2>2, <1>2
  <2> QED
    BY <2>10, <2>11 DEF CaughtUp
<1> QED
  BY <1>3, <1>4 DEF Next

LEMMA CaughtUpInvariant == Spec => []CaughtUp
BY InitCaughtUp, NextCaughtUp, PTL DEF Spec

LEMMA CompleteIs ==
  ASSUME session \in Sessions, received \in 0..Len(Wire(session)), NEW k, NEW q, Caught(k, q)
  PROVE  Complete = k
<1> DEFINE s == session
           ends == {n \in 0..Len(s) : Len(Bytes(s, n)) <= received}
<1>1. /\ k \in 0..Len(s) /\ Holds(s, k, received, q, buffer) /\ ~Finished(s, k, received)
  BY DEF Caught
<1>2. Len(s) \in Nat /\ Len(Wire(s)) \in Nat /\ k \in Nat /\ received \in Nat
  BY <1>1, SessionFacts, WireTyped
<1>3. k \in ends
  <2>1. Ends(s, k) \in Nat
    BY <1>1, NextBounds
  <2>2. Ends(s, k) <= received
    BY <2>1, <1>1, <1>2 DEF Holds
  <2> QED
    BY <2>2, <1>1 DEF Ends
<1>4. ASSUME NEW n \in ends PROVE n <= k
  <2>1. SUFFICES ASSUME n > k PROVE FALSE
    BY <1>2
  <2>2. k + 1 \in 0..Len(s) /\ n \in (k + 1)..Len(s) /\ k < Len(s)
    BY <2>1, <1>2
  <2>3. Ends(s, k + 1) <= Ends(s, n) /\ Ends(s, k + 1) \in Nat /\ Ends(s, n) \in Nat
    BY <2>2, BytesStay
  <2>4. Ends(s, n) <= received
    BY DEF Ends
  <2> QED
    BY <2>2, <2>3, <2>4, <1>1, <1>2 DEF Finished
<1>5. Complete \in ends /\ \A m \in ends : m <= Complete
  <2>1. \E n \in ends : \A m \in ends : m <= n
    BY <1>3, <1>4
  <2> QED
    BY <2>1, Zenon DEF Complete
<1>6. PICK c \in ends : c = Complete /\ \A m \in ends : m <= c
  BY <1>5, Zenon
<1>7. c <= k /\ k <= c /\ c \in Nat
  BY <1>3, <1>4, <1>6
<1> QED
  BY <1>6, <1>7, <1>2
\* Types; the handler is never given an empty message.
THEOREM FramingTyped == Spec => []TypeOK
<1>1. CaughtUp => TypeOK
  <2> SUFFICES ASSUME CaughtUp PROVE TypeOK
    OBVIOUS
  <2>1. session \in Sessions /\ received \in 0..Len(Wire(session))
    BY DEF CaughtUp
  <2>2. PICK k, q : Caught(k, q)
    BY DEF CaughtUp
  <2>3. k \in 0..Len(session) /\ Holds(session, k, received, q, buffer) /\ handled = Msgs(session, 0, k)
    BY <2>2 DEF Caught
  <2>4. buffer \in Seq(Chars)
    BY <2>1, <2>3, SkipHolds
  <2>5. ASSUME NEW i \in DOMAIN handled PROVE handled[i] \in Seq(Chars) /\ handled[i] # <<>>
    <3>1. Len(session) \in Nat /\ 0 \in 0..Len(session) /\ k \in Nat
      BY <2>1, <2>3, SessionFacts
    <3>2. i \in 1..(k - 0) /\ handled[i] = session[0 + i].msg
      BY <2>3, <2>5 DEF Msgs
    <3>3. 0 + i \in 1..Len(session)
      BY <2>3, <3>1, <3>2
    <3>4. session[0 + i].msg \in Seq(Chars) /\ IsObject(session[0 + i].msg)
      BY <2>1, <3>3, SessionFacts
    <3> QED
      BY <3>2, <3>4 DEF IsObject
  <2> QED
    BY <2>1, <2>4, <2>5 DEF TypeOK
<1> QED
  BY <1>1, CaughtUpInvariant, PTL

\* However recv() cuts the bytes of the client, the handler has had exactly
\* the messages received to their last byte, each once and in their order.
THEOREM EachMessageOnce == Spec => []HandledAsReceived
<1>1. CaughtUp => HandledAsReceived
  <2> SUFFICES ASSUME CaughtUp PROVE HandledAsReceived
    OBVIOUS
  <2>1. session \in Sessions /\ received \in 0..Len(Wire(session))
    BY DEF CaughtUp
  <2>2. PICK k, q : Caught(k, q)
    BY DEF CaughtUp
  <2>3. Complete = k
    BY <2>1, <2>2, CompleteIs
  <2>4. handled = Msgs(session, 0, k) /\ k \in Nat
    BY <2>1, <2>2, SessionFacts DEF Caught
  <2>5. Msgs(session, 0, k) = [i \in 1..k |-> session[i].msg]
    BY <2>4 DEF Msgs
  <2> QED
    BY <2>3, <2>4, <2>5 DEF HandledAsReceived
<1> QED
  BY <1>1, CaughtUpInvariant, PTL

\* The buffer holds, but for blanks, what has arrived of the next message.
THEOREM BufferKeepsRest == Spec => []BufferIsUnfinished
<1>1. CaughtUp => BufferIsUnfinished
  <2> SUFFICES ASSUME CaughtUp PROVE BufferIsUnfinished
    OBVIOUS
  <2>1. session \in Sessions /\ received \in 0..Len(Wire(session))
    BY DEF CaughtUp
  <2>2. PICK k, q : Caught(k, q)
    BY DEF CaughtUp
  <2>3. Complete = k
    BY <2>1, <2>2, CompleteIs
  <2>4. k \in 0..Len(session) /\ Holds(session, k, received, q, buffer)
    BY <2>2 DEF Caught
  <2> DEFINE e == Ends(session, k)
             a == Rest(session, e, received)
             z == Begins(session, k + 1)
  <2>5. Holds(session, k, received, e, a)
    <3>1. e \in Nat /\ (k < Len(session) => e <= z)
      BY <2>1, <2>4, NextBounds
    <3>2. e \in e..received
      BY <3>1, <2>1, <2>4 DEF Holds
    <3> QED
      BY <3>1, <3>2 DEF Holds
  <2>6. SkipWhitespace(buffer) = IF Started(session, k, received) THEN Rest(session, z, received) ELSE <<>>
    BY <2>1, <2>4, SkipHolds
  <2>7. SkipWhitespace(a) = IF Started(session, k, received) THEN Rest(session, z, received) ELSE <<>>
    BY <2>1, <2>4, <2>5, SkipHolds
  <2>8. a = SubSeq(Wire(session), Len(Bytes(session, k)) + 1, received)
    BY DEF Rest, Ends
  <2> QED
    BY <2>3, <2>6, <2>7, <2>8, Zenon DEF BufferIsUnfinished
<1> QED
  BY <1>1, CaughtUpInvariant, PTL
====
