----------------------------- MODULE AuthzProofs -----------------------------
(***************************************************************************)
(* Proofs about Authz, for any documents the schema admits, any flag and   *)
(* paths of any length: the evaluator's scan from the left lands where the *)
(* reference, read from the right, says; and a call is judged by that.     *)
(***************************************************************************)
EXTENDS Authz, SequenceTheorems, WellFoundedInduction, TLAPS

-------------------------------------------------------------------------------
(* Induction over the numbers up to n, for sets *)

LEMMA Climb ==
  ASSUME NEW n \in Nat, NEW A, 0 \in A, \A i \in 1..n : i - 1 \in A => i \in A
  PROVE  \A i \in 0..n : i \in A
  <1> DEFINE T == {i \in 0..n : i \notin A}
             R == OpToRel(<, Nat)
  <1> SUFFICES ASSUME T # {}
               PROVE  FALSE
    OBVIOUS
  <1>1. \A x, y \in Nat : x < y => <<x, y>> \in R
    BY DEF OpToRel
  <1>2. IsWellFoundedOn(R, Nat)
    BY NatLessThanWellFounded
  <1>3. T \in SUBSET Nat
    OBVIOUS
  <1> HIDE DEF R
  <1>4. PICK x \in T : \A y \in T : ~(<<y, x>> \in R)
    <2> HIDE DEF T
    <2> QED BY <1>2, <1>3, WFMin
  <1>5. x \in 1..n /\ x - 1 \in 0..n
    OBVIOUS
  <1>6. x - 1 \notin T
    <2>1. x \in Nat /\ x - 1 \in Nat /\ x - 1 < x
      BY <1>5
    <2>2. <<x - 1, x>> \in R
      BY <1>1, <2>1
    <2> HIDE DEF T
    <2> QED BY <1>4, <2>2
  <1> QED BY <1>5, <1>6

-------------------------------------------------------------------------------
(* The two walks over a path *)

\* One step of path.Clean on an absolute path, and one of the reference.
CleanStep(d, s) ==
    IF s = "." THEN d
    ELSE IF s # ".." THEN Append(d, s)
    ELSE IF d # <<>> /\ Last(d) # ".." THEN Front(d)
    ELSE d

LandStep(w, s) ==
    CASE s = "." -> w
      [] s = ".." -> [w EXCEPT !.hide = @ + 1]
      [] OTHER -> IF w.hide > 0 THEN [w EXCEPT !.hide = @ - 1]
                  ELSE [w EXCEPT !.names = <<s>> \o @]

\* d without its last h segments.
Trim(d, h) == SubSeq(d, 1, IF h <= Len(d) THEN Len(d) - h ELSE 0)

Names == STRING \ {".", ".."}
Walks == [hide : Nat, names : Seq(Names)]

\* A cleaned absolute path is one of names.
LEMMA CleanStepType ==
  ASSUME NEW d \in Seq(Names), NEW s \in STRING
  PROVE  CleanStep(d, s) \in Seq(Names)
  <1>1. CASE s = "."
    BY <1>1 DEF CleanStep
  <1>2. CASE s # "." /\ s # ".."
    BY <1>2, AppendProperties DEF CleanStep, Names
  <1>3. CASE s = ".."
    <2>1. d # <<>> => Front(d) \in Seq(Names)
      <3> SUFFICES ASSUME d # <<>>
                   PROVE  Front(d) \in Seq(Names)
        OBVIOUS
      <3>1. Len(d) - 1 \in Int /\ \A i \in 1..(Len(d) - 1) : d[i] \in Names
        BY LenProperties, ElementOfSeq
      <3> QED BY <3>1, SubSeqProperties DEF Front
    <2> QED BY <1>3, <2>1 DEF CleanStep
  <1> QED BY <1>1, <1>2, <1>3

LEMMA OneName ==
  ASSUME NEW s \in Names
  PROVE  <<s>> \in Seq(Names)
  OBVIOUS

LEMMA LandStepType ==
  ASSUME NEW w \in Walks, NEW s \in STRING
  PROVE  LandStep(w, s) \in Walks
  <1>0. w.hide \in Nat /\ w.names \in Seq(Names)
    BY DEF Walks
  <1>1. CASE s = "."
    BY <1>1 DEF LandStep
  <1>2. CASE s = ".."
    <2>1. LandStep(w, s) = [w EXCEPT !.hide = w.hide + 1]
      BY <1>2 DEF LandStep
    <2> QED BY <1>0, <2>1 DEF Walks
  <1>3. CASE s \in Names /\ w.hide > 0
    <2>1. LandStep(w, s) = [w EXCEPT !.hide = w.hide - 1]
      BY <1>3 DEF LandStep, Names
    <2> QED BY <1>0, <1>3, <2>1 DEF Walks
  <1>4. CASE s \in Names /\ ~(w.hide > 0)
    <2>1. LandStep(w, s) = [w EXCEPT !.names = <<s>> \o w.names]
      BY <1>4 DEF LandStep, Names
    <2>2. <<s>> \o w.names \in Seq(Names)
      <3>1. <<s>> \in Seq(Names)
        BY <1>4
      <3> QED BY <1>0, <3>1, ConcatProperties
    <2> QED BY <1>0, <2>1, <2>2 DEF Walks
  <1> QED BY <1>1, <1>2, <1>3, <1>4 DEF Names

\* What one step of the scan adds is what one step of the reference sees.
LEMMA StepsAgree ==
  ASSUME NEW d \in Seq(Names), NEW w \in Walks, NEW s \in STRING
  PROVE  Trim(CleanStep(d, s), w.hide) \o w.names
           = Trim(d, LandStep(w, s).hide) \o LandStep(w, s).names
  <1> DEFINE h == w.hide
             n == Len(d)
  <1>0. h \in Nat /\ n \in Nat /\ w.names \in Seq(Names)
    BY LenProperties DEF Walks
  <1>1. CASE s = "."
    BY <1>1 DEF CleanStep, LandStep
  <1>2. CASE s = ".."
    <2>1. LandStep(w, s).hide = h + 1 /\ LandStep(w, s).names = w.names
      BY <1>2 DEF LandStep, Walks
    <2>2. CASE d = <<>>
      <3>1. n = 0 /\ CleanStep(d, s) = d
        BY <1>2, <2>2, EmptySeq DEF CleanStep
      <3>2. Trim(d, h) = SubSeq(d, 1, 0) /\ Trim(d, h + 1) = SubSeq(d, 1, 0)
        BY <1>0, <3>1 DEF Trim
      <3> QED BY <2>1, <3>1, <3>2
    <2>3. CASE d # <<>>
      <3>1. n \in 1..n /\ n - 1 \in 0..n /\ Last(d) \in Names
        BY <1>0, <2>3, EmptySeq, LenProperties, ElementOfSeq DEF Last
      <3>2. CleanStep(d, s) = SubSeq(d, 1, n - 1)
        BY <1>2, <2>3, <3>1 DEF CleanStep, Front, Names
      <3>3. Len(SubSeq(d, 1, n - 1)) = n - 1
        <4>1. n - 1 \in Int /\ 1 \in Int /\ \A i \in 1..(n - 1) : d[i] \in Names
          BY <3>1, ElementOfSeq
        <4>2. Len(SubSeq(d, 1, n - 1)) = IF 1 <= n - 1 THEN n - 1 - 1 + 1 ELSE 0
          BY <4>1, SubSeqProperties
        <4>3. n \in Nat /\ n >= 1
          BY <1>0, <3>1
        <4> HIDE DEF n
        <4> QED BY <4>2, <4>3
      <3> DEFINE k == IF h <= n - 1 THEN n - 1 - h ELSE 0
      <3>4. k \in 0..(n - 1)
        BY <1>0, <3>1
      <3>5. SubSeq(SubSeq(d, 1, n - 1), 1, k) = SubSeq(d, 1, k)
        <4> HIDE DEF k
        <4>1. CASE k = 0
          BY <4>1, SubSeqEmpty
        <4>2. CASE k # 0
          <5>1. n - 1 \in 1..n /\ k \in 1..(n - 1 - 1 + 1) /\ 1 \in 1..(n - 1 - 1 + 1) /\ 1 \in 1..n
            BY <1>0, <3>4, <4>2
          <5>2. SubSeq(SubSeq(d, 1, n - 1), 1, k) = SubSeq(d, 1 + 1 - 1, 1 + k - 1)
            BY <5>1, SubSeqOfSubSeq
          <5> QED BY <3>4, <5>2
        <4> QED BY <4>1, <4>2
      <3>6. Trim(d, h + 1) = SubSeq(d, 1, k)
        BY SMTT(30), <1>0, <3>1 DEF Trim
      <3>7. Trim(CleanStep(d, s), h) = SubSeq(SubSeq(d, 1, n - 1), 1, k)
        BY <3>2, <3>3 DEF Trim
      <3> QED BY <2>1, <3>5, <3>6, <3>7
    <2> QED BY <2>2, <2>3
  <1>3. CASE s # "." /\ s # ".."
    <2>1. CleanStep(d, s) = d \o <<s>> /\ Len(d \o <<s>>) = n + 1 /\ <<s>> \in Seq(Names)
      <3>1. CleanStep(d, s) = Append(d, s) /\ s \in Names
        BY <1>3 DEF CleanStep, Names
      <3>2. <<s>> \in Seq(Names)
        BY <3>1, OneName
      <3>3. Append(d, s) = d \o <<s>> /\ Len(Append(d, s)) = n + 1
        BY <3>1, AppendIsConcat, AppendProperties
      <3> QED BY <3>1, <3>2, <3>3
    <2>2. CASE h > 0
      <3>1. LandStep(w, s).hide = h - 1 /\ LandStep(w, s).names = w.names
        BY <1>3, <2>2 DEF LandStep, Walks
      <3> DEFINE k == IF h <= n + 1 THEN n + 1 - h ELSE 0
      <3>2. k \in 0..n
        BY <1>0, <2>2
      <3>3. SubSeq(d \o <<s>>, 1, k) = SubSeq(d, 1, k)
        <4> HIDE DEF k
        <4>1. CASE k = 0
          BY <4>1, SubSeqEmpty
        <4>2. CASE k # 0
          <5>1. k \in 1..n /\ 1 \in 1..n
            BY <1>0, <3>2, <4>2
          <5> QED BY <2>1, <5>1, SubSeqOfConcat1
        <4> QED BY <4>1, <4>2
      <3>4. Trim(CleanStep(d, s), h) = SubSeq(d \o <<s>>, 1, k)
        <4>1. Len(CleanStep(d, s)) = n + 1
          BY <2>1
        <4> DEFINE m == Len(CleanStep(d, s))
                   j == IF h <= m THEN m - h ELSE 0
        <4>2. Trim(CleanStep(d, s), h) = SubSeq(CleanStep(d, s), 1, j)
          BY DEF Trim
        <4> HIDE DEF h, n, m
        <4>3. m = n + 1
          BY <4>1 DEF m
        <4>4. j = k
          BY <1>0, <4>3
        <4> HIDE DEF j, k
        <4> QED BY <2>1, <4>2, <4>4
      <3>5. Trim(d, h - 1) = SubSeq(d, 1, k)
        BY <1>0, <2>2 DEF Trim
      <3> QED BY <3>1, <3>3, <3>4, <3>5
    <2>3. CASE h = 0
      <3>1. LandStep(w, s).hide = 0 /\ LandStep(w, s).names = <<s>> \o w.names
        <4>1. LandStep(w, s) = [w EXCEPT !.names = <<s>> \o w.names]
          BY <1>3, <2>3 DEF LandStep
        <4> QED BY <2>3, <4>1 DEF Walks
      <3>2. d \o <<s>> \in Seq(Names)
        BY <2>1, ConcatProperties
      <3>3. Trim(d \o <<s>>, 0) = SubSeq(d \o <<s>>, 1, Len(d \o <<s>>)) /\ Trim(d, 0) = SubSeq(d, 1, Len(d))
        BY <1>0, <2>1 DEF Trim
      <3>4. Trim(d \o <<s>>, 0) = d \o <<s>> /\ Trim(d, 0) = d
        BY <3>2, <3>3, SubSeqFull
      <3>5. (d \o <<s>>) \o w.names = d \o (<<s>> \o w.names)
        <4>1. d \in Seq(Names) /\ <<s>> \in Seq(Names) /\ w.names \in Seq(Names)
          BY <1>0, <2>1
        <4> DEFINE one == <<s>>
                   u == w.names
        <4>2. one \in Seq(Names) /\ u \in Seq(Names)
          BY <4>1
        <4> HIDE DEF one, u
        <4>3. (d \o one) \o u = d \o (one \o u)
          BY <4>2, ConcatAssociative
        <4> QED BY <4>3, Zenon DEF one, u
      <3>6. Trim(CleanStep(d, s), h) = d \o <<s>> /\ Trim(d, LandStep(w, s).hide) = d
        BY <2>1, <2>3, <3>1, <3>4
      <3> QED BY <3>1, <3>5, <3>6
    <2>4. h > 0 \/ h = 0
      BY <1>0
    <2> QED BY <2>2, <2>3, <2>4
  <1> QED BY <1>1, <1>2, <1>3

-------------------------------------------------------------------------------
(* The evaluator's scan lands where the reference says *)

\* The function that starts with c and takes each value from the one before it.
Iterates(f, n, S, c, G) == f \in [0..n -> S] /\ f[0] = c /\ \A i \in 1..n : f[i] = G[i][f[i - 1]]

LEMMA WalkExists ==
  ASSUME NEW n \in Nat, NEW S, NEW c \in S, NEW G \in [1..n -> [S -> S]]
  PROVE  \E f : Iterates(f, n, S, c, G)
  <1> DEFINE good(f, m) == f \in [0..m -> S] /\ f[0] = c /\ \A i \in 1..m : f[i] = G[i][f[i - 1]]
             A == {m \in 0..n : \E f : good(f, m)}
  <1>1. 0 \in A
    <2>1. good([i \in 0..0 |-> c], 0)
      OBVIOUS
    <2> HIDE DEF good
    <2> QED BY <2>1
  <1>2. ASSUME NEW m \in 1..n, m - 1 \in A
        PROVE  m \in A
    <2>1. PICK f : good(f, m - 1)
      BY <1>2
    <2> DEFINE g == [i \in 0..m |-> IF i = m THEN G[m][f[m - 1]] ELSE f[i]]
    <2>2. m - 1 \in 0..(m - 1) /\ f[m - 1] \in S /\ G[m][f[m - 1]] \in S
      BY <2>1
    <2>3. g \in [0..m -> S] /\ g[0] = c
      BY <2>1, <2>2
    <2>4. ASSUME NEW i \in 1..m
          PROVE  g[i] = G[i][g[i - 1]]
      <3>1. g[i - 1] = f[i - 1]
        OBVIOUS
      <3>2. CASE i = m
        BY <3>1, <3>2
      <3>3. CASE i # m
        BY <2>1, <3>1, <3>3
      <3> QED BY <3>2, <3>3
    <2>5. good(g, m)
      BY <2>3, <2>4
    <2> HIDE DEF good, g
    <2> QED BY <2>5
  <1>3. n \in A
    <2> HIDE DEF A
    <2>1. \A i \in 0..n : i \in A
      BY <1>1, <1>2, Climb
    <2> QED BY <2>1
  <1>4. PICK f : good(f, n)
    BY <1>3
  <1>5. Iterates(f, n, S, c, G)
    BY <1>4 DEF Iterates
  <1> QED BY <1>5

\* The function Clean recurses on, for an absolute path.
LEMMA CleanWalk ==
  ASSUME NEW p \in AllPaths, p.abs
  PROVE  \E f \in [0..Len(p.segs) -> Seq(Names)] :
            /\ f[0] = <<>>
            /\ \A i \in 1..Len(p.segs) : f[i] = CleanStep(f[i - 1], p.segs[i])
            /\ Clean(p) = [abs |-> TRUE, segs |-> f[Len(p.segs)]]
  <1> DEFINE n == Len(p.segs)
             S == Seq(Names)
             G == [i \in 1..n |-> [d \in S |-> CleanStep(d, p.segs[i])]]
             step(f) == [i \in 0..n |->
                 IF i = 0 THEN <<>>
                 ELSE LET s == p.segs[i]
                          d == f[i - 1]
                      IN  IF s = "." THEN d
                          ELSE IF s # ".." THEN Append(d, s)
                          ELSE IF d # <<>> /\ Last(d) # ".." THEN Front(d)
                          ELSE IF p.abs THEN d
                          ELSE Append(d, s)]
             done == CHOOSE f : f = step(f)
  <1>1. Clean(p) = [abs |-> p.abs, segs |-> done[n]]
    BY Zenon DEF Clean
  <1>2. p.abs = TRUE /\ n \in Nat /\ \A i \in 1..n : p.segs[i] \in STRING
    BY LenProperties, ElementOfSeq DEF AllPaths
  <1>3. ASSUME NEW f, NEW i \in 0..n
        PROVE  step(f)[i] = IF i = 0 THEN <<>> ELSE CleanStep(f[i - 1], p.segs[i])
    BY <1>2 DEF CleanStep
  <1>4. G \in [1..n -> [S -> S]]
    BY <1>2, CleanStepType
  <1>5. PICK g \in [0..n -> S] : g[0] = <<>> /\ \A i \in 1..n : g[i] = CleanStep(g[i - 1], p.segs[i])
    <2>1. <<>> \in S
      BY EmptySeq
    <2>2. PICK g \in [0..n -> S] : g[0] = <<>> /\ \A i \in 1..n : g[i] = G[i][g[i - 1]]
      <3>1. n \in Nat
        BY <1>2
      <3> HIDE DEF G, n, S
      <3>2. PICK g : Iterates(g, n, S, <<>>, G)
        BY <1>4, <2>1, <3>1, WalkExists
      <3> QED BY <3>2 DEF Iterates
    <2>3. ASSUME NEW i \in 1..n
          PROVE  G[i][g[i - 1]] = CleanStep(g[i - 1], p.segs[i])
      <3>1. g[i - 1] \in S
        BY <1>2
      <3> HIDE DEF S
      <3> QED BY <3>1
    <2> QED BY ZenonT(30), <2>2, <2>3
  <1>6. g = step(g)
    <2>1. ASSUME NEW i \in 0..n
          PROVE  g[i] = step(g)[i]
      <3>1. step(g)[i] = IF i = 0 THEN <<>> ELSE CleanStep(g[i - 1], p.segs[i])
        BY <1>3
      <3>2. i # 0 => i \in 1..n
        BY <1>2
      <3> HIDE DEF step, n
      <3> QED BY <1>5, <3>1, <3>2
    <2> DEFINE h == step(g)
    <2>2. h = [i \in 0..n |-> h[i]]
      OBVIOUS
    <2>3. \A i \in 0..n : g[i] = h[i]
      BY <2>1
    <2> HIDE DEF h, n, S
    <2>4. g = h
      BY <2>2, <2>3
    <2> QED BY <2>4 DEF h
  <1>7. done = step(done)
    <2> HIDE DEF step
    <2> QED BY <1>6
  <1> HIDE DEF done
  <1>8. done = [i \in 0..n |-> done[i]]
    <2> DEFINE h == step(done)
    <2>1. h = [i \in 0..n |-> h[i]]
      OBVIOUS
    <2> HIDE DEF h, n
    <2>2. done = h
      BY <1>7 DEF h
    <2> QED BY <2>1, <2>2
  <1>9. done[0] = <<>> /\ \A i \in 1..n : done[i] = CleanStep(done[i - 1], p.segs[i])
    <2>1. \A i \in 0..n : done[i] = IF i = 0 THEN <<>> ELSE CleanStep(done[i - 1], p.segs[i])
      <3> TAKE i \in 0..n
      <3>1. step(done)[i] = IF i = 0 THEN <<>> ELSE CleanStep(done[i - 1], p.segs[i])
        BY <1>3
      <3>2. step(done)[i] = done[i]
        <4> HIDE DEF step
        <4> QED BY <1>7
      <3> QED BY <3>1, <3>2
    <2> HIDE DEF n
    <2> QED BY <1>2, <2>1
  <1>10. \A i \in 0..n : done[i] \in S
    <2> DEFINE A == {i \in 0..n : done[i] \in S}
    <2>1. 0 \in A
      <3>1. 0 \in 0..n /\ <<>> \in S
        BY <1>2, EmptySeq
      <3> QED BY <1>9, <3>1
    <2>2. ASSUME NEW i \in 1..n, i - 1 \in A
          PROVE  i \in A
      <3>1. done[i - 1] \in S /\ done[i] = CleanStep(done[i - 1], p.segs[i]) /\ i \in 0..n
        BY <1>2, <1>9, <2>2
      <3>2. done[i] \in S
        BY <1>2, <3>1, CleanStepType
      <3> QED BY <3>1, <3>2
    <2>3. \A i \in 0..n : i \in A
      <3> HIDE DEF A, n
      <3> QED BY <1>2, <2>1, <2>2, Climb
    <2> QED BY <2>3
  <1>11. done \in [0..n -> S]
    <2> HIDE DEF n, S
    <2> QED BY <1>8, <1>10
  <1> HIDE DEF S
  <1> QED BY <1>1, <1>2, <1>9, <1>11 DEF S

\* The function Landing recurses on.
LEMMA LandWalk ==
  ASSUME NEW p \in AllPaths
  PROVE  \E f \in [0..Len(p.segs) -> Walks] :
            /\ f[0] = [hide |-> 0, names |-> <<>>]
            /\ \A i \in 1..Len(p.segs) : f[i] = LandStep(f[i - 1], p.segs[Len(p.segs) + 1 - i])
            /\ Landing(p) = f[Len(p.segs)].names
  <1> DEFINE n == Len(p.segs)
             S == Walks
             c == [hide |-> 0, names |-> <<>>]
             G == [i \in 1..n |-> [w \in S |-> LandStep(w, p.segs[n + 1 - i])]]
             step(f) == [i \in 0..n |->
                 IF i = 0 THEN [hide |-> 0, names |-> <<>>]
                 ELSE LET s == p.segs[n + 1 - i]
                          w == f[i - 1]
                      IN  CASE s = "." -> w
                            [] s = ".." -> [w EXCEPT !.hide = @ + 1]
                            [] OTHER -> IF w.hide > 0 THEN [w EXCEPT !.hide = @ - 1]
                                        ELSE [w EXCEPT !.names = <<s>> \o @]]
             walk == CHOOSE f : f = step(f)
  <1>1. Landing(p) = walk[n].names
    BY Zenon DEF Landing
  <1>2. n \in Nat /\ \A i \in 1..n : p.segs[i] \in STRING /\ p.segs[n + 1 - i] \in STRING
    BY LenProperties, ElementOfSeq DEF AllPaths
  <1>3. ASSUME NEW f, NEW i \in 0..n
        PROVE  step(f)[i] = IF i = 0 THEN c ELSE LandStep(f[i - 1], p.segs[Len(p.segs) + 1 - i])
    BY <1>2 DEF LandStep
  <1>4. G \in [1..n -> [S -> S]]
    BY <1>2, LandStepType
  <1>5. PICK g \in [0..n -> S] : g[0] = c /\ \A i \in 1..n : g[i] = LandStep(g[i - 1], p.segs[n + 1 - i])
    <2>1. c \in S
      BY EmptySeq DEF Walks
    <2>2. PICK g \in [0..n -> S] : g[0] = c /\ \A i \in 1..n : g[i] = G[i][g[i - 1]]
      <3>1. n \in Nat
        BY <1>2
      <3> HIDE DEF G, n, S, c
      <3>2. PICK g : Iterates(g, n, S, c, G)
        BY <1>4, <2>1, <3>1, WalkExists
      <3> QED BY <3>2 DEF Iterates
    <2>3. ASSUME NEW i \in 1..n
          PROVE  G[i][g[i - 1]] = LandStep(g[i - 1], p.segs[n + 1 - i])
      <3>1. g[i - 1] \in S
        BY <1>2
      <3> HIDE DEF S
      <3> QED BY <3>1
    <2> QED BY <2>2, <2>3
  <1>6. g = step(g)
    <2>1. ASSUME NEW i \in 0..n
          PROVE  g[i] = step(g)[i]
      <3>1. step(g)[i] = IF i = 0 THEN c ELSE LandStep(g[i - 1], p.segs[n + 1 - i])
        BY <1>3
      <3>2. i # 0 => i \in 1..n
        BY <1>2
      <3> HIDE DEF step, n
      <3> QED BY <1>5, <3>1, <3>2
    <2> DEFINE h == step(g)
    <2>2. h = [i \in 0..n |-> h[i]]
      OBVIOUS
    <2>3. \A i \in 0..n : g[i] = h[i]
      BY <2>1
    <2> HIDE DEF h, n, S
    <2>4. g = h
      BY <2>2, <2>3
    <2> QED BY <2>4 DEF h
  <1>7. walk = step(walk)
    <2> HIDE DEF step
    <2> QED BY <1>6
  <1> HIDE DEF walk
  <1>8. walk = [i \in 0..n |-> walk[i]]
    <2> DEFINE h == step(walk)
    <2>1. h = [i \in 0..n |-> h[i]]
      OBVIOUS
    <2> HIDE DEF h, n
    <2>2. walk = h
      BY <1>7 DEF h
    <2> QED BY <2>1, <2>2
  <1>9. walk[0] = c /\ \A i \in 1..n : walk[i] = LandStep(walk[i - 1], p.segs[n + 1 - i])
    <2>1. \A i \in 0..n : walk[i] = IF i = 0 THEN c ELSE LandStep(walk[i - 1], p.segs[n + 1 - i])
      <3> TAKE i \in 0..n
      <3>1. step(walk)[i] = IF i = 0 THEN c ELSE LandStep(walk[i - 1], p.segs[n + 1 - i])
        BY <1>3
      <3>2. step(walk)[i] = walk[i]
        <4> HIDE DEF step
        <4> QED BY <1>7
      <3> QED BY <3>1, <3>2
    <2> HIDE DEF n
    <2> QED BY <1>2, <2>1
  <1>10. \A i \in 0..n : walk[i] \in S
    <2> DEFINE A == {i \in 0..n : walk[i] \in S}
    <2>1. 0 \in A
      <3>1. 0 \in 0..n /\ c \in S
        BY <1>2, EmptySeq DEF Walks
      <3> QED BY <1>9, <3>1
    <2>2. ASSUME NEW i \in 1..n, i - 1 \in A
          PROVE  i \in A
      <3>1. walk[i - 1] \in S /\ walk[i] = LandStep(walk[i - 1], p.segs[n + 1 - i]) /\ i \in 0..n
        BY <1>2, <1>9, <2>2
      <3>2. walk[i] \in S
        BY <1>2, <3>1, LandStepType
      <3> QED BY <3>1, <3>2
    <2>3. \A i \in 0..n : i \in A
      <3> HIDE DEF A, n
      <3> QED BY <1>2, <2>1, <2>2, Climb
    <2> QED BY <2>3
  <1>11. walk \in [0..n -> S]
    <2> HIDE DEF n, S
    <2> QED BY <1>8, <1>10
  <1> HIDE DEF S
  <1> QED BY <1>1, <1>2, <1>9, <1>11 DEF S

\* path.Clean of an absolute path is where it lands: at every point of the scan, what is
\* to come hides as many names of what has been scanned as the reference says.
LEMMA CleanLands ==
  ASSUME NEW p \in AllPaths, p.abs
  PROVE  Clean(p) = [abs |-> TRUE, segs |-> Landing(p)] /\ Landing(p) \in Seq(Names)
  <1> DEFINE n == Len(p.segs)
  <1>1. PICK done \in [0..n -> Seq(Names)] :
            /\ done[0] = <<>>
            /\ \A i \in 1..n : done[i] = CleanStep(done[i - 1], p.segs[i])
            /\ Clean(p) = [abs |-> TRUE, segs |-> done[n]]
    BY CleanWalk
  <1>2. PICK walk \in [0..n -> Walks] :
            /\ walk[0] = [hide |-> 0, names |-> <<>>]
            /\ \A i \in 1..n : walk[i] = LandStep(walk[i - 1], p.segs[n + 1 - i])
            /\ Landing(p) = walk[n].names
    BY LandWalk
  <1>3. n \in Nat /\ \A i \in 1..n : p.segs[i] \in STRING
    BY LenProperties, ElementOfSeq DEF AllPaths
  <1> HIDE DEF n
  <1> DEFINE A == {k \in 0..n : done[n] = Trim(done[n - k], walk[k].hide) \o walk[k].names}
  <1>4. 0 \in A
    <2>1. 0 \in 0..n /\ n - 0 = n /\ done[n] \in Seq(Names) /\ walk[0].hide = 0 /\ walk[0].names = <<>>
      BY <1>2, <1>3
    <2> DEFINE d == done[n]
    <2>2. Trim(d, 0) = d
      <3>1. d \in Seq(Names) /\ Len(d) \in Nat
        BY <2>1, LenProperties
      <3> HIDE DEF d
      <3>2. Trim(d, 0) = SubSeq(d, 1, Len(d))
        BY <3>1 DEF Trim
      <3> QED BY <3>1, <3>2, SubSeqFull
    <2>3. d \o <<>> = d
      BY <2>1, ConcatEmptySeq
    <2> QED BY <2>1, <2>2, <2>3
  <1>5. ASSUME NEW k \in 1..n, k - 1 \in A
        PROVE  k \in A
    <2>1. /\ k \in 0..n /\ k - 1 \in 0..n /\ n - k \in 0..n /\ n + 1 - k \in 1..n
          /\ n - (k - 1) = n + 1 - k /\ n + 1 - k - 1 = n - k
      BY <1>3
    <2> DEFINE d == done[n - k]
               w == walk[k - 1]
               s == p.segs[n + 1 - k]
    <2>2. d \in Seq(Names) /\ w \in Walks /\ s \in STRING
      BY <1>3, <2>1
    <2>3. done[n - (k - 1)] = CleanStep(d, s) /\ walk[k] = LandStep(w, s)
      <3> DEFINE m == n + 1 - k
      <3>1. done[m] = CleanStep(done[m - 1], p.segs[m])
        BY <1>1, <2>1
      <3>2. walk[k] = LandStep(walk[k - 1], p.segs[n + 1 - k])
        BY <1>2
      <3>3. m - 1 = n - k /\ n - (k - 1) = m
        BY <1>3
      <3> QED BY <3>1, <3>2, <3>3
    <2>4. done[n] = Trim(CleanStep(d, s), w.hide) \o w.names
      BY <1>5, <2>3
    <2> HIDE DEF d, w, s
    <2>5. done[n] = Trim(d, LandStep(w, s).hide) \o LandStep(w, s).names
      BY <2>2, <2>4, StepsAgree
    <2> QED BY <2>1, <2>3, <2>5 DEF d
  <1>6. n \in A
    <2> HIDE DEF A
    <2>1. \A k \in 0..n : k \in A
      BY <1>3, <1>4, <1>5, Climb
    <2> QED BY <1>3, <2>1
  <1>7. n - n = 0 /\ walk[n] \in Walks
    BY <1>3
  <1>8. walk[n].hide \in Nat /\ walk[n].names \in Seq(Names)
    BY <1>7 DEF Walks
  <1>9. Trim(<<>>, walk[n].hide) = <<>>
    <2> DEFINE h == walk[n].hide
    <2>1. h \in Nat /\ Len(<<>>) = 0
      BY <1>8
    <2> HIDE DEF h
    <2>2. Trim(<<>>, h) = SubSeq(<<>>, 1, 0)
      BY <2>1 DEF Trim
    <2>3. Trim(<<>>, h) = <<>>
      BY <2>2, SubSeqEmpty
    <2> QED BY <2>3 DEF h
  <1>10. done[n] = <<>> \o walk[n].names
    BY <1>1, <1>6, <1>7, <1>9
  <1>11. done[n] = walk[n].names
    BY <1>8, <1>10, ConcatEmptySeq
  <1> QED BY <1>1, <1>2, <1>8, <1>11

-------------------------------------------------------------------------------
(* What the policy says *)

\* On a prefix other than the root the comparison of cleaned paths is the reference's.
LEMMA UnderAgrees ==
  ASSUME NEW p \in AllPaths, NEW prefix \in AllPaths, prefix.abs, Landing(prefix) # <<>>
  PROVE  (Clean(p) = Clean(prefix) \/ HasPrefixSlash(Clean(p), Clean(prefix))) <=> LiesUnder(p, prefix)
  <1> DEFINE a == Landing(prefix)
             b == Landing(p)
  <1>1. Clean(prefix) = [abs |-> TRUE, segs |-> a]
    BY CleanLands
  <1>2. CASE p.abs
    <2>1. Clean(p) = [abs |-> TRUE, segs |-> b]
      BY <1>2, CleanLands
    <2>2. a = b => IsPrefix(a, b)
      <3>1. a \in Seq(Names)
        BY CleanLands
      <3>2. Len(a) <= Len(a)
        BY <3>1, LenProperties
      <3> HIDE DEF a, b
      <3> QED BY <3>2 DEF IsPrefix
    <2>3. Clean(p) = Clean(prefix) <=> a = b
      <3> HIDE DEF a, b
      <3>1. Clean(prefix).segs = a /\ Clean(p).segs = b
        BY <1>1, <2>1
      <3>2. a = b => Clean(p) = Clean(prefix)
        BY <1>1, <2>1
      <3> QED BY <3>1, <3>2
    <2>4. HasPrefixSlash(Clean(p), Clean(prefix)) <=> IsPrefix(a, b) /\ a # b
      BY <1>1, <2>1 DEF HasPrefixSlash, IsStrictPrefix
    <2> QED BY <1>2, <2>2, <2>3, <2>4 DEF LiesUnder
  <1>3. CASE ~p.abs
    <2>1. Clean(p).abs = p.abs
      BY DEF Clean
    <2>2. p.abs = FALSE
      BY <1>3 DEF AllPaths
    <2>3. Clean(prefix).abs = TRUE
      BY <1>1
    <2>4. Clean(p) # Clean(prefix) /\ Clean(p).abs # Clean(prefix).abs
      BY <2>1, <2>2, <2>3
    <2> QED BY <1>3, <2>4 DEF HasPrefixSlash, LiesUnder
  <1> QED BY <1>2, <1>3

\* The tools of the profile a caller is judged by.
LEMMA ProfileIs ==
  ASSUME doc \in Docs, Accepts(doc), policy = CompileResolveOnly(doc, flag), NEW c
  PROVE  LET name == ProfileFor(policy, c)
         IN  /\ name \in DOMAIN policy.profiles
             /\ c \in DOMAIN doc.callers => name = doc.callers[c] /\ name \in DOMAIN doc.profiles
             /\ c \notin DOMAIN doc.callers /\ c \in flag => name = "resolve-only"
             /\ c \notin DOMAIN doc.callers /\ c \notin flag => name = doc.default /\ name \in DOMAIN doc.profiles
             /\ \A n \in DOMAIN doc.profiles : policy.profiles[n] = doc.profiles[n]
  <1>1. CASE flag = {}
    BY <1>1 DEF CompileResolveOnly, ProfileFor, Accepts
  <1>2. CASE flag # {}
    <2>1. /\ policy.default = doc.default
          /\ policy.profiles = [n \in DOMAIN doc.profiles \cup {"resolve-only"} |->
                IF n \in DOMAIN doc.profiles THEN doc.profiles[n] ELSE ResolveOnlyProfile]
          /\ policy.callers = [k \in DOMAIN doc.callers \cup flag |->
                IF k \in DOMAIN doc.callers THEN doc.callers[k] ELSE "resolve-only"]
      BY <1>2 DEF CompileResolveOnly
    <2> QED BY <2>1 DEF ProfileFor, Accepts
  <1> QED BY <1>1, <1>2

-------------------------------------------------------------------------------
(* The inductive invariant *)

\* A booted policy is compiled from a document Load accepts, and a decision is one of the
\* evaluator on it.
PolicyInv ==
    /\ doc \in Docs /\ flag \in Flags
    /\ policy # NoPolicy => Accepts(doc) /\ policy = CompileResolveOnly(doc, flag)
    /\ call # NoCall =>
         /\ policy # NoPolicy
         /\ call.path \in Paths \cup {NoPath}
         /\ permitted = Decide(policy, call.caller, call.tool, call.path)

\* Where every decision of a booted daemon comes from.
THEOREM PolicyInvariant == Spec => []PolicyInv
  <1>1. Init => PolicyInv
    BY DEF Init, PolicyInv
  <1>2. PolicyInv /\ [Next]_vars => PolicyInv'
    <2> SUFFICES ASSUME PolicyInv, [Next]_vars
                 PROVE  PolicyInv'
      OBVIOUS
    <2>1. CASE Boot
      BY <2>1 DEF Boot, PolicyInv
    <2>2. ASSUME NEW c \in Callers, NEW tool \in Advertised, NEW path \in Paths \cup {NoPath},
                 Authorize(c, tool, path)
          PROVE  PolicyInv'
      BY <2>2 DEF Authorize, PolicyInv
    <2>3. CASE UNCHANGED vars
      BY <2>3 DEF vars, PolicyInv
    <2> QED BY <2>1, <2>2, <2>3 DEF Next
  <1> QED BY <1>1, <1>2, PTL DEF Spec

\* Every caller of a booted daemon has a declared profile, and no profile grants a tool
\* that is not advertised (Load's checks survive CompileResolveOnly).
THEOREM BootedPolicyResolvesHolds == Spec => []BootedPolicyResolves
  <1>1. PolicyInv => BootedPolicyResolves
    <2> SUFFICES ASSUME PolicyInv, policy # NoPolicy
                 PROVE  /\ \A c \in Callers : ProfileFor(policy, c) \in DOMAIN policy.profiles
                        /\ \A n \in DOMAIN policy.profiles : DOMAIN policy.profiles[n] \subseteq Advertised
      BY DEF BootedPolicyResolves
    <2>1. doc \in Docs /\ Accepts(doc) /\ policy = CompileResolveOnly(doc, flag)
      BY DEF PolicyInv
    <2>2. \A c \in Callers : ProfileFor(policy, c) \in DOMAIN policy.profiles
      BY <2>1, ProfileIs
    <2>3. ASSUME NEW n \in DOMAIN policy.profiles
          PROVE  DOMAIN policy.profiles[n] \subseteq Advertised
      <3>1. CASE n \in DOMAIN doc.profiles
        <4>1. policy.profiles[n] = doc.profiles[n]
          BY <2>1, <3>1, ProfileIs
        <4> QED BY <2>1, <3>1, <4>1 DEF Accepts
      <3>2. CASE n \notin DOMAIN doc.profiles
        <4>1. policy.profiles[n] = ResolveOnlyProfile
          BY <2>1, <3>2 DEF CompileResolveOnly
        <4> QED BY <4>1, AuthzAssumption DEF ResolveOnlyProfile
      <3> QED BY <3>1, <3>2
    <2> QED BY <2>2, <2>3
  <1> QED BY <1>1, PolicyInvariant, PTL

\* The evaluator's rule for a declared profile is the document's.
LEMMA GrantAgrees ==
  ASSUME doc \in Docs, ~HasRootPrefix, NEW name \in DOMAIN doc.profiles,
         NEW tool \in DOMAIN doc.profiles[name], NEW path \in Paths
  PROVE  pathUnderAnyPrefix(path, doc.profiles[name][tool])
            <=> \E prefix \in doc.profiles[name][tool] : LiesUnder(path, prefix)
  <1>1. path \in AllPaths
    BY AuthzAssumption
  <1>2. ASSUME NEW prefix \in doc.profiles[name][tool]
        PROVE  (Clean(path) = Clean(prefix) \/ HasPrefixSlash(Clean(path), Clean(prefix)))
                  <=> LiesUnder(path, prefix)
    <2>1. prefix \in AllPaths /\ prefix.abs
      BY AuthzAssumption
    <2>2. Landing(prefix) # <<>>
      BY DEF HasRootPrefix
    <2> QED BY <1>1, <2>1, <2>2, UnderAgrees
  <1> QED BY <1>2 DEF pathUnderAnyPrefix

\* The evaluator decides on where a path lands, for paths of any length with any traversals
\* in them, and on the document before the flag (decide.go, resolveonly.go).
THEOREM DecidesAsIntendedHolds == Spec => []DecidesAsIntended
  <1>1. PolicyInv => DecidesAsIntended
    <2> SUFFICES ASSUME PolicyInv, call # NoCall, ~HasRootPrefix,
                        "resolve-only" \notin DOMAIN doc.profiles
                 PROVE  permitted = Intended(call.caller, call.tool, call.path)
      BY DEF DecidesAsIntended
    <2>1. PICK c, tool, path : c = call.caller /\ tool = call.tool /\ path = call.path
      OBVIOUS
    <2>2. /\ policy # NoPolicy /\ doc \in Docs /\ Accepts(doc) /\ policy = CompileResolveOnly(doc, flag)
          /\ path \in Paths \cup {NoPath}
          /\ permitted = Decide(policy, c, tool, path)
      BY <2>1 DEF PolicyInv
    <2> DEFINE granted(name) ==
                 /\ tool \in DOMAIN doc.profiles[name]
                 /\ \/ doc.profiles[name][tool] = {}
                    \/ path # NoPath /\ \E prefix \in doc.profiles[name][tool] : LiesUnder(path, prefix)
               name == ProfileFor(policy, c)
               tools == policy.profiles[name]
    <2>3. Decide(policy, c, tool, path) <=>
             /\ tool \in DOMAIN tools
             /\ tools[tool] = {} \/ (path # NoPath /\ pathUnderAnyPrefix(path, tools[tool]))
      <3>1. name \in DOMAIN policy.profiles
        BY <2>2, ProfileIs
      <3> QED BY <2>2, <3>1 DEF Decide
    <2>4. ASSUME name \in DOMAIN doc.profiles
          PROVE  Decide(policy, c, tool, path) <=> granted(name)
      <3>1. tools = doc.profiles[name]
        BY <2>2, <2>4, ProfileIs
      <3>2. tool \in DOMAIN tools /\ path # NoPath =>
               (pathUnderAnyPrefix(path, tools[tool])
                  <=> \E prefix \in doc.profiles[name][tool] : LiesUnder(path, prefix))
        BY <2>2, <2>4, <3>1, GrantAgrees
      <3> HIDE DEF name, tools
      <3> QED BY <2>3, <3>1, <3>2
    <2>5. Intended(c, tool, path) <=>
             IF c \in DOMAIN doc.callers THEN granted(doc.callers[c])
             ELSE IF c \in flag THEN tool = "resolve_scope"
             ELSE granted(doc.default)
      BY DEF Intended
    <2>6. Decide(policy, c, tool, path) <=> Intended(c, tool, path)
      <3>1. CASE c \in DOMAIN doc.callers
        <4>1. name = doc.callers[c] /\ name \in DOMAIN doc.profiles
          BY <2>2, <3>1, ProfileIs
        <4> HIDE DEF name, granted
        <4> QED BY <2>4, <2>5, <3>1, <4>1
      <3>2. CASE c \notin DOMAIN doc.callers /\ c \in flag
        <4>1. name = "resolve-only" /\ name \in DOMAIN policy.profiles
          BY <2>2, <3>2, ProfileIs
        <4>2. tools = ResolveOnlyProfile
          BY <2>2, <3>2, <4>1 DEF CompileResolveOnly
        <4>3. tool \in DOMAIN tools <=> tool = "resolve_scope"
          BY <4>2 DEF ResolveOnlyProfile
        <4>4. tool \in DOMAIN tools => tools[tool] = {}
          BY <4>2 DEF ResolveOnlyProfile
        <4> HIDE DEF name, tools, granted
        <4> QED BY <2>3, <2>5, <3>2, <4>3, <4>4
      <3>3. CASE c \notin DOMAIN doc.callers /\ c \notin flag
        <4>1. name = doc.default /\ name \in DOMAIN doc.profiles
          BY <2>2, <3>3, ProfileIs
        <4> HIDE DEF name, granted
        <4> QED BY <2>4, <2>5, <3>3, <4>1
      <3> QED BY <3>1, <3>2, <3>3
    <2>7. Decide(policy, c, tool, path) \in BOOLEAN /\ Intended(c, tool, path) \in BOOLEAN
      BY DEF Decide, Intended
    <2> QED BY <2>1, <2>2, <2>6, <2>7
  <1> QED BY <1>1, PolicyInvariant, PTL

===============================================================================
