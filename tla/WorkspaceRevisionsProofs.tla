---------------------- MODULE WorkspaceRevisionsProofs ----------------------
(***************************************************************************)
(* Proofs about WorkspaceRevisions.                                        *)
(*                                                                         *)
(* The revisions are a tree whose parents have smaller numbers, and every  *)
(* function of the model goes up that tree.  The first part shows that     *)
(* such a definition has a solution and reasons about it by induction on   *)
(* the revision's number.  The second part is about the planner: the path  *)
(* up to the common ancestor and down again leads from the content of one  *)
(* revision to the content of the other.  The third part is the inductive  *)
(* invariant.                                                              *)
(***************************************************************************)
EXTENDS WorkspaceRevisions, FiniteSums, SequenceTheorems, TLAPS

(***************************************************************************)
(* Recursion towards the root                                              *)
(***************************************************************************)
\* p leads from each number up to N to a smaller one.
Upwards(p, N) == \A r \in 1..N : p[r] \in 0..(r - 1)

\* Induction: from the parent to the revision.
LEMMA ParentInduction ==
    ASSUME NEW N \in Nat, NEW p, Upwards(p, N), NEW T, 0 \in T,
           \A r \in 1..N : p[r] \in T => r \in T
    PROVE  \A r \in 0..N : r \in T
<1> DEFINE M == {n \in Nat : \A r \in 0..n : r <= N => r \in T}
<1>1. 0 \in M
  OBVIOUS
<1>2. ASSUME NEW n \in M PROVE n + 1 \in M
  <2> SUFFICES ASSUME NEW r \in 0..(n + 1), r <= N, r = n + 1 PROVE r \in T
    OBVIOUS
  <2>1. r \in 1..N /\ p[r] \in 0..n /\ p[r] <= N
    BY DEF Upwards
  <2> QED BY <2>1
<1>3. M = Nat
  <2> HIDE DEF M
  <2> M \in SUBSET Nat
    BY DEF M
  <2> QED BY <1>1, <1>2, InductionOnSet
<1>4. N \in M
  BY <1>3
<1> QED BY <1>4

\* f takes each revision's value from its parent's.
Solves(f, p, N, base, step) ==
    f[0] = base /\ \A r \in 1..N : f[r] = step[r][f[p[r]]]

\* There is such a function.
LEMMA ParentRecursion ==
    ASSUME NEW N \in Nat, NEW p, Upwards(p, N), NEW S, NEW base \in S,
           NEW step \in [1..N -> [S -> S]]
    PROVE  \E f \in [0..N -> S] : Solves(f, p, N, base, step)
<1> DEFINE Upto(f, n) == \A r \in 0..N : r <= n =>
                             f[r] = IF r = 0 THEN base ELSE step[r][f[p[r]]]
           M == {n \in Nat : \E f \in [0..N -> S] : Upto(f, n)}
<1>1. 0 \in M
  <2>1. [r \in 0..N |-> base] \in [0..N -> S] /\ Upto([r \in 0..N |-> base], 0)
    OBVIOUS
  <2> QED BY <2>1
<1>2. ASSUME NEW n \in M PROVE n + 1 \in M
  <2>1. n \in Nat
    OBVIOUS
  <2>2. PICK f \in [0..N -> S] : Upto(f, n)
    OBVIOUS
  <2> DEFINE g == [r \in 0..N |-> IF r = n + 1 THEN step[r][f[p[r]]] ELSE f[r]]
  <2>3. \A r \in 1..N : p[r] \in 0..N /\ p[r] < r
    BY DEF Upwards
  <2>4. g \in [0..N -> S]
    BY <2>1, <2>3
  <2>5. ASSUME NEW r \in 0..N, r <= n + 1
        PROVE  g[r] = IF r = 0 THEN base ELSE step[r][g[p[r]]]
    <3>1. CASE r = 0
      BY <2>1, <2>2, <3>1
    <3>2. CASE r # 0
      <4>1. r \in 1..N /\ p[r] \in 0..N /\ p[r] # n + 1
        BY <2>1, <2>3, <2>5, <3>2
      <4>2. g[p[r]] = f[p[r]]
        BY <4>1
      <4>3. CASE r = n + 1
        BY <3>2, <4>1, <4>2, <4>3
      <4>4. CASE r # n + 1
        <5>1. r <= n /\ g[r] = f[r]
          BY <2>1, <2>5, <4>4
        <5>2. f[r] = step[r][f[p[r]]]
          BY <2>2, <3>2, <5>1
        <5> QED BY <3>2, <4>2, <5>1, <5>2
      <4> QED BY <4>3, <4>4
    <3> QED BY <3>1, <3>2
  <2>6. Upto(g, n + 1)
    BY <2>5
  <2> HIDE DEF g
  <2>7. \E e \in [0..N -> S] : Upto(e, n + 1)
    <3> HIDE DEF Upto
    <3> QED BY <2>4, <2>6
  <2> HIDE DEF Upto
  <2> QED BY <2>1, <2>7
<1>3. M = Nat
  <2> M \in SUBSET Nat
    OBVIOUS
  <2> HIDE DEF M
  <2> QED BY <1>1, <1>2, InductionOnSet
<1>4. PICK f \in [0..N -> S] : Upto(f, N)
  BY <1>3
<1> QED BY <1>4 DEF Solves

(***************************************************************************)
(* The graph                                                               *)
(***************************************************************************)
\* The first revision is the root, and every other one has an earlier parent.
Tree(g) ==
    /\ g \in Seq(Revisions)
    /\ Len(g) \in 1..MaxRevisions
    /\ \A r \in 1..Len(g) :
           /\ g[r].parent \in 0..(r - 1)
           /\ g[r].parent = 0 => r = 1
           /\ g[r].kind = "root" <=> r = 1
           /\ g[r].kind # "turn" => g[r].paths = {}

Parent(g) == [r \in 1..Len(g) |-> g[r].parent]

\* ContentOf and ContextOf of a graph that is given.
ContentEq(c, g) ==
    c = [r \in 0..Len(g) |->
            IF r = 0 THEN Untouched
            ELSE [f \in Files |-> IF f \in g[r].paths THEN g[r].after[f] ELSE c[g[r].parent][f]]]
ContextEq(x, g) ==
    x = [r \in 0..Len(g) |->
            IF r = 0 THEN 0
            ELSE IF g[r].kind = "turn" /\ g[r].completed THEN r ELSE x[g[r].parent]]
ContentIn(g) == CHOOSE c : ContentEq(c, g)
ContextIn(g) == CHOOSE x : ContextEq(x, g)

LEMMA InGraph ==
    /\ ContentOf = ContentIn(revisions) /\ ContextOf = ContextIn(revisions)
    /\ ContentOf' = ContentIn(revisions') /\ ContextOf' = ContextIn(revisions')
<1>1. ContentOf = ContentIn(revisions)
  BY DEF ContentOf, ContentIn, ContentEq
<1>2. ContextOf = ContextIn(revisions)
  BY DEF ContextOf, ContextIn, ContextEq
<1>3. ContentOf' = ContentIn(revisions')
  BY DEF ContentOf, ContentIn, ContentEq
<1>4. ContextOf' = ContextIn(revisions')
  BY DEF ContextOf, ContextIn, ContextEq
<1> QED BY <1>1, <1>2, <1>3, <1>4

\* The types of a revision, for the provers.
LEMMA TreeTypes ==
    ASSUME NEW g, Tree(g)
    PROVE  /\ Len(g) \in Nat /\ DOMAIN g = 1..Len(g) /\ Upwards(Parent(g), Len(g))
           /\ \A r \in 1..Len(g) : /\ g[r] \in Revisions /\ g[r].parent \in 0..Len(g)
                                   /\ Parent(g)[r] = g[r].parent
                                   /\ g[r].kind = "turn" => g[r].parent \in 1..Len(g)
                                   /\ g[r].paths \in SUBSET Files
                                   /\ g[r].before \in Contents /\ g[r].after \in Contents
<1>1. g \in Seq(Revisions) /\ Len(g) \in Nat
  BY DEF Tree
<1>2. DOMAIN g = 1..Len(g) /\ \A r \in 1..Len(g) : g[r] \in Revisions
  BY <1>1
<1>3. \A r \in 1..Len(g) : g[r].parent \in 0..Len(g) /\ g[r].parent \in 0..(r - 1)
  BY <1>1 DEF Tree
<1>4. Upwards(Parent(g), Len(g))
  BY <1>3 DEF Upwards, Parent
<1>5. \A r \in 1..Len(g) : g[r].kind = "turn" => g[r].parent \in 1..Len(g)
  BY <1>1, <1>3 DEF Tree
<1>6. \A x \in Revisions : x.paths \in SUBSET Files /\ x.before \in Contents /\ x.after \in Contents
  BY DEF Revisions
<1> QED BY <1>1, <1>2, <1>3, <1>4, <1>5, <1>6 DEF Parent

\* What one revision makes of its parent's content.
Grown(rev, c) == [f \in Files |-> IF f \in rev.paths THEN rev.after[f] ELSE c[f]]

\* The content of every revision is defined, and is its parent's with what the
\* revision's own turn changed.
LEMMA ContentDefined ==
    ASSUME NEW g, Tree(g)
    PROVE  /\ ContentIn(g) \in [0..Len(g) -> Contents]
           /\ ContentIn(g)[0] = Untouched
           /\ \A r \in 1..Len(g) : ContentIn(g)[r] = Grown(g[r], ContentIn(g)[g[r].parent])
<1> DEFINE N == Len(g)
           step == [r \in 1..N |-> [c \in Contents |-> Grown(g[r], c)]]
           C == ContentIn(g)
<1>1. N \in Nat /\ Upwards(Parent(g), N)
  BY TreeTypes
<1>2. \A r \in 1..N : g[r].parent \in 0..N /\ Parent(g)[r] = g[r].parent
  BY TreeTypes
<1>3. \A r \in 1..N, c \in Contents : Grown(g[r], c) \in Contents
  BY TreeTypes DEF Grown, Contents
<1>4. step \in [1..N -> [Contents -> Contents]]
  BY <1>3
<1>5. Untouched \in Contents
  BY BoundsAssumption DEF Untouched, Contents, Foreign
<1>6. PICK c \in [0..N -> Contents] : Solves(c, Parent(g), N, Untouched, step)
  <2> HIDE DEF step, N
  <2> QED BY <1>1, <1>4, <1>5, ParentRecursion
<1>7. \A r \in 1..N : c[r] = Grown(g[r], c[g[r].parent])
  <2> TAKE r \in 1..N
  <2>1. c[g[r].parent] \in Contents
    BY <1>2
  <2>2. c[r] = step[r][c[g[r].parent]]
    <3> HIDE DEF step
    <3> QED BY <1>2, <1>6 DEF Solves
  <2> QED BY <2>1, <2>2
<1>8. ContentEq(c, g)
  <2>1. \A r \in 0..N : c[r] = IF r = 0 THEN Untouched ELSE Grown(g[r], c[g[r].parent])
    <3> HIDE DEF step
    <3> QED BY <1>1, <1>6, <1>7 DEF Solves
  <2>2. c = [r \in 0..N |-> IF r = 0 THEN Untouched ELSE Grown(g[r], c[g[r].parent])]
    BY <2>1
  <2> QED BY <2>2 DEF ContentEq, Grown
<1>9. ContentEq(C, g)
  BY <1>8 DEF ContentIn
<1>10. C = [r \in 0..N |-> IF r = 0 THEN Untouched ELSE Grown(g[r], C[g[r].parent])]
  BY <1>9 DEF ContentEq, Grown
<1>11. C[0] = Untouched /\ \A r \in 1..N : C[r] = Grown(g[r], C[g[r].parent])
  <2> HIDE DEF C, step
  <2>1. C[0] = Untouched
    BY <1>1, <1>10
  <2>2. ASSUME NEW r \in 1..N PROVE C[r] = Grown(g[r], C[g[r].parent])
    <3>1. r \in 0..N /\ r # 0
      BY <1>1
    <3> QED BY <1>10, <3>1
  <2> QED BY <2>1, <2>2
<1>12. \A r \in 0..N : C[r] \in Contents
  <2> DEFINE T == {r \in 0..N : C[r] \in Contents}
  <2>1. 0 \in T
    BY <1>1, <1>5, <1>11
  <2>2. ASSUME NEW r \in 1..N, Parent(g)[r] \in T PROVE r \in T
    <3>1. C[g[r].parent] \in Contents
      BY <1>2, <2>2
    <3> QED BY <1>3, <1>11, <3>1
  <2>3. \A r \in 0..N : r \in T
    <3> HIDE DEF T, N
    <3> QED BY <1>1, <2>1, <2>2, ParentInduction
  <2> QED BY <2>3
<1>13. C \in [0..N -> Contents]
  <2> HIDE DEF C
  <2> QED BY <1>10, <1>12
<1> QED BY <1>11, <1>13

\* The context of every revision is defined: its own turn if it is completed, or its
\* parent's.
LEMMA ContextDefined ==
    ASSUME NEW g, Tree(g)
    PROVE  /\ ContextIn(g) \in [0..Len(g) -> 0..Len(g)]
           /\ ContextIn(g)[0] = 0
           /\ \A r \in 1..Len(g) : ContextIn(g)[r] =
                  IF g[r].kind = "turn" /\ g[r].completed THEN r ELSE ContextIn(g)[g[r].parent]
<1> DEFINE N == Len(g)
           Own(r) == g[r].kind = "turn" /\ g[r].completed
           step == [r \in 1..N |-> [x \in 0..N |-> IF Own(r) THEN r ELSE x]]
           X == ContextIn(g)
<1>1. N \in Nat /\ Upwards(Parent(g), N)
  BY TreeTypes
<1>2. \A r \in 1..N : g[r].parent \in 0..N /\ Parent(g)[r] = g[r].parent
  BY TreeTypes
<1>3. step \in [1..N -> [0..N -> 0..N]]
  BY <1>1
<1>4. PICK x \in [0..N -> 0..N] : Solves(x, Parent(g), N, 0, step)
  <2> HIDE DEF step
  <2>1. 0 \in 0..N
    BY <1>1
  <2> HIDE DEF N
  <2> QED BY <1>1, <1>3, <2>1, ParentRecursion
<1>5. \A r \in 1..N : x[r] = IF Own(r) THEN r ELSE x[g[r].parent]
  <2> TAKE r \in 1..N
  <2>1. x[g[r].parent] \in 0..N
    BY <1>2
  <2>2. x[r] = step[r][x[g[r].parent]]
    <3> HIDE DEF step
    <3> QED BY <1>2, <1>4 DEF Solves
  <2> HIDE DEF Own
  <2> QED BY <2>1, <2>2
<1>6. ContextEq(x, g)
  <2>1. \A r \in 0..N : x[r] = IF r = 0 THEN 0 ELSE IF Own(r) THEN r ELSE x[g[r].parent]
    <3> HIDE DEF step, Own
    <3> QED BY <1>1, <1>4, <1>5 DEF Solves
  <2>2. x = [r \in 0..N |-> IF r = 0 THEN 0 ELSE IF Own(r) THEN r ELSE x[g[r].parent]]
    BY <2>1
  <2> QED BY <2>2 DEF ContextEq
<1>7. ContextEq(X, g)
  BY <1>6 DEF ContextIn
<1>8. X = [r \in 0..N |-> IF r = 0 THEN 0 ELSE IF Own(r) THEN r ELSE X[g[r].parent]]
  BY <1>7 DEF ContextEq
<1>9. X[0] = 0 /\ \A r \in 1..N : X[r] = IF Own(r) THEN r ELSE X[g[r].parent]
  <2> HIDE DEF X, Own
  <2> QED BY <1>1, <1>8
<1>10. \A r \in 0..N : X[r] \in 0..N
  <2> DEFINE T == {r \in 0..N : X[r] \in 0..N}
  <2>1. 0 \in T
    BY <1>1, <1>9
  <2>2. ASSUME NEW r \in 1..N, Parent(g)[r] \in T PROVE r \in T
    <3>1. X[g[r].parent] \in 0..N
      BY <1>2, <2>2
    <3> QED BY <1>1, <1>9, <3>1
  <2>3. \A r \in 0..N : r \in T
    <3> HIDE DEF T, N
    <3> QED BY <1>1, <2>1, <2>2, ParentInduction
  <2> QED BY <2>3
<1>11. X \in [0..N -> 0..N]
  <2> HIDE DEF X
  <2> QED BY <1>8, <1>10
<1> QED BY <1>9, <1>11

\* A graph grows by a revision at its end.
LEMMA TreeGrows ==
    ASSUME NEW g, Tree(g), Len(g) < MaxRevisions, NEW x \in Revisions,
           x.parent \in 1..Len(g), x.kind \in {"turn", "restore"},
           x.kind # "turn" => x.paths = {}
    PROVE  /\ Tree(Append(g, x))
           /\ Len(Append(g, x)) = Len(g) + 1
           /\ Append(g, x)[Len(g) + 1] = x
           /\ \A r \in 1..Len(g) : Append(g, x)[r] = g[r]
<1> DEFINE h == Append(g, x)
<1>1. g \in Seq(Revisions) /\ Len(g) \in Nat /\ Len(g) \in 1..MaxRevisions
  BY DEF Tree
<1>2. h \in Seq(Revisions) /\ Len(h) = Len(g) + 1 /\ h[Len(g) + 1] = x
      /\ \A r \in 1..Len(g) : h[r] = g[r]
  BY <1>1
<1>3. Len(h) \in 1..MaxRevisions
  BY <1>1, <1>2, BoundsAssumption
<1>4. ASSUME NEW r \in 1..Len(h)
      PROVE  /\ h[r].parent \in 0..(r - 1)
             /\ h[r].parent = 0 => r = 1
             /\ h[r].kind = "root" <=> r = 1
             /\ h[r].kind # "turn" => h[r].paths = {}
  <2>1. CASE r = Len(g) + 1
    BY <1>1, <1>2, <2>1
  <2>2. CASE r # Len(g) + 1
    <3>1. r \in 1..Len(g) /\ h[r] = g[r]
      BY <1>1, <1>2, <2>2
    <3> QED BY <3>1 DEF Tree
  <2> QED BY <2>1, <2>2
<1>5. Tree(h)
  <2> HIDE DEF h
  <2> QED BY <1>2, <1>3, <1>4 DEF Tree
<1> QED BY <1>2, <1>5

\* What the revisions stand for does not change with it.
LEMMA GrowthKeeps ==
    ASSUME NEW g, Tree(g), NEW h, Tree(h), Len(h) = Len(g) + 1,
           \A r \in 1..Len(g) : h[r] = g[r]
    PROVE  \A r \in 0..Len(g) : /\ ContentIn(h)[r] = ContentIn(g)[r]
                                /\ ContextIn(h)[r] = ContextIn(g)[r]
<1> DEFINE T == {r \in 0..Len(g) : /\ ContentIn(h)[r] = ContentIn(g)[r]
                                   /\ ContextIn(h)[r] = ContextIn(g)[r]}
<1>1. Len(g) \in Nat /\ Upwards(Parent(g), Len(g))
      /\ \A r \in 1..Len(g) : Parent(g)[r] = g[r].parent
  BY TreeTypes
<1>2. 0 \in T
  BY <1>1, ContentDefined, ContextDefined
<1>3. ASSUME NEW r \in 1..Len(g), Parent(g)[r] \in T PROVE r \in T
  <2>1. r \in 1..Len(h) /\ h[r] = g[r]
    BY <1>1
  <2>2. /\ ContentIn(h)[r] = Grown(g[r], ContentIn(h)[g[r].parent])
        /\ ContentIn(g)[r] = Grown(g[r], ContentIn(g)[g[r].parent])
    BY <2>1, ContentDefined
  <2>3. /\ ContextIn(h)[r] = IF g[r].kind = "turn" /\ g[r].completed THEN r
                             ELSE ContextIn(h)[g[r].parent]
        /\ ContextIn(g)[r] = IF g[r].kind = "turn" /\ g[r].completed THEN r
                             ELSE ContextIn(g)[g[r].parent]
    BY <2>1, ContextDefined
  <2>4. /\ ContentIn(h)[g[r].parent] = ContentIn(g)[g[r].parent]
        /\ ContextIn(h)[g[r].parent] = ContextIn(g)[g[r].parent]
    BY <1>1, <1>3
  <2> QED BY <1>1, <2>2, <2>3, <2>4
<1>4. \A r \in 0..Len(g) : r \in T
  <2> HIDE DEF T
  <2> QED BY <1>1, <1>2, <1>3, ParentInduction
<1> QED BY <1>4

\* The new revision stands for its parent's content with its own changes.
LEMMA GrowthAdds ==
    ASSUME NEW g, Tree(g), NEW h, Tree(h), Len(h) = Len(g) + 1,
           \A r \in 1..Len(g) : h[r] = g[r],
           NEW x, h[Len(g) + 1] = x, x.parent \in 1..Len(g)
    PROVE  /\ ContentIn(h)[Len(g) + 1] = Grown(x, ContentIn(g)[x.parent])
           /\ ContextIn(h)[Len(g) + 1] = IF x.kind = "turn" /\ x.completed THEN Len(g) + 1
                                         ELSE ContextIn(g)[x.parent]
<1>1. \A r \in 0..Len(g) : /\ ContentIn(h)[r] = ContentIn(g)[r]
                           /\ ContextIn(h)[r] = ContextIn(g)[r]
  BY GrowthKeeps
<1>2. Len(g) + 1 \in 1..Len(h) /\ x.parent \in 0..Len(g)
  BY TreeTypes
<1>3. ContentIn(h)[Len(g) + 1] = Grown(x, ContentIn(h)[x.parent])
  BY <1>2, ContentDefined
<1>4. ContextIn(h)[Len(g) + 1] = IF x.kind = "turn" /\ x.completed THEN Len(g) + 1
                                 ELSE ContextIn(h)[x.parent]
  BY <1>2, ContextDefined
<1> QED BY <1>1, <1>2, <1>3, <1>4

\* The graph after a transaction that appends a revision.
Extends(g, h, x) ==
    /\ Tree(h) /\ Len(h) = Len(g) + 1 /\ h[Len(g) + 1] = x
    /\ \A r \in 1..Len(g) : h[r] = g[r]
    /\ \A r \in 0..Len(g) : /\ ContentIn(h)[r] = ContentIn(g)[r]
                            /\ ContextIn(h)[r] = ContextIn(g)[r]
    /\ ContentIn(h)[Len(g) + 1] = Grown(x, ContentIn(g)[x.parent])
    /\ ContextIn(h)[Len(g) + 1] = IF x.kind = "turn" /\ x.completed THEN Len(g) + 1
                                  ELSE ContextIn(g)[x.parent]

LEMMA AppendExtends ==
    ASSUME NEW g, Tree(g), Len(g) < MaxRevisions, NEW x \in Revisions,
           x.parent \in 1..Len(g), x.kind \in {"turn", "restore"},
           x.kind # "turn" => x.paths = {}
    PROVE  Extends(g, Append(g, x), x)
<1>1. PICK h : h = Append(g, x)
  OBVIOUS
<1>2. Tree(h) /\ Len(h) = Len(g) + 1 /\ h[Len(g) + 1] = x /\ \A r \in 1..Len(g) : h[r] = g[r]
  BY <1>1, TreeGrows
<1>3. \A r \in 0..Len(g) : /\ ContentIn(h)[r] = ContentIn(g)[r]
                           /\ ContextIn(h)[r] = ContextIn(g)[r]
  BY <1>2, GrowthKeeps
<1>4. /\ ContentIn(h)[Len(g) + 1] = Grown(x, ContentIn(g)[x.parent])
      /\ ContextIn(h)[Len(g) + 1] = IF x.kind = "turn" /\ x.completed THEN Len(g) + 1
                                    ELSE ContextIn(g)[x.parent]
  BY <1>2, GrowthAdds
<1>5. Extends(g, h, x)
  BY <1>2, <1>3, <1>4 DEF Extends
<1> QED BY <1>1, <1>5

(***************************************************************************)
(* The planner                                                             *)
(***************************************************************************)
N == Len(revisions)
ParentOf(r) == revisions[r].parent

\* f goes up the graph.
Rises(f, base, step) == f[0] = base /\ \A r \in 1..N : f[r] = step[r][f[ParentOf(r)]]

\* The functions of the planner have a solution each.
LEMMA PlannerRecursion ==
    ASSUME Tree(revisions), NEW S, NEW base \in S, NEW step \in [1..N -> [S -> S]]
    PROVE  \E f \in [0..N -> S] : Rises(f, base, step)
<1>1. N \in Nat /\ Upwards(Parent(revisions), N)
      /\ \A r \in 1..N : Parent(revisions)[r] = ParentOf(r)
  BY TreeTypes DEF N, ParentOf
<1>2. PICK f \in [0..N -> S] : Solves(f, Parent(revisions), N, base, step)
  BY <1>1, ParentRecursion
<1> QED BY <1>1, <1>2 DEF Solves, Rises

\* Induction from the root to the revisions, and from the parent to the revision.
LEMMA PlannerInduction ==
    ASSUME Tree(revisions), NEW T, 0 \in T,
           \A r \in 1..N : ParentOf(r) \in T => r \in T
    PROVE  \A r \in 0..N : r \in T
<1>1. N \in Nat /\ Upwards(Parent(revisions), N)
      /\ \A r \in 1..N : Parent(revisions)[r] = ParentOf(r)
  BY TreeTypes DEF N, ParentOf
<1> QED BY <1>1, ParentInduction

LEMMA ParentTypes ==
    ASSUME Tree(revisions)
    PROVE  /\ N \in 1..MaxRevisions /\ N \in Nat /\ DOMAIN revisions = 1..N
           /\ \A r \in 1..N : /\ ParentOf(r) \in 0..N /\ ParentOf(r) < r
                              /\ ParentOf(r) = 0 => r = 1
  BY TreeTypes DEF Tree, N, ParentOf

LEMMA AncestorsDefined ==
    ASSUME Tree(revisions)
    PROVE  /\ Ancestors[0] = {}
           /\ \A r \in 1..N : Ancestors[r] = {r} \union Ancestors[ParentOf(r)]
           /\ \A r \in 0..N : Ancestors[r] \in SUBSET (1..N)
<1> DEFINE step == [r \in 1..N |-> [a \in SUBSET (1..N) |-> {r} \union a]]
           Eq(a) == a = [r \in 0..N |-> IF r = 0 THEN {} ELSE {r} \union a[ParentOf(r)]]
<1>1. N \in Nat /\ \A r \in 1..N : ParentOf(r) \in 0..N
  BY ParentTypes
<1>2. PICK a \in [0..N -> SUBSET (1..N)] : Rises(a, {}, step)
  <2>1. step \in [1..N -> [SUBSET (1..N) -> SUBSET (1..N)]]
    OBVIOUS
  <2>2. {} \in SUBSET (1..N)
    OBVIOUS
  <2> HIDE DEF step
  <2> QED BY <2>1, <2>2, PlannerRecursion
<1>3. \A r \in 1..N : a[r] = {r} \union a[ParentOf(r)]
  <2> TAKE r \in 1..N
  <2>1. a[ParentOf(r)] \in SUBSET (1..N)
    BY <1>1
  <2> QED BY <1>2, <2>1 DEF Rises
<1>4. Eq(a)
  <2>1. \A r \in 0..N : a[r] = IF r = 0 THEN {} ELSE {r} \union a[ParentOf(r)]
    <3> HIDE DEF step
    <3> QED BY <1>1, <1>2, <1>3 DEF Rises
  <2> QED BY <2>1
<1>5. Ancestors = CHOOSE b : Eq(b)
  BY DEF Ancestors, N, ParentOf
<1>6. Eq(Ancestors)
  <2> HIDE DEF Eq
  <2> QED BY <1>4, <1>5
<1>7. Ancestors[0] = {} /\ \A r \in 1..N : Ancestors[r] = {r} \union Ancestors[ParentOf(r)]
  BY <1>1, <1>6
<1>8. \A r \in 0..N : Ancestors[r] \in SUBSET (1..N)
  <2> DEFINE T == {r \in 0..N : Ancestors[r] \in SUBSET (1..N)}
  <2>1. 0 \in T
    BY <1>1, <1>7
  <2>2. ASSUME NEW r \in 1..N, ParentOf(r) \in T PROVE r \in T
    <3>1. Ancestors[ParentOf(r)] \in SUBSET (1..N)
      BY <2>2
    <3> QED BY <1>7, <3>1
  <2>3. \A r \in 0..N : r \in T
    <3> HIDE DEF T
    <3> QED BY <2>1, <2>2, PlannerInduction
  <2> QED BY <2>3
<1> QED BY <1>7, <1>8

\* Every revision is below the root and below itself, and its ancestors' ancestors
\* are its own.
LEMMA RootAbove ==
    ASSUME Tree(revisions)
    PROVE  \A r \in 1..N : 1 \in Ancestors[r] /\ r \in Ancestors[r]
<1> DEFINE T == {r \in 0..N : r = 0 \/ 1 \in Ancestors[r]}
<1>1. 0 \in T
  BY ParentTypes
<1>2. ASSUME NEW r \in 1..N, ParentOf(r) \in T PROVE r \in T
  <2>1. Ancestors[r] = {r} \union Ancestors[ParentOf(r)]
    BY AncestorsDefined
  <2>2. CASE ParentOf(r) = 0
    BY <2>1, <2>2, ParentTypes
  <2>3. CASE ParentOf(r) # 0
    BY <1>2, <2>1, <2>3, ParentTypes
  <2> QED BY <2>2, <2>3
<1>3. \A r \in 0..N : r \in T
  <2> HIDE DEF T
  <2> QED BY <1>1, <1>2, PlannerInduction
<1>4. \A r \in 1..N : 1 \in Ancestors[r]
  BY <1>3, ParentTypes
<1> QED BY <1>4, AncestorsDefined

\* The common ancestor is above both.
LEMMA CommonAncestorAbove ==
    ASSUME Tree(revisions), NEW source \in 1..N, NEW target \in 1..N
    PROVE  /\ CommonAncestor(source, target) \in Ancestors[source]
           /\ CommonAncestor(source, target) \in Ancestors[target]
<1> DEFINE Above(r) == r = 0 \/ r \in Ancestors[source]
           step == [r \in 1..N |-> [a \in 0..N |-> IF Above(r) THEN r ELSE a]]
           Eq(a) == a = [r \in 0..N |-> IF Above(r) THEN r ELSE a[ParentOf(r)]]
           First == CHOOSE b : Eq(b)
<1>1. N \in Nat /\ \A r \in 1..N : ParentOf(r) \in 0..N
  BY ParentTypes
<1>2. PICK a \in [0..N -> 0..N] : Rises(a, 0, step)
  <2>1. step \in [1..N -> [0..N -> 0..N]]
    BY <1>1
  <2>2. 0 \in 0..N
    BY <1>1
  <2> HIDE DEF step
  <2> QED BY <2>1, <2>2, PlannerRecursion
<1>3. \A r \in 1..N : a[r] = IF Above(r) THEN r ELSE a[ParentOf(r)]
  <2> TAKE r \in 1..N
  <2>1. a[ParentOf(r)] \in 0..N
    BY <1>1
  <2> HIDE DEF Above
  <2> QED BY <1>2, <2>1 DEF Rises
<1>4. Eq(a)
  <2>1. \A r \in 0..N : a[r] = IF Above(r) THEN r ELSE a[ParentOf(r)]
    <3> TAKE r \in 0..N
    <3>1. CASE r = 0
      BY <1>2, <3>1 DEF Rises
    <3>2. CASE r # 0
      <4>1. r \in 1..N
        BY <1>1, <3>2
      <4> QED BY <1>3, <4>1
    <3> QED BY <3>1, <3>2
  <2> QED BY <2>1
<1>5. Eq(First)
  <2> HIDE DEF Eq
  <2> QED BY <1>4
<1>6. CommonAncestor(source, target) = First[target]
  BY DEF CommonAncestor, N, ParentOf
<1> HIDE DEF First
<1>7. \A r \in 1..N : First[r] = IF r \in Ancestors[source] THEN r ELSE First[ParentOf(r)]
  <2> DEFINE G == [r \in 0..N |-> IF Above(r) THEN r ELSE First[ParentOf(r)]]
  <2>1. First = G
    BY <1>5
  <2>2. ASSUME NEW r \in 1..N
        PROVE  G[r] = IF r \in Ancestors[source] THEN r ELSE First[ParentOf(r)]
    <3>1. r \in 0..N /\ r # 0
      BY <1>1
    <3>2. G[r] = IF Above(r) THEN r ELSE First[ParentOf(r)]
      BY <3>1
    <3> QED BY <3>1, <3>2
  <2> HIDE DEF G
  <2> QED BY <2>1, <2>2
<1> DEFINE T == {r \in 0..N : r = 0 \/ First[r] \in Ancestors[source] \cap Ancestors[r]}
<1>8. 0 \in T
  BY <1>1
<1>9. ASSUME NEW r \in 1..N, ParentOf(r) \in T PROVE r \in T
  <2>1. CASE r \in Ancestors[source]
    BY <1>7, <2>1, RootAbove
  <2>2. CASE r \notin Ancestors[source]
    <3>1. r # 1
      BY <2>2, RootAbove
    <3>2. ParentOf(r) # 0
      BY <3>1, ParentTypes
    <3>3. First[ParentOf(r)] \in Ancestors[source] \cap Ancestors[ParentOf(r)]
      BY <1>9, <3>2
    <3>4. First[r] = First[ParentOf(r)]
      BY <1>7, <2>2
    <3> QED BY <3>3, <3>4, AncestorsDefined
  <2> QED BY <2>1, <2>2
<1>10. \A r \in 0..N : r \in T
  <2> HIDE DEF T
  <2> QED BY <1>8, <1>9, PlannerInduction
<1>11. target \in T /\ target # 0
  BY <1>1, <1>10
<1> QED BY <1>6, <1>11

\* The contents between which a step of a plan moves the files.
Begins(g, s) == IF s.direction = "before" THEN ContentIn(g)[s.revision]
                ELSE ContentIn(g)[g[s.revision].parent]
Ends(g, s) == IF s.direction = "before" THEN ContentIn(g)[g[s.revision].parent]
              ELSE ContentIn(g)[s.revision]

\* What the files should be after k steps, and the plans whose steps follow on each
\* other from the source's content to the target's.
Reached(g, steps, source, k) == IF k = 0 THEN ContentIn(g)[source] ELSE Ends(g, steps[k])
Leads(g, steps, source, target) ==
    /\ \A k \in 1..Len(steps) : Begins(g, steps[k]) = Reached(g, steps, source, k - 1)
    /\ Reached(g, steps, source, Len(steps)) = ContentIn(g)[target]

GraphSteps == [revision : 1..N, direction : {"before", "after"}]

\* A revision that is not a turn has its parent's content and needs no step.
LEMMA StepLeads ==
    ASSUME Tree(revisions), NEW r \in 1..N
    PROVE  /\ Step(r, "before") \in Seq(GraphSteps) /\ Leads(revisions, Step(r, "before"), r, ParentOf(r))
           /\ Step(r, "after") \in Seq(GraphSteps) /\ Leads(revisions, Step(r, "after"), ParentOf(r), r)
<1> DEFINE One(d) == <<[revision |-> r, direction |-> d]>>
<1>1. CASE revisions[r].kind = "turn"
  <2>1. \A d \in {"before", "after"} :
            /\ Step(r, d) = One(d) /\ One(d) \in Seq(GraphSteps) /\ Len(One(d)) = 1
            /\ One(d)[1].revision = r /\ One(d)[1].direction = d
    BY <1>1 DEF Step, GraphSteps
  <2> HIDE DEF One
  <2>2. \A k \in 1..1 : k = 1 /\ k - 1 = 0
    OBVIOUS
  <2>3. Leads(revisions, One("before"), r, ParentOf(r))
    BY <2>1, <2>2 DEF Leads, Reached, Begins, Ends, ParentOf
  <2>4. Leads(revisions, One("after"), ParentOf(r), r)
    BY <2>1, <2>2 DEF Leads, Reached, Begins, Ends, ParentOf
  <2> QED BY <2>1, <2>3, <2>4
<1>2. CASE revisions[r].kind # "turn"
  <2>1. \A d \in {"before", "after"} : Step(r, d) = <<>>
    BY <1>2 DEF Step
  <2>2. revisions[r].paths = {}
    BY <1>2 DEF Tree, N
  <2>3. /\ ContentIn(revisions)[r] = Grown(revisions[r], ContentIn(revisions)[ParentOf(r)])
        /\ ContentIn(revisions)[ParentOf(r)] \in Contents
    BY ContentDefined, ParentTypes DEF N, ParentOf
  <2>4. ContentIn(revisions)[r] = ContentIn(revisions)[ParentOf(r)]
    BY <2>2, <2>3 DEF Grown, Contents
  <2>5. Leads(revisions, <<>>, r, ParentOf(r)) /\ Leads(revisions, <<>>, ParentOf(r), r)
    BY <2>4 DEF Leads, Reached
  <2>6. <<>> \in Seq(GraphSteps) /\ Step(r, "before") = <<>> /\ Step(r, "after") = <<>>
    BY <2>1
  <2> QED BY <2>5, <2>6
<1> QED BY <1>1, <1>2

\* Plans can be put together.
LEMMA LeadsOn ==
    ASSUME NEW p \in Seq(GraphSteps), NEW q \in Seq(GraphSteps), NEW source, NEW via, NEW target,
           Leads(revisions, p, source, via), Leads(revisions, q, via, target)
    PROVE  p \o q \in Seq(GraphSteps) /\ Leads(revisions, p \o q, source, target)
<1> DEFINE m == Len(p)
           n == Len(q)
           w == p \o q
<1>1. /\ m \in Nat /\ n \in Nat /\ w \in Seq(GraphSteps) /\ Len(w) = m + n
      /\ \A k \in 1..(m + n) : w[k] = IF k <= m THEN p[k] ELSE q[k - m]
  OBVIOUS
<1> HIDE DEF m, n, w
<1>2. \A k \in 0..m : Reached(revisions, w, source, k) = Reached(revisions, p, source, k)
  BY <1>1 DEF Reached
<1>3. Reached(revisions, p, source, m) = ContentIn(revisions)[via]
  BY DEF Leads, m
<1>4. \A k \in 0..n : Reached(revisions, w, source, m + k) = Reached(revisions, q, via, k)
  <2> TAKE k \in 0..n
  <2>1. CASE k = 0
    <3>1. Reached(revisions, q, via, k) = ContentIn(revisions)[via]
      BY <2>1 DEF Reached
    <3> QED BY <1>1, <1>2, <1>3, <2>1, <3>1
  <2>2. CASE k # 0
    <3>1. w[m + k] = q[k] /\ m + k # 0
      BY <1>1, <2>2
    <3> QED BY <2>2, <3>1 DEF Reached
  <2> QED BY <2>1, <2>2
<1>5. ASSUME NEW k \in 1..(m + n) PROVE Begins(revisions, w[k]) = Reached(revisions, w, source, k - 1)
  <2>1. CASE k <= m
    <3>1. Begins(revisions, p[k]) = Reached(revisions, p, source, k - 1)
      BY <1>1, <2>1 DEF Leads, m
    <3> QED BY <1>1, <1>2, <2>1, <3>1
  <2>2. CASE k > m
    <3>1. k - m \in 1..n /\ k - m - 1 \in 0..n /\ m + (k - m - 1) = k - 1 /\ w[k] = q[k - m]
      BY <1>1, <2>2
    <3>2. Begins(revisions, q[k - m]) = Reached(revisions, q, via, k - m - 1)
      BY <3>1 DEF Leads, n
    <3>3. Reached(revisions, w, source, m + (k - m - 1)) = Reached(revisions, q, via, k - m - 1)
      BY <1>4, <3>1
    <3> QED BY <3>1, <3>2, <3>3
  <2> QED BY <1>1, <2>1, <2>2
<1>6. Reached(revisions, q, via, n) = ContentIn(revisions)[target]
  BY DEF Leads, n
<1>7. Reached(revisions, w, source, m + n) = ContentIn(revisions)[target]
  BY <1>1, <1>4, <1>6
<1>8. Leads(revisions, w, source, target)
  BY <1>1, <1>5, <1>7 DEF Leads
<1> QED BY <1>1, <1>8 DEF w

\* From a revision up to one above it.
LEMMA UndoLeads ==
    ASSUME Tree(revisions), NEW source \in 1..N, NEW top \in Ancestors[source]
    PROVE  Undo(source, top) \in Seq(GraphSteps) /\ Leads(revisions, Undo(source, top), source, top)
<1> DEFINE Stop(r) == r \in {0, top}
           S == Seq(GraphSteps)
           step == [r \in 1..N |-> [u \in S |-> IF Stop(r) THEN <<>> ELSE Step(r, "before") \o u]]
           Eq(u) == u = [r \in 0..N |-> IF Stop(r) THEN <<>> ELSE Step(r, "before") \o u[ParentOf(r)]]
           Up == CHOOSE u : Eq(u)
<1>1. N \in Nat /\ \A r \in 1..N : ParentOf(r) \in 0..N
  BY ParentTypes
<1>2. <<>> \in S /\ \A r \in 1..N : Step(r, "before") \in S
  BY StepLeads
<1>3. PICK u \in [0..N -> S] : Rises(u, <<>>, step)
  <2>1. \A v, w \in S : v \o w \in S
    OBVIOUS
  <2> HIDE DEF S, Stop
  <2>2. step \in [1..N -> [S -> S]]
    BY <1>2, <2>1
  <2> HIDE DEF step
  <2> QED BY <1>2, <2>2, PlannerRecursion
<1>4. Eq(u)
  <2>1. ASSUME NEW r \in 1..N
        PROVE  u[r] = IF Stop(r) THEN <<>> ELSE Step(r, "before") \o u[ParentOf(r)]
    <3>1. u[ParentOf(r)] \in S
      BY <1>1
    <3> HIDE DEF S, Stop
    <3> QED BY <1>3, <3>1 DEF Rises
  <2>2. u[0] = <<>>
    <3> HIDE DEF step
    <3> QED BY <1>3 DEF Rises
  <2>3. \A r \in 0..N : u[r] = IF Stop(r) THEN <<>> ELSE Step(r, "before") \o u[ParentOf(r)]
    <3> TAKE r \in 0..N
    <3>1. CASE r = 0
      BY <2>2, <3>1
    <3>2. CASE r # 0
      <4>1. r \in 1..N
        BY <1>1, <3>2
      <4> HIDE DEF Stop
      <4> QED BY <2>1, <4>1
    <3> QED BY <3>1, <3>2
  <2> HIDE DEF Stop
  <2> QED BY <2>3
<1>5. Eq(Up)
  <2> HIDE DEF Eq
  <2> QED BY <1>4
<1>6. Undo(source, top) = Up[source]
  BY DEF Undo, N, ParentOf
<1>7. \A r \in 1..N : Up[r] = IF r = top THEN <<>> ELSE Step(r, "before") \o Up[ParentOf(r)]
  <2> DEFINE G == [r \in 0..N |-> IF Stop(r) THEN <<>> ELSE Step(r, "before") \o Up[ParentOf(r)]]
  <2>1. Up = G
    BY <1>5
  <2> HIDE DEF Up
  <2>2. \A r \in 1..N : G[r] = IF r = top THEN <<>> ELSE Step(r, "before") \o Up[ParentOf(r)]
    BY <1>1
  <2> HIDE DEF G
  <2> QED BY <2>1, <2>2
<1> HIDE DEF Up, Eq, step
<1> DEFINE T == {r \in 0..N : top \in Ancestors[r] => Up[r] \in S /\ Leads(revisions, Up[r], r, top)}
<1>8. 0 \in T
  BY <1>1, AncestorsDefined
<1>9. ASSUME NEW r \in 1..N, ParentOf(r) \in T PROVE r \in T
  <2> SUFFICES ASSUME top \in Ancestors[r] PROVE Up[r] \in S /\ Leads(revisions, Up[r], r, top)
    BY <1>1
  <2>1. CASE r = top
    <3>1. Up[r] = <<>>
      BY <1>7, <2>1
    <3>2. Leads(revisions, <<>>, r, top)
      BY <2>1 DEF Leads, Reached
    <3> QED BY <1>2, <3>1, <3>2
  <2>2. CASE r # top
    <3>1. top \in Ancestors[ParentOf(r)]
      BY <2>2, AncestorsDefined
    <3>2. Up[ParentOf(r)] \in S /\ Leads(revisions, Up[ParentOf(r)], ParentOf(r), top)
      BY <1>9, <3>1
    <3>3. Up[r] = Step(r, "before") \o Up[ParentOf(r)]
      BY <1>7, <2>2
    <3>4. Step(r, "before") \in S /\ Leads(revisions, Step(r, "before"), r, ParentOf(r))
      BY StepLeads
    <3> QED BY <3>2, <3>3, <3>4, LeadsOn
  <2> QED BY <2>1, <2>2
<1>10. \A r \in 0..N : r \in T
  <2> HIDE DEF T
  <2> QED BY <1>8, <1>9, PlannerInduction
<1>11. source \in T
  BY <1>1, <1>10
<1> QED BY <1>6, <1>11

\* And from there down to a revision below.
LEMMA RedoLeads ==
    ASSUME Tree(revisions), NEW target \in 1..N, NEW top \in Ancestors[target]
    PROVE  Redo(target, top) \in Seq(GraphSteps) /\ Leads(revisions, Redo(target, top), top, target)
<1> DEFINE Stop(r) == r \in {0, top}
           S == Seq(GraphSteps)
           step == [r \in 1..N |-> [u \in S |-> IF Stop(r) THEN <<>> ELSE u \o Step(r, "after")]]
           Eq(u) == u = [r \in 0..N |-> IF Stop(r) THEN <<>> ELSE u[ParentOf(r)] \o Step(r, "after")]
           Down == CHOOSE u : Eq(u)
<1>1. N \in Nat /\ \A r \in 1..N : ParentOf(r) \in 0..N
  BY ParentTypes
<1>2. <<>> \in S /\ \A r \in 1..N : Step(r, "after") \in S
  BY StepLeads
<1>3. PICK u \in [0..N -> S] : Rises(u, <<>>, step)
  <2>1. \A v, w \in S : v \o w \in S
    OBVIOUS
  <2> HIDE DEF S, Stop
  <2>2. step \in [1..N -> [S -> S]]
    BY <1>2, <2>1
  <2> HIDE DEF step
  <2> QED BY <1>2, <2>2, PlannerRecursion
<1>4. Eq(u)
  <2>1. ASSUME NEW r \in 1..N
        PROVE  u[r] = IF Stop(r) THEN <<>> ELSE u[ParentOf(r)] \o Step(r, "after")
    <3>1. u[ParentOf(r)] \in S
      BY <1>1
    <3> HIDE DEF S, Stop
    <3> QED BY <1>3, <3>1 DEF Rises
  <2>2. u[0] = <<>>
    <3> HIDE DEF step
    <3> QED BY <1>3 DEF Rises
  <2>3. \A r \in 0..N : u[r] = IF Stop(r) THEN <<>> ELSE u[ParentOf(r)] \o Step(r, "after")
    <3> TAKE r \in 0..N
    <3>1. CASE r = 0
      BY <2>2, <3>1
    <3>2. CASE r # 0
      <4>1. r \in 1..N
        BY <1>1, <3>2
      <4> HIDE DEF Stop
      <4> QED BY <2>1, <4>1
    <3> QED BY <3>1, <3>2
  <2> HIDE DEF Stop
  <2> QED BY <2>3
<1>5. Eq(Down)
  <2> HIDE DEF Eq
  <2> QED BY <1>4
<1>6. Redo(target, top) = Down[target]
  BY DEF Redo, N, ParentOf
<1>7. \A r \in 1..N : Down[r] = IF r = top THEN <<>> ELSE Down[ParentOf(r)] \o Step(r, "after")
  <2> DEFINE G == [r \in 0..N |-> IF Stop(r) THEN <<>> ELSE Down[ParentOf(r)] \o Step(r, "after")]
  <2>1. Down = G
    BY <1>5
  <2> HIDE DEF Down
  <2>2. \A r \in 1..N : G[r] = IF r = top THEN <<>> ELSE Down[ParentOf(r)] \o Step(r, "after")
    BY <1>1
  <2> HIDE DEF G
  <2> QED BY <2>1, <2>2
<1> HIDE DEF Down, Eq, step
<1> DEFINE T == {r \in 0..N : top \in Ancestors[r] => Down[r] \in S /\ Leads(revisions, Down[r], top, r)}
<1>8. 0 \in T
  BY <1>1, AncestorsDefined
<1>9. ASSUME NEW r \in 1..N, ParentOf(r) \in T PROVE r \in T
  <2> SUFFICES ASSUME top \in Ancestors[r] PROVE Down[r] \in S /\ Leads(revisions, Down[r], top, r)
    BY <1>1
  <2>1. CASE r = top
    <3>1. Down[r] = <<>>
      BY <1>7, <2>1
    <3>2. Leads(revisions, <<>>, top, r)
      BY <2>1 DEF Leads, Reached
    <3> QED BY <1>2, <3>1, <3>2
  <2>2. CASE r # top
    <3>1. top \in Ancestors[ParentOf(r)]
      BY <2>2, AncestorsDefined
    <3>2. Down[ParentOf(r)] \in S /\ Leads(revisions, Down[ParentOf(r)], top, ParentOf(r))
      BY <1>9, <3>1
    <3>3. Down[r] = Down[ParentOf(r)] \o Step(r, "after")
      BY <1>7, <2>2
    <3>4. Step(r, "after") \in S /\ Leads(revisions, Step(r, "after"), ParentOf(r), r)
      BY StepLeads
    <3> QED BY <3>2, <3>3, <3>4, LeadsOn
  <2> QED BY <2>1, <2>2
<1>10. \A r \in 0..N : r \in T
  <2> HIDE DEF T
  <2> QED BY <1>8, <1>9, PlannerInduction
<1>11. target \in T
  BY <1>1, <1>10
<1> QED BY <1>6, <1>11

\* A plan leads from what its source stands for to what its target stands for.
LEMMA PlanLeads ==
    ASSUME Tree(revisions), NEW source \in 1..N, NEW target \in 1..N
    PROVE  Plan(source, target) \in Seq(GraphSteps) /\ Leads(revisions, Plan(source, target), source, target)
<1> DEFINE top == CommonAncestor(source, target)
<1>1. top \in Ancestors[source] /\ top \in Ancestors[target]
  BY CommonAncestorAbove
<1>2. Undo(source, top) \in Seq(GraphSteps) /\ Leads(revisions, Undo(source, top), source, top)
  BY <1>1, UndoLeads
<1>3. Redo(target, top) \in Seq(GraphSteps) /\ Leads(revisions, Redo(target, top), top, target)
  BY <1>1, RedoLeads
<1>4. Plan(source, target) = Undo(source, top) \o Redo(target, top)
  BY DEF Plan
<1> HIDE DEF top
<1> QED BY <1>2, <1>3, <1>4, LeadsOn

(***************************************************************************)
(* The invariant                                                           *)
(***************************************************************************)
AtWorkPc == {"checking", "applying", "forking", "committing", "undoing"}
Planned(r) == restore[r].pc \in AtWorkPc
Busy(r) == Planned(r) \/ restore[r].pc = "leased"

\* A lease is given only while there is room for a revision, and goes with the
\* transaction that adds it.
LeaseInv == lease.live => N < MaxRevisions

TurnInv == turn.on => turn.parent \in 1..N

\* A restore stands at one of its steps or behind the last, and both its ends and
\* the revisions of its steps are in the graph.
RecordOK(rec, g) ==
    /\ rec.steps \in Seq([revision : 1..Len(g), direction : {"before", "after"}])
    /\ rec.next \in 1..(Len(rec.steps) + 1)
    /\ rec.pc = "applying" => rec.next <= Len(rec.steps)
    /\ rec.pc = "leased" => /\ rec.next = 1 /\ rec.turn \in 1..Len(g)
                            /\ g[rec.turn].kind = "turn" /\ g[rec.turn].completed
    /\ rec.pc \in AtWorkPc => rec.source \in 1..Len(g) /\ rec.target \in 1..Len(g)
RestoreOK(r) == RecordOK(restore[r], revisions)

TypeInv ==
    /\ TypeOK
    /\ Tree(revisions)
    /\ LeaseInv
    /\ TurnInv
    /\ \A r \in Restores : RestoreOK(r)

\* Every place that keeps a backend context keeps the one of its revision.
RevisionContexts ==
    \A r \in 1..N : revisions[r].kind = "turn" =>
        /\ revisions[r].context = ContextOf[r]
        /\ revisions[r].contextBefore = ContextOf[revisions[r].parent]
ContextInv ==
    /\ session = ContextOf[head]
    /\ turn.on => turn.session = ContextOf[turn.parent]
    /\ RevisionContexts
    /\ \A r \in Restores : Planned(r) => restore[r].context = ContextOf[restore[r].target]

\* Two contents that differ at most in the files of e.
Agree(e, c, d) == \A f \in Files \ e : c[f] = d[f]

\* Nobody works on the workspace without the lease.
OwnersInv ==
    /\ turn.on => Holds(TurnLease) /\ head = turn.parent
    /\ \A r \in Restores : /\ Busy(r) => Holds(r)
                           /\ Planned(r) => head = restore[r].source

\* A checkpoint's first image is what its parent stands for, in every file that nobody
\* else edited and that no crash left changed.
ImageInv ==
    \A r \in 1..N : \A f \in revisions[r].paths \ edited :
        revisions[r].before[f] = ContentIn(revisions)[revisions[r].parent][f]

\* The contents h that a restore went through: each of its steps has found one of the
\* checkpoint's images and left the other.
Walked(g, h, steps, done) ==
    \A k \in 1..done : \A f \in Files :
        LET rev == g[steps[k].revision] IN
        IF f \in rev.paths
        THEN /\ h[k - 1][f] = Image(rev, Opposite(steps[k].direction))[f]
             /\ h[k][f] = Image(rev, steps[k].direction)[f]
        ELSE h[k][f] = h[k - 1][f]
Trail(g, steps, done, c) ==
    \E h \in [0..done -> Contents] : h[done] = c /\ Walked(g, h, steps, done)

\* The files c are what the steps so far should have made of the head, and can be
\* brought back.
OnTheWay(g, e, c, rec) ==
    LET done == rec.next - 1
    IN  /\ Leads(g, rec.steps, rec.source, rec.target)
        /\ Agree(e, c, Reached(g, rec.steps, rec.source, done))
        /\ Trail(g, rec.steps, done, c)
        /\ rec.pc \in {"forking", "committing"} => done = Len(rec.steps)

FilesInv ==
    /\ ~turn.on /\ (\A r \in Restores : ~Planned(r)) =>
           Agree(edited, files, ContentIn(revisions)[head])
    /\ turn.on => Agree(edited, turn.base, ContentIn(revisions)[turn.parent])
    /\ \A r \in Restores : Planned(r) => OnTheWay(revisions, edited, files, restore[r])

\* What holds until a lease, an acknowledgement or an edit goes astray.
Clean == faults \subseteq {"crash"}
CleanParts == OwnersInv /\ ImageInv /\ FilesInv
CleanInv == Clean => CleanParts

(***************************************************************************)
(* Types                                                                   *)
(***************************************************************************)
RestoreRecords == [pc : {"idle", "leased", "checking", "applying", "forking",
                         "committing", "undoing", "ending", "gone"},
                   turn : 0..MaxRevisions, boundary : {"before", "after"},
                   source : 0..MaxRevisions, target : 0..MaxRevisions,
                   steps : Seq(Steps), next : Nat, context : 0..MaxRevisions]
Turns == [on : BOOLEAN, parent : 0..MaxRevisions, base : Contents, session : 0..MaxRevisions]
Leases == [owner : {None, TurnLease} \union Restores, live : BOOLEAN]

\* What the provers need of the types, without the long definitions.
LEMMA TypeFacts ==
    ASSUME TypeInv
    PROVE  /\ Tree(revisions) /\ revisions \in Seq(Revisions) /\ DOMAIN revisions = 1..N
           /\ N \in Nat /\ N \in 1..MaxRevisions /\ MaxRevisions \in Nat
           /\ head \in 1..N /\ session \in 0..MaxRevisions
           /\ status \in {"idle", "running", "error"}
           /\ lease \in Leases /\ files \in Contents /\ turn \in Turns
           /\ restore \in [Restores -> RestoreRecords]
           /\ edited \in SUBSET Files /\ edits \in 0..MaxEdits /\ faults \in SUBSET FaultKinds
           /\ LeaseInv /\ TurnInv
           /\ \A r \in Restores : RecordOK(restore[r], revisions)
<1>1. TypeOK /\ Tree(revisions)
  BY DEF TypeInv
<1>2. DOMAIN revisions = 1..N /\ N \in Nat /\ N \in 1..MaxRevisions
  BY <1>1, ParentTypes
<1> QED BY <1>1, <1>2, BoundsAssumption
    DEF TypeInv, TypeOK, RestoreRecords, Turns, Leases, RestoreOK

\* And back.
LEMMA TypesPrimed ==
    ASSUME Tree(revisions)', head' \in DOMAIN revisions', session' \in 0..MaxRevisions,
           status' \in {"idle", "running", "error"}, lease' \in Leases, files' \in Contents,
           turn' \in Turns, restore' \in [Restores -> RestoreRecords],
           edited' \in SUBSET Files, edits' \in 0..MaxEdits, faults' \in SUBSET FaultKinds,
           LeaseInv', TurnInv', \A r \in Restores : RecordOK(restore'[r], revisions')
    PROVE  TypeInv'
  BY DEF TypeInv, TypeOK, RestoreRecords, Turns, Leases, RestoreOK, Tree

\* The records of the restores stay as they are when the graph grows.
LEMMA RecordsStay ==
    ASSUME NEW g, NEW h, Len(g) \in Nat, Len(h) \in Nat, Len(g) <= Len(h),
           \A i \in 1..Len(g) : h[i] = g[i],
           NEW rec, RecordOK(rec, g)
    PROVE  RecordOK(rec, h)
<1> DEFINE A == [revision : 1..Len(g), direction : {"before", "after"}]
           B == [revision : 1..Len(h), direction : {"before", "after"}]
<1>1. A \subseteq B /\ 1..Len(g) \subseteq 1..Len(h)
  OBVIOUS
<1>2. rec.steps \in Seq(B)
  <2>1. rec.steps \in Seq(A)
    BY DEF RecordOK
  <2> HIDE DEF A, B
  <2> QED BY <1>1, <2>1
<1>3. rec.pc = "leased" => /\ rec.next = 1 /\ rec.turn \in 1..Len(h)
                           /\ h[rec.turn].kind = "turn" /\ h[rec.turn].completed
  BY <1>1 DEF RecordOK
<1>4. rec.pc \in AtWorkPc => rec.source \in 1..Len(h) /\ rec.target \in 1..Len(h)
  BY <1>1 DEF RecordOK
<1> QED BY <1>2, <1>3, <1>4 DEF RecordOK

\* One restore changes its record.
LEMMA RecordChanges ==
    ASSUME TypeInv, Len(revisions') \in Nat, N <= Len(revisions'),
           \A i \in 1..N : revisions'[i] = revisions[i],
           NEW r \in Restores, NEW rec \in RestoreRecords, RecordOK(rec, revisions'),
           restore' = [restore EXCEPT ![r] = rec]
    PROVE  /\ restore' \in [Restores -> RestoreRecords]
           /\ \A q \in Restores : RecordOK(restore'[q], revisions')
<1>1. restore \in [Restores -> RestoreRecords]
      /\ \A q \in Restores : RecordOK(restore[q], revisions)
  BY TypeFacts
<1>2. restore' \in [Restores -> RestoreRecords]
  BY <1>1
<1>3. \A q \in Restores : RecordOK(restore[q], revisions')
  BY <1>1, RecordsStay, TypeFacts DEF N
<1>4. ASSUME NEW q \in Restores PROVE RecordOK(restore'[q], revisions')
  <2>1. CASE q = r
    BY <1>1, <2>1
  <2>2. CASE q # r
    BY <1>1, <1>3, <2>2
  <2> QED BY <2>1, <2>2
<1> QED BY <1>2, <1>4

\* A restore goes to another point of its code.
LEMMA PcChanges ==
    ASSUME TypeInv, UNCHANGED revisions, NEW r \in Restores,
           NEW pc \in AtWorkPc \union {"ending"},
           pc \in AtWorkPc => Planned(r),
           pc = "applying" => restore[r].next <= Len(restore[r].steps), To(r, pc)
    PROVE  /\ restore' \in [Restores -> RestoreRecords]
           /\ \A q \in Restores : RecordOK(restore'[q], revisions')
<1> DEFINE old == restore[r]
           rec == [old EXCEPT !.pc = pc]
<1>1. old \in RestoreRecords /\ RecordOK(old, revisions) /\ Len(revisions) \in Nat
  BY TypeFacts DEF N
<1>2. rec \in RestoreRecords
  <2> HIDE DEF old
  <2> QED BY <1>1 DEF RestoreRecords, AtWorkPc
<1>3. RecordOK(rec, revisions')
  <2>1. /\ rec.steps = old.steps /\ rec.next = old.next /\ rec.pc = pc
        /\ rec.source = old.source /\ rec.target = old.target
    <3> HIDE DEF old
    <3> QED BY <1>1 DEF RestoreRecords
  <2>2. pc # "leased"
    BY DEF AtWorkPc
  <2>3. pc \in AtWorkPc => old.pc \in AtWorkPc
    BY DEF Planned
  <2> HIDE DEF rec, old
  <2>4. pc = "applying" => old.next <= Len(old.steps)
    BY DEF old
  <2> QED BY <1>1, <2>1, <2>2, <2>3, <2>4 DEF RecordOK
<1>4. restore' = [restore EXCEPT ![r] = rec]
  BY DEF To
<1>5. Len(revisions') \in Nat /\ N <= Len(revisions') /\ \A i \in 1..N : revisions'[i] = revisions[i]
  BY <1>1 DEF N
<1> HIDE DEF rec
<1> QED BY <1>2, <1>3, <1>4, <1>5, RecordChanges

\* The steps that change neither the graph nor a restore.
LEMMA TypesWithoutRestore ==
    ASSUME TypeInv,
           BeginTurn \/ TurnDies \/ RecoverRoom \/ LeaseExpires
           \/ \E f \in Files : TurnWrites(f) \/ Edit(f)
    PROVE  TypeInv'
<1> USE TypeFacts
<1>1. UNCHANGED <<revisions, restore, session, head>>
  BY DEF BeginTurn, TurnDies, RecoverRoom, LeaseExpires, TurnWrites, Edit, graph, Fault
<1>2. /\ Tree(revisions)' /\ head' \in DOMAIN revisions' /\ session' \in 0..MaxRevisions
      /\ restore' \in [Restores -> RestoreRecords] /\ N' = N
      /\ \A r \in Restores : RecordOK(restore'[r], revisions')
  BY <1>1 DEF Tree, N
<1>3. Foreign \in 0..Foreign /\ N + 1 \in 0..Foreign
  BY DEF Foreign
<1>4. CASE BeginTurn
  <2>1. turn' \in Turns
    BY <1>4 DEF BeginTurn, Turns
  <2>2. LeaseInv' /\ TurnInv' /\ lease' \in Leases /\ status' \in {"idle", "running", "error"}
    BY <1>2, <1>4 DEF BeginTurn, Room, LeaseInv, TurnInv, Leases, N
  <2> QED BY <1>2, <1>4, <2>1, <2>2, TypesPrimed DEF BeginTurn, budget
<1>5. CASE TurnDies
  <2>1. turn' \in Turns
    BY <1>5, BoundsAssumption DEF TurnDies, Turns, NoTurn, Untouched, Contents, Foreign
  <2>2. LeaseInv' /\ TurnInv'
    BY <1>2, <1>5 DEF TurnDies, LeaseInv, TurnInv, NoTurn
  <2>3. edited' \in SUBSET Files /\ faults' \in SUBSET FaultKinds
    BY <1>5 DEF TurnDies, Changed, Fault
  <2> QED BY <1>2, <1>5, <2>1, <2>2, <2>3, TypesPrimed DEF TurnDies
<1>6. CASE RecoverRoom
  <2>1. LeaseInv' /\ TurnInv' /\ lease' \in Leases /\ status' \in {"idle", "running", "error"}
    BY <1>2, <1>6 DEF RecoverRoom, LeaseInv, TurnInv, Leases, NoLease
  <2> QED BY <1>2, <1>6, <2>1, TypesPrimed DEF RecoverRoom, budget
<1>7. CASE LeaseExpires
  <2>1. LeaseInv' /\ TurnInv' /\ lease' \in Leases
    BY <1>2, <1>7 DEF LeaseExpires, LeaseInv, TurnInv, Leases
  <2>2. faults' \in SUBSET FaultKinds
    BY <1>7 DEF LeaseExpires, Fault
  <2> QED BY <1>2, <1>7, <2>1, <2>2, TypesPrimed DEF LeaseExpires
<1>8. ASSUME NEW f \in Files, TurnWrites(f) PROVE TypeInv'
  <2>1. LeaseInv' /\ TurnInv'
    BY <1>2, <1>8 DEF TurnWrites, LeaseInv, TurnInv
  <2>2. files' \in Contents
    BY <1>3, <1>8 DEF TurnWrites, Contents, New, N
  <2> QED BY <1>2, <1>8, <2>1, <2>2, TypesPrimed DEF TurnWrites, budget
<1>9. ASSUME NEW f \in Files, Edit(f) PROVE TypeInv'
  <2>1. LeaseInv' /\ TurnInv'
    BY <1>2, <1>9 DEF Edit, LeaseInv, TurnInv
  <2>2. files' \in Contents
    BY <1>3, <1>9 DEF Edit, Contents
  <2>3. edited' \in SUBSET Files /\ edits' \in 0..MaxEdits /\ faults' \in SUBSET FaultKinds
    BY <1>9, BoundsAssumption DEF Edit, Fault
  <2> QED BY <1>2, <1>9, <2>1, <2>2, <2>3, TypesPrimed DEF Edit
<1> QED BY <1>4, <1>5, <1>6, <1>7, <1>8, <1>9

\* The steps of a restore that change the record and perhaps the files.
LEMMA TypesOfRecord ==
    ASSUME TypeInv, UNCHANGED <<revisions, head, session, status, lease, turn, edits>>,
           restore' \in [Restores -> RestoreRecords],
           \A r \in Restores : RecordOK(restore'[r], revisions'),
           files' \in Contents, edited' \in SUBSET Files, faults' \in SUBSET FaultKinds
    PROVE  TypeInv'
<1> USE TypeFacts
<1>1. Tree(revisions)' /\ head' \in DOMAIN revisions' /\ N' = N
  BY DEF Tree, N
<1>2. LeaseInv' /\ TurnInv'
  BY <1>1 DEF LeaseInv, TurnInv
<1> QED BY <1>1, <1>2, TypesPrimed

\* A restore that starts over has a record without steps.
LEMMA FreshRecord ==
    ASSUME TypeInv
    PROVE  /\ NoRestore \in RestoreRecords /\ RecordOK(NoRestore, revisions)
           /\ \A pc \in {"ending", "gone"} :
                  /\ [NoRestore EXCEPT !.pc = pc] \in RestoreRecords
                  /\ \A g : Len(g) \in Nat => RecordOK([NoRestore EXCEPT !.pc = pc], g)
<1>1. <<>> \in Seq(Steps) /\ Len(<<>>) = 0
  OBVIOUS
<1>2. 0 \in 0..MaxRevisions
  BY BoundsAssumption
<1>3. NoRestore \in RestoreRecords
  BY <1>1, <1>2 DEF NoRestore, RestoreRecords
<1>4. ASSUME NEW g, Len(g) \in Nat, NEW rec, rec.steps = <<>>, rec.next = 1,
             rec.pc \in {"idle", "ending", "gone"}
      PROVE  RecordOK(rec, g)
  BY <1>4 DEF RecordOK, AtWorkPc
<1>5. \A pc \in {"ending", "gone"} :
          /\ [NoRestore EXCEPT !.pc = pc] \in RestoreRecords
          /\ [NoRestore EXCEPT !.pc = pc].steps = <<>>
          /\ [NoRestore EXCEPT !.pc = pc].next = 1
          /\ [NoRestore EXCEPT !.pc = pc].pc = pc
  BY <1>1, <1>2 DEF NoRestore, RestoreRecords
<1>6. RecordOK(NoRestore, revisions)
  <2>1. Len(revisions) \in Nat
    BY TypeFacts DEF N
  <2> QED BY <2>1, <1>4 DEF NoRestore
<1> QED BY <1>3, <1>4, <1>5, <1>6

LEMMA TypesStartRestore ==
    ASSUME TypeInv, NEW r \in Restores, NEW t \in DOMAIN revisions, NEW b \in {"before", "after"},
           StartRestore(r, t, b)
    PROVE  TypeInv'
<1> DEFINE rec == [NoRestore EXCEPT !.pc = "leased", !.turn = t, !.boundary = b]
<1> USE TypeFacts
<1>1. t \in 1..N /\ revisions' = revisions /\ Len(revisions') \in Nat /\ N <= Len(revisions')
      /\ \A i \in 1..N : revisions'[i] = revisions[i]
  BY DEF StartRestore, graph, N
<1>2. rec \in RestoreRecords
  <2>1. t \in 0..MaxRevisions
    BY <1>1
  <2>2. NoRestore \in RestoreRecords
    BY FreshRecord
  <2> QED BY <2>1, <2>2 DEF RestoreRecords
<1>3. RecordOK(rec, revisions')
  <2>1. rec.pc = "leased" /\ rec.turn = t /\ rec.steps = <<>> /\ rec.next = 1
    BY DEF NoRestore
  <2>2. t \in 1..Len(revisions') /\ revisions'[t].kind = "turn" /\ revisions'[t].completed
    BY <1>1 DEF StartRestore, N
  <2> HIDE DEF rec
  <2> QED BY <2>1, <2>2 DEF RecordOK, AtWorkPc
<1>4. restore' = [restore EXCEPT ![r] = rec]
  BY DEF StartRestore
<1>5. restore' \in [Restores -> RestoreRecords]
      /\ \A q \in Restores : RecordOK(restore'[q], revisions')
  <2> HIDE DEF rec
  <2> QED BY <1>1, <1>2, <1>3, <1>4, RecordChanges
<1>6. Tree(revisions)' /\ N' = N
  BY <1>1 DEF Tree, N
<1>7. LeaseInv' /\ TurnInv' /\ lease' \in Leases
  BY <1>6 DEF StartRestore, Room, LeaseInv, TurnInv, Leases, N
<1> QED BY <1>1, <1>5, <1>6, <1>7, TypesPrimed DEF StartRestore, graph, budget

\* What a plan needs of the graph.
LEMMA PlanTypes ==
    ASSUME TypeInv, NEW r \in Restores, restore[r].pc = "leased"
    PROVE  LET t == restore[r].turn
               target == IF restore[r].boundary = "before" THEN revisions[t].parent ELSE t
           IN  /\ t \in 1..N /\ revisions[t].kind = "turn" /\ revisions[t].completed
               /\ head \in 1..N /\ target \in 1..N
               /\ Plan(head, target) \in Seq(GraphSteps) /\ Plan(head, target) \in Seq(Steps)
               /\ Leads(revisions, Plan(head, target), head, target)
<1> DEFINE t == restore[r].turn
           target == IF restore[r].boundary = "before" THEN revisions[t].parent ELSE t
           steps == Plan(head, target)
<1>1. t \in 1..N /\ revisions[t].kind = "turn" /\ revisions[t].completed
  BY TypeFacts DEF RecordOK, N
<1>2. head \in 1..N /\ target \in 1..N /\ Tree(revisions)
  BY <1>1, TypeFacts, TreeTypes DEF N
<1> HIDE DEF target
<1>3. steps \in Seq(GraphSteps) /\ Leads(revisions, steps, head, target)
  BY <1>2, PlanLeads
<1>4. GraphSteps \subseteq Steps
  BY TypeFacts DEF GraphSteps, Steps, Ids
<1> HIDE DEF steps
<1>5. steps \in Seq(Steps)
  BY <1>3, <1>4
<1> QED BY <1>1, <1>2, <1>3, <1>5 DEF target, steps

LEMMA TypesPlanRestore ==
    ASSUME TypeInv, NEW r \in Restores, PlanRestore(r)
    PROVE  TypeInv'
<1> DEFINE t == restore[r].turn
           rev == revisions[t]
           before == restore[r].boundary = "before"
           target == IF before THEN rev.parent ELSE t
           context == IF before THEN rev.contextBefore ELSE rev.context
           rec == [restore[r] EXCEPT !.pc = "checking", !.source = head, !.target = target,
                                     !.steps = Plan(head, target), !.context = context]
<1> USE TypeFacts
<1>1. UNCHANGED <<revisions, head, session, status, lease, turn, edits, files, edited, faults>>
      /\ restore[r].pc = "leased"
  BY DEF PlanRestore, graph, budget
<1>2. CASE To(r, "ending")
  <2>1. restore' \in [Restores -> RestoreRecords]
        /\ \A q \in Restores : RecordOK(restore'[q], revisions')
    BY <1>1, <1>2, PcChanges DEF AtWorkPc
  <2> QED BY <1>1, <2>1, TypesOfRecord
<1>3. CASE restore' = [restore EXCEPT ![r] = rec]
  <2>1. /\ t \in 1..N /\ head \in 1..N /\ target \in 1..N
        /\ Plan(head, target) \in Seq(GraphSteps) /\ Plan(head, target) \in Seq(Steps)
    BY <1>1, PlanTypes
  <2>2. context \in 0..MaxRevisions
    <3>1. rev \in Revisions
      BY <2>1, TreeTypes DEF N
    <3> HIDE DEF rev
    <3> QED BY <3>1 DEF Revisions
  <2> HIDE DEF target, context
  <2>3. restore[r] \in RestoreRecords
    OBVIOUS
  <2>4. head \in 0..MaxRevisions /\ target \in 0..MaxRevisions
    BY <2>1
  <2>5. rec \in RestoreRecords
    BY <2>1, <2>2, <2>3, <2>4 DEF RestoreRecords
  <2>6. /\ rec.pc = "checking" /\ rec.source = head /\ rec.target = target
        /\ rec.steps = Plan(head, target) /\ rec.next = restore[r].next
    BY <2>3 DEF RestoreRecords
  <2> HIDE DEF rec
  <2>7. rec.next \in 1..(Len(rec.steps) + 1)
    <3>1. restore[r].next = 1 /\ Len(Plan(head, target)) \in Nat
      BY <1>1, <2>1 DEF RecordOK
    <3> QED BY <2>6, <3>1
  <2>8. RecordOK(rec, revisions')
    BY <1>1, <2>1, <2>6, <2>7 DEF RecordOK, GraphSteps, N
  <2>9. Len(revisions') \in Nat /\ N <= Len(revisions')
        /\ \A i \in 1..N : revisions'[i] = revisions[i]
    BY <1>1 DEF N
  <2>10. restore' \in [Restores -> RestoreRecords]
         /\ \A q \in Restores : RecordOK(restore'[q], revisions')
    BY <1>3, <2>5, <2>8, <2>9, RecordChanges
  <2> QED BY <1>1, <2>10, TypesOfRecord
<1> QED BY <1>2, <1>3 DEF PlanRestore

\* A step of a restore is about a revision of the graph.
LEMMA StepTypes ==
    ASSUME TypeInv, NEW r \in Restores, NEW k \in 1..Len(restore[r].steps)
    PROVE  /\ restore[r].steps[k] \in GraphSteps /\ restore[r].steps[k].revision \in 1..N
           /\ restore[r].steps[k].direction \in {"before", "after"}
           /\ revisions[restore[r].steps[k].revision] \in Revisions
           /\ revisions[restore[r].steps[k].revision].paths \in SUBSET Files
<1>1. restore[r].steps \in Seq(GraphSteps)
  BY TypeFacts DEF RecordOK, GraphSteps, N
<1>2. restore[r].steps[k] \in GraphSteps
  BY <1>1
<1>3. restore[r].steps[k].revision \in 1..N /\ restore[r].steps[k].direction \in {"before", "after"}
  BY <1>2 DEF GraphSteps
<1> QED BY <1>2, <1>3, TypeFacts, TreeTypes DEF N

LEMMA AppliedTypes ==
    ASSUME TypeInv, NEW s \in GraphSteps, NEW c \in Contents
    PROVE  Applied(s, c) \in Contents
<1>1. revisions[s.revision].before \in Contents /\ revisions[s.revision].after \in Contents
  BY TypeFacts, TreeTypes DEF GraphSteps, N
<1> QED BY <1>1 DEF Applied, Image, Contents

\* Its inverse too.
InverseStep(s) == [s EXCEPT !.direction = Opposite(@)]
LEMMA InverseTypes ==
    ASSUME NEW s \in GraphSteps
    PROVE  /\ InverseStep(s) \in GraphSteps /\ InverseStep(s).revision = s.revision
           /\ InverseStep(s).direction = Opposite(s.direction)
           /\ Opposite(InverseStep(s).direction) = s.direction
  BY DEF InverseStep, Opposite, GraphSteps

\* The position of a restore in its plan moves.
LEMMA NextChanges ==
    ASSUME TypeInv, UNCHANGED revisions, NEW r \in Restores, Planned(r),
           NEW pc \in AtWorkPc \ {"applying"}, NEW next \in 1..(Len(restore[r].steps) + 1),
           restore' = [restore EXCEPT ![r] = [restore[r] EXCEPT !.pc = pc, !.next = next]]
    PROVE  /\ restore' \in [Restores -> RestoreRecords]
           /\ \A q \in Restores : RecordOK(restore'[q], revisions')
<1> DEFINE old == restore[r]
           rec == [old EXCEPT !.pc = pc, !.next = next]
<1>1. old \in RestoreRecords /\ RecordOK(old, revisions) /\ Len(revisions) \in Nat
      /\ Len(old.steps) \in Nat
  BY TypeFacts DEF N, RestoreRecords
<1>2. rec \in RestoreRecords
  <2>1. next \in Nat
    BY <1>1
  <2> HIDE DEF old
  <2> QED BY <1>1, <2>1 DEF RestoreRecords, AtWorkPc
<1>3. RecordOK(rec, revisions')
  <2>1. /\ rec.steps = old.steps /\ rec.next = next /\ rec.pc = pc
        /\ rec.source = old.source /\ rec.target = old.target
    <3> HIDE DEF old
    <3> QED BY <1>1 DEF RestoreRecords
  <2>2. pc # "leased" /\ pc # "applying"
    BY DEF AtWorkPc
  <2>3. old.pc \in AtWorkPc
    BY DEF Planned
  <2> HIDE DEF rec
  <2> QED BY <1>1, <2>1, <2>2, <2>3 DEF RecordOK
<1>4. restore' = [restore EXCEPT ![r] = rec]
  OBVIOUS
<1>5. Len(revisions') \in Nat /\ N <= Len(revisions') /\ \A i \in 1..N : revisions'[i] = revisions[i]
  BY <1>1 DEF N
<1> HIDE DEF rec
<1> QED BY <1>2, <1>3, <1>4, <1>5, RecordChanges

LEMMA TypesCheckLease ==
    ASSUME TypeInv, NEW r \in Restores, CheckLease(r)
    PROVE  TypeInv'
<1> USE TypeFacts
<1>1. UNCHANGED <<revisions, head, session, status, lease, turn, edits, files, edited, faults>>
      /\ restore[r].pc = "checking" /\ Planned(r)
  BY DEF CheckLease, graph, budget, Planned, AtWorkPc
<1>2. PICK pc \in AtWorkPc : To(r, pc) /\ (pc = "applying" => restore[r].next <= Len(restore[r].steps))
  BY DEF CheckLease, AtWorkPc
<1>3. restore' \in [Restores -> RestoreRecords]
      /\ \A q \in Restores : RecordOK(restore'[q], revisions')
  BY <1>1, <1>2, PcChanges
<1> QED BY <1>1, <1>3, TypesOfRecord

LEMMA TypesForkThread ==
    ASSUME TypeInv, NEW r \in Restores, ForkThread(r)
    PROVE  TypeInv'
<1> USE TypeFacts
<1>1. UNCHANGED <<revisions, head, session, status, lease, turn, edits, files, edited, faults>>
      /\ Planned(r)
  BY DEF ForkThread, graph, budget, Planned, AtWorkPc
<1>2. PICK pc \in AtWorkPc : To(r, pc) /\ pc # "applying"
  BY DEF ForkThread, AtWorkPc
<1>3. restore' \in [Restores -> RestoreRecords]
      /\ \A q \in Restores : RecordOK(restore'[q], revisions')
  BY <1>1, <1>2, PcChanges
<1> QED BY <1>1, <1>3, TypesOfRecord

LEMMA TypesApplyStep ==
    ASSUME TypeInv, NEW r \in Restores, ApplyStep(r)
    PROVE  TypeInv'
<1> DEFINE step == restore[r].steps[restore[r].next]
<1> USE TypeFacts
<1>1. UNCHANGED <<revisions, head, session, status, lease, turn, edits, edited, faults>>
      /\ restore[r].pc = "applying" /\ Planned(r)
  BY DEF ApplyStep, graph, budget, Planned, AtWorkPc
<1>2. restore[r].next \in 1..Len(restore[r].steps) /\ Len(restore[r].steps) \in Nat
      /\ restore[r].next + 1 \in 1..(Len(restore[r].steps) + 1)
  BY <1>1 DEF RecordOK
<1>3. CASE files' = Applied(step, files)
           /\ restore' = [restore EXCEPT ![r].pc = "checking", ![r].next = @ + 1]
  <2>1. files' \in Contents
    BY <1>2, <1>3, StepTypes, AppliedTypes
  <2>2. restore' = [restore EXCEPT ![r] = [restore[r] EXCEPT !.pc = "checking",
                                                             !.next = restore[r].next + 1]]
    <3>1. restore[r] \in RestoreRecords
      OBVIOUS
    <3> QED BY <1>3, <3>1 DEF RestoreRecords
  <2>3. "checking" \in AtWorkPc \ {"applying"}
    BY DEF AtWorkPc
  <2>4. restore' \in [Restores -> RestoreRecords]
        /\ \A q \in Restores : RecordOK(restore'[q], revisions')
    BY <1>1, <1>2, <2>2, <2>3, NextChanges
  <2> QED BY <1>1, <2>1, <2>4, TypesOfRecord
<1>4. CASE To(r, "undoing") /\ UNCHANGED files
  <2>1. "undoing" \in AtWorkPc
    BY DEF AtWorkPc
  <2>2. restore' \in [Restores -> RestoreRecords]
        /\ \A q \in Restores : RecordOK(restore'[q], revisions')
    BY <1>1, <1>4, <2>1, PcChanges
  <2> QED BY <1>1, <1>4, <2>2, TypesOfRecord
<1> QED BY <1>3, <1>4 DEF ApplyStep

LEMMA TypesUndoStep ==
    ASSUME TypeInv, NEW r \in Restores, UndoStep(r)
    PROVE  TypeInv'
<1> DEFINE done == restore[r].next - 1
           inverse == InverseStep(restore[r].steps[done])
<1> USE TypeFacts
<1>1. UNCHANGED <<revisions, head, session, status, lease, turn, edits, edited, faults>>
      /\ restore[r].pc = "undoing" /\ Planned(r)
  BY DEF UndoStep, graph, budget, Planned, AtWorkPc
<1>2. restore[r].next \in 1..(Len(restore[r].steps) + 1) /\ Len(restore[r].steps) \in Nat
      /\ restore[r] \in RestoreRecords
  BY <1>1 DEF RecordOK
<1>3. CASE done > 0 /\ files' = Applied(inverse, files)
           /\ restore' = [restore EXCEPT ![r].next = @ - 1]
  <2>1. done \in 1..Len(restore[r].steps) /\ done \in 1..(Len(restore[r].steps) + 1)
    BY <1>2, <1>3
  <2>2. files' \in Contents
    <3>1. inverse \in GraphSteps
      BY <2>1, StepTypes, InverseTypes
    <3> HIDE DEF inverse
    <3> QED BY <1>3, <3>1, AppliedTypes
  <2>3. restore' = [restore EXCEPT ![r] = [restore[r] EXCEPT !.pc = "undoing", !.next = done]]
    BY <1>1, <1>2, <1>3 DEF RestoreRecords
  <2>4. "undoing" \in AtWorkPc \ {"applying"}
    BY DEF AtWorkPc
  <2>5. restore' \in [Restores -> RestoreRecords]
        /\ \A q \in Restores : RecordOK(restore'[q], revisions')
    <3> HIDE DEF done
    <3> QED BY <1>1, <2>1, <2>3, <2>4, NextChanges
  <2> QED BY <1>1, <2>2, <2>5, TypesOfRecord
<1>4. CASE To(r, "ending") /\ UNCHANGED files
  <2>1. "ending" \notin AtWorkPc
    BY DEF AtWorkPc
  <2>2. restore' \in [Restores -> RestoreRecords]
        /\ \A q \in Restores : RecordOK(restore'[q], revisions')
    BY <1>1, <1>4, <2>1, PcChanges
  <2> QED BY <1>1, <1>4, <2>2, TypesOfRecord
<1> QED BY <1>3, <1>4 DEF UndoStep, InverseStep

LEMMA TypesEndRestore ==
    ASSUME TypeInv, NEW r \in Restores, EndRestore(r)
    PROVE  TypeInv'
<1> USE TypeFacts
<1>1. UNCHANGED <<revisions, head, session, status, turn, edits, files, edited, faults>>
  BY DEF EndRestore, graph, budget
<1>2. restore' \in [Restores -> RestoreRecords]
      /\ \A q \in Restores : RecordOK(restore'[q], revisions')
  <2>1. NoRestore \in RestoreRecords /\ RecordOK(NoRestore, revisions')
    BY <1>1, FreshRecord
  <2>2. restore' = [restore EXCEPT ![r] = NoRestore]
    BY DEF EndRestore
  <2>3. Len(revisions') \in Nat /\ N <= Len(revisions')
        /\ \A i \in 1..N : revisions'[i] = revisions[i]
    BY <1>1 DEF N
  <2> QED BY <2>1, <2>2, <2>3, RecordChanges
<1>3. Tree(revisions)' /\ N' = N /\ head' \in DOMAIN revisions'
  BY <1>1 DEF Tree, N
<1>4. LeaseInv' /\ TurnInv' /\ lease' \in Leases
  BY <1>1, <1>3 DEF EndRestore, LeaseInv, TurnInv, Leases, NoLease
<1> QED BY <1>1, <1>2, <1>3, <1>4, TypesPrimed

LEMMA TypesRestoreDies ==
    ASSUME TypeInv, NEW r \in Restores, RestoreDies(r)
    PROVE  TypeInv'
<1> USE TypeFacts
<1>1. UNCHANGED <<revisions, head, session, status, lease, turn, edits, files>>
  BY DEF RestoreDies, graph
<1>2. restore' \in [Restores -> RestoreRecords]
      /\ \A q \in Restores : RecordOK(restore'[q], revisions')
  <2> DEFINE rec == [NoRestore EXCEPT !.pc = "gone"]
  <2>1. rec \in RestoreRecords /\ RecordOK(rec, revisions')
    BY <1>1, FreshRecord DEF N
  <2>2. restore' = [restore EXCEPT ![r] = rec]
    BY DEF RestoreDies
  <2>3. Len(revisions') \in Nat /\ N <= Len(revisions')
        /\ \A i \in 1..N : revisions'[i] = revisions[i]
    BY <1>1 DEF N
  <2> HIDE DEF rec
  <2> QED BY <2>1, <2>2, <2>3, RecordChanges
<1>3. edited' \in SUBSET Files
  <2>1. ASSUME NEW k \in 1..(restore[r].next - 1)
        PROVE  revisions[restore[r].steps[k].revision].paths \in SUBSET Files
    <3>1. k \in 1..Len(restore[r].steps)
      BY <2>1 DEF RecordOK
    <3> QED BY <3>1, StepTypes
  <2> QED BY <2>1 DEF RestoreDies
<1>4. faults' \in SUBSET FaultKinds
  BY DEF RestoreDies, Fault
<1> QED BY <1>1, <1>2, <1>3, <1>4, TypesOfRecord

\* A transaction that adds a revision.
LEMMA Grows ==
    ASSUME TypeInv, lease.live, NEW x \in Revisions, x.parent \in 1..N,
           x.kind \in {"turn", "restore"}, x.kind # "turn" => x.paths = {},
           revisions' = Append(revisions, x)
    PROVE  /\ Tree(revisions') /\ N' = N + 1 /\ Len(revisions') = N + 1 /\ N + 1 \in DOMAIN revisions'
           /\ revisions'[N + 1] = x /\ N + 1 \in 1..MaxRevisions
           /\ \A i \in 1..N : revisions'[i] = revisions[i]
           /\ \A i \in 0..N : /\ ContentOf'[i] = ContentOf[i]
                              /\ ContextOf'[i] = ContextOf[i]
           /\ ContentOf'[N + 1] = Grown(x, ContentOf[x.parent])
           /\ ContextOf'[N + 1] = IF x.kind = "turn" /\ x.completed THEN N + 1
                                  ELSE ContextOf[x.parent]
<1>1. Tree(revisions) /\ Len(revisions) = N /\ N < MaxRevisions /\ N \in Nat
  BY TypeFacts DEF N, LeaseInv
<1>2. Extends(revisions, revisions', x)
  BY <1>1, AppendExtends
<1>3. Tree(revisions') /\ Len(revisions') = N + 1
  BY <1>1, <1>2 DEF Extends
<1>4. N + 1 \in DOMAIN revisions' /\ N + 1 \in 1..MaxRevisions /\ N' = N + 1
  BY <1>1, <1>3, TreeTypes, BoundsAssumption DEF N
<1> QED BY <1>1, <1>2, <1>4, InGraph DEF Extends

\* The revision that a turn adds.
TurnRevision(completed, ready) ==
    [parent |-> turn.parent, kind |-> "turn", completed |-> completed,
     traversable |-> ready, paths |-> Changed, before |-> turn.base, after |-> files,
     context |-> IF completed THEN New ELSE session, contextBefore |-> turn.session]

LEMMA EndTurnGrows ==
    ASSUME TypeInv, NEW completed \in BOOLEAN, NEW ready \in BOOLEAN, EndTurn(completed, ready)
    PROVE  LET x == TurnRevision(completed, ready) IN
           /\ x \in Revisions /\ x.parent \in 1..N /\ x.parent = head /\ turn.parent = head
           /\ lease.live
           /\ revisions' = Append(revisions, x) /\ head' = N + 1
           /\ session' = IF completed THEN N + 1 ELSE session
<1> USE TypeFacts
<1>1. turn \in Turns /\ turn.parent \in 1..N /\ turn.parent = head /\ lease.live
  BY DEF EndTurn, Holds, TurnInv
<1>2. N + 1 \in 0..MaxRevisions /\ New = N + 1
  BY <1>1 DEF LeaseInv, New, N
<1>3. Changed \in SUBSET Files
  BY DEF Changed
<1>4. TurnRevision(completed, ready) \in Revisions
  BY <1>1, <1>2, <1>3 DEF TurnRevision, Revisions, Turns
<1>5. TurnRevision(completed, ready).parent = turn.parent
  BY DEF TurnRevision
<1> QED BY <1>1, <1>2, <1>4, <1>5 DEF EndTurn, TurnRevision

LEMMA TypesEndTurn ==
    ASSUME TypeInv, EndTurnSomehow
    PROVE  TypeInv'
<1>1. PICK completed \in BOOLEAN, ready \in BOOLEAN : EndTurn(completed, ready)
  BY DEF EndTurnSomehow
<1> DEFINE x == TurnRevision(completed, ready)
<1>2. /\ x \in Revisions /\ x.parent \in 1..N /\ lease.live
      /\ revisions' = Append(revisions, x) /\ head' = N + 1
      /\ session' = IF completed THEN N + 1 ELSE session
  BY <1>1, EndTurnGrows
<1>3. x.kind = "turn"
  BY DEF TurnRevision
<1> HIDE DEF x
<1>4. /\ Tree(revisions') /\ N' = N + 1 /\ Len(revisions') = N + 1 /\ N + 1 \in DOMAIN revisions'
      /\ N + 1 \in 1..MaxRevisions /\ \A i \in 1..N : revisions'[i] = revisions[i]
  BY <1>2, <1>3, Grows
<1>5. /\ N \in Nat /\ session' \in 0..MaxRevisions /\ restore' = restore
      /\ restore \in [Restores -> RestoreRecords]
      /\ \A r \in Restores : RecordOK(restore[r], revisions)
  BY <1>1, <1>2, <1>4, TypeFacts DEF EndTurn
<1>6. \A r \in Restores : RecordOK(restore'[r], revisions')
  BY <1>4, <1>5, RecordsStay DEF N
<1>7. lease' \in Leases /\ turn' \in Turns /\ LeaseInv' /\ TurnInv'
      /\ status' \in {"idle", "running", "error"}
  BY <1>1, BoundsAssumption DEF EndTurn, NoLease, NoTurn, Leases, Turns, LeaseInv, TurnInv,
     Untouched, Contents, Foreign
<1>8. files' \in Contents /\ edited' \in SUBSET Files /\ edits' \in 0..MaxEdits
      /\ faults' \in SUBSET FaultKinds
  BY <1>1, TypeFacts DEF EndTurn, budget
<1>9. Tree(revisions)' /\ head' \in DOMAIN revisions' /\ restore' \in [Restores -> RestoreRecords]
  BY <1>2, <1>4, <1>5 DEF Tree
<1> QED BY <1>5, <1>6, <1>7, <1>8, <1>9, TypesPrimed

\* The revision that a restore adds.
RestoreRevision(r) ==
    [Root EXCEPT !.kind = "restore", !.parent = restore[r].target, !.context = restore[r].context]

LEMMA CommittedGrows ==
    ASSUME TypeInv, NEW r \in Restores, Planned(r), CanCommit(r), Committed(r)
    PROVE  LET x == RestoreRevision(r) IN
           /\ x \in Revisions /\ x.parent \in 1..N /\ x.parent = restore[r].target
           /\ x.kind = "restore" /\ x.paths = {} /\ lease.live
           /\ revisions' = Append(revisions, x) /\ head' = N + 1
           /\ session' = restore[r].context
<1> USE TypeFacts
<1>1. restore[r].target \in 1..N /\ restore[r] \in RestoreRecords
  BY DEF RecordOK, Planned, N
<1>2. restore[r].target \in 0..MaxRevisions /\ restore[r].context \in 0..MaxRevisions
  BY <1>1 DEF RestoreRecords
<1>3. Root \in Revisions
  BY DEF Root, Revisions, Untouched, Contents, Foreign
<1>4. RestoreRevision(r) \in Revisions
  BY <1>2, <1>3 DEF RestoreRevision, Revisions
<1>5. /\ RestoreRevision(r).parent = restore[r].target
      /\ RestoreRevision(r).kind = "restore" /\ RestoreRevision(r).paths = {}
  BY DEF RestoreRevision, Root
<1>6. lease.live
  BY DEF CanCommit, Holds
<1> QED BY <1>1, <1>4, <1>5, <1>6 DEF Committed, RestoreRevision, New, N

\* Both commits of a restore, with the record that it leaves.
LEMMA TypesCommitted ==
    ASSUME TypeInv, NEW r \in Restores, Planned(r), CanCommit(r), Committed(r),
           NEW rec \in RestoreRecords, RecordOK(rec, revisions) \/ RecordOK(rec, revisions'),
           restore' = [restore EXCEPT ![r] = rec],
           UNCHANGED <<files, turn, edited, edits>>, faults' \in SUBSET FaultKinds
    PROVE  TypeInv'
<1> DEFINE x == RestoreRevision(r)
<1>1. /\ x \in Revisions /\ x.parent \in 1..N /\ x.kind = "restore" /\ x.paths = {} /\ lease.live
      /\ revisions' = Append(revisions, x) /\ head' = N + 1 /\ session' = restore[r].context
  BY CommittedGrows
<1> HIDE DEF x
<1>2. /\ Tree(revisions') /\ N' = N + 1 /\ Len(revisions') = N + 1 /\ N + 1 \in DOMAIN revisions'
      /\ N + 1 \in 1..MaxRevisions /\ \A i \in 1..N : revisions'[i] = revisions[i]
  BY <1>1, Grows
<1>3. N \in Nat /\ restore[r] \in RestoreRecords
  BY TypeFacts
<1>4. session' \in 0..MaxRevisions
  BY <1>1, <1>3 DEF RestoreRecords
<1>5. Len(revisions') \in Nat /\ N <= Len(revisions') /\ Len(revisions) \in Nat
      /\ Len(revisions) <= Len(revisions')
  BY <1>2, <1>3 DEF N
<1>6. RecordOK(rec, revisions')
  BY <1>2, <1>5, RecordsStay DEF N
<1>7. restore' \in [Restores -> RestoreRecords]
      /\ \A q \in Restores : RecordOK(restore'[q], revisions')
  BY <1>2, <1>5, <1>6, RecordChanges
<1>8. lease' \in Leases /\ LeaseInv' /\ status' \in {"idle", "running", "error"}
  BY DEF Committed, NoLease, Leases, LeaseInv
<1>9. TurnInv'
  BY <1>2, <1>3, TypeFacts DEF TurnInv
<1>10. Tree(revisions)' /\ head' \in DOMAIN revisions'
  BY <1>1, <1>2 DEF Tree
<1>11. files' \in Contents /\ turn' \in Turns /\ edited' \in SUBSET Files /\ edits' \in 0..MaxEdits
  BY TypeFacts
<1> QED BY <1>4, <1>7, <1>8, <1>9, <1>10, <1>11, TypesPrimed

LEMMA TypesCommitRestore ==
    ASSUME TypeInv, NEW r \in Restores, CommitRestore(r)
    PROVE  TypeInv'
<1>1. Planned(r) /\ UNCHANGED <<files, turn, edited, edits, faults>> /\ restore[r].pc = "committing"
  BY DEF CommitRestore, Planned, AtWorkPc, budget
<1>2. faults' \in SUBSET FaultKinds
  BY <1>1, TypeFacts
<1>3. CASE CanCommit(r) /\ Committed(r)
           /\ restore' = [restore EXCEPT ![r] = [NoRestore EXCEPT !.pc = "ending"]]
  <2> DEFINE rec == [NoRestore EXCEPT !.pc = "ending"]
  <2>1. rec \in RestoreRecords /\ RecordOK(rec, revisions)
    BY FreshRecord, TypeFacts DEF N
  <2> HIDE DEF rec
  <2>2. restore' = [restore EXCEPT ![r] = rec]
    BY <1>3 DEF rec
  <2> QED BY <1>1, <1>2, <1>3, <2>1, <2>2, TypesCommitted
<1>4. CASE To(r, "undoing") /\ UNCHANGED <<graph, status, lease>>
  <2>1. UNCHANGED <<revisions, head, session, status, lease>>
    BY <1>4 DEF graph
  <2>2. "undoing" \in AtWorkPc
    BY DEF AtWorkPc
  <2>3. restore' \in [Restores -> RestoreRecords]
        /\ \A q \in Restores : RecordOK(restore'[q], revisions')
    BY <1>1, <1>4, <2>1, <2>2, PcChanges
  <2>4. files' \in Contents /\ edited' \in SUBSET Files
    BY <1>1, TypeFacts
  <2> QED BY <1>1, <1>2, <2>1, <2>3, <2>4, TypesOfRecord
<1> QED BY <1>3, <1>4 DEF CommitRestore

LEMMA TypesCommitUnacknowledged ==
    ASSUME TypeInv, NEW r \in Restores, CommitUnacknowledged(r)
    PROVE  TypeInv'
<1> DEFINE rec == [restore[r] EXCEPT !.pc = "undoing"]
<1>1. Planned(r) /\ CanCommit(r) /\ Committed(r) /\ UNCHANGED <<files, turn, edited, edits>>
  BY DEF CommitUnacknowledged, Planned, AtWorkPc
<1>2. faults' \in SUBSET FaultKinds
  BY TypeFacts DEF CommitUnacknowledged, Fault
<1>3. restore[r] \in RestoreRecords /\ RecordOK(restore[r], revisions)
  BY TypeFacts
<1>4. rec \in RestoreRecords
  BY <1>3 DEF RestoreRecords
<1>5. RecordOK(rec, revisions)
  <2>1. /\ rec.steps = restore[r].steps /\ rec.next = restore[r].next /\ rec.pc = "undoing"
        /\ rec.source = restore[r].source /\ rec.target = restore[r].target
    BY <1>3 DEF RestoreRecords
  <2>2. restore[r].pc \in AtWorkPc
    BY <1>1 DEF Planned
  <2> HIDE DEF rec
  <2> QED BY <1>3, <2>1, <2>2 DEF RecordOK
<1>6. restore' = [restore EXCEPT ![r] = rec]
  BY DEF CommitUnacknowledged, To
<1> HIDE DEF rec
<1> QED BY <1>1, <1>2, <1>4, <1>5, <1>6, TypesCommitted

LEMMA TypesInit == Init => TypeInv
<1> SUFFICES ASSUME Init PROVE TypeInv
  OBVIOUS
<1>1. Untouched \in Contents /\ 0 \in 0..MaxRevisions /\ 1 \in 1..MaxRevisions
  BY BoundsAssumption DEF Untouched, Contents, Foreign
<1>2. Root \in Revisions
  BY <1>1 DEF Root, Revisions
<1>3. revisions \in Seq(Revisions) /\ Len(revisions) = 1 /\ revisions[1] = Root
      /\ DOMAIN revisions = 1..1
  BY <1>2 DEF Init
<1>4. Tree(revisions)
  <2>1. Root.parent = 0 /\ Root.kind = "root" /\ Root.paths = {}
    BY DEF Root
  <2>2. \A r \in 1..1 : r = 1 /\ 0 \in 0..(r - 1)
    OBVIOUS
  <2> QED BY <1>1, <1>3, <2>1, <2>2 DEF Tree
<1>5. LeaseInv /\ TurnInv
  BY DEF Init, LeaseInv, TurnInv, NoLease, NoTurn
<1>6. \A r \in Restores : RestoreOK(r)
  <2> TAKE r \in Restores
  <2>1. restore[r].steps = <<>> /\ restore[r].next = 1 /\ restore[r].pc = "idle"
    BY DEF Init, NoRestore
  <2> QED BY <1>3, <2>1 DEF RestoreOK, RecordOK, AtWorkPc
<1>7. NoRestore \in RestoreRecords
  <2>1. <<>> \in Seq(Steps)
    OBVIOUS
  <2> QED BY <1>1, <2>1 DEF NoRestore, RestoreRecords
<1>8. TypeOK
  <2>1. restore \in [Restores -> RestoreRecords]
    BY <1>7 DEF Init
  <2>2. lease \in Leases /\ turn \in Turns
    BY <1>1 DEF Init, NoLease, Leases, NoTurn, Turns
  <2>3. edits \in 0..MaxEdits /\ edited \subseteq Files /\ faults \subseteq FaultKinds
        /\ status \in {"idle", "running", "error"} /\ session \in 0..MaxRevisions
        /\ files \in Contents /\ head \in DOMAIN revisions
    BY <1>1, <1>3, BoundsAssumption DEF Init
  <2> QED BY <1>3, <2>1, <2>2, <2>3 DEF TypeOK, RestoreRecords, Leases, Turns
<1> QED BY <1>4, <1>5, <1>6, <1>8 DEF TypeInv

LEMMA TypesStay == TypeInv /\ [Next]_vars => TypeInv'
<1> SUFFICES ASSUME TypeInv, [Next]_vars PROVE TypeInv'
  OBVIOUS
<1>1. ASSUME BeginTurn \/ TurnDies \/ RecoverRoom \/ LeaseExpires
             \/ \E f \in Files : TurnWrites(f) \/ Edit(f)
      PROVE  TypeInv'
  BY <1>1, TypesWithoutRestore
<1>2. CASE EndTurnSomehow
  BY <1>2, TypesEndTurn
<1>3. ASSUME NEW r \in Restores,
             \/ \E t \in DOMAIN revisions, b \in {"before", "after"} : StartRestore(r, t, b)
             \/ RestoreStep(r) \/ CommitUnacknowledged(r) \/ RestoreDies(r)
      PROVE  TypeInv'
  BY <1>3, TypesStartRestore, TypesPlanRestore, TypesCheckLease, TypesApplyStep,
     TypesForkThread, TypesCommitRestore, TypesUndoStep, TypesEndRestore,
     TypesCommitUnacknowledged, TypesRestoreDies DEF RestoreStep
<1>4. CASE UNCHANGED vars
  <2>1. UNCHANGED <<revisions, head, session, status, lease, turn, edits, restore, files,
                    edited, faults>>
    BY <1>4 DEF vars
  <2> QED BY <2>1, TypeFacts, TypesOfRecord
<1> QED BY <1>1, <1>2, <1>3, <1>4 DEF Next

\* Every variable keeps its type, whatever fails: the graph stays a tree with room for
\* the revision of whoever holds the lease, and a restore stays inside its plan.
THEOREM TypesHold == Spec => []TypeOK
<1>1. TypeInv => TypeOK
  BY DEF TypeInv
<1> QED BY <1>1, TypesInit, TypesStay, PTL DEF Spec

(***************************************************************************)
(* The backend context                                                     *)
(***************************************************************************)
LEMMA GraphSame ==
    ASSUME UNCHANGED revisions
    PROVE  N' = N /\ ContentOf' = ContentOf /\ ContextOf' = ContextOf
  BY InGraph DEF N

\* How a step of a restore leaves its record: where it stands changes, and what it
\* wants does not.
Continues(r) ==
    \E rec \in RestoreRecords :
        /\ restore' = [restore EXCEPT ![r] = rec]
        /\ rec.pc \in AtWorkPc =>
               /\ Planned(r) /\ rec.steps = restore[r].steps /\ rec.source = restore[r].source
               /\ rec.target = restore[r].target /\ rec.context = restore[r].context

LEMMA ToContinues ==
    ASSUME TypeInv, NEW r \in Restores, NEW pc \in AtWorkPc \union {"ending"},
           pc \in AtWorkPc => Planned(r), To(r, pc)
    PROVE  Continues(r) /\ restore'[r].pc = pc
<1> DEFINE rec == [restore[r] EXCEPT !.pc = pc]
<1>1. restore[r] \in RestoreRecords /\ restore \in [Restores -> RestoreRecords]
  BY TypeFacts
<1>2. rec \in RestoreRecords /\ rec.pc = pc /\ rec.steps = restore[r].steps
      /\ rec.source = restore[r].source /\ rec.target = restore[r].target
      /\ rec.context = restore[r].context
  BY <1>1 DEF RestoreRecords, AtWorkPc
<1>3. restore' = [restore EXCEPT ![r] = rec]
  BY DEF To
<1> HIDE DEF rec
<1>4. restore'[r] = rec
  BY <1>1, <1>3
<1> QED BY <1>2, <1>3, <1>4 DEF Continues

\* Which steps of a restore those are.
LEMMA StepsContinue ==
    ASSUME TypeInv, NEW r \in Restores,
           CheckLease(r) \/ ApplyStep(r) \/ ForkThread(r) \/ UndoStep(r)
           \/ EndRestore(r) \/ RestoreDies(r)
    PROVE  Continues(r)
<1>1. restore[r] \in RestoreRecords
  BY TypeFacts
<1>2. CASE CheckLease(r) \/ ForkThread(r)
  <2>1. PICK pc \in AtWorkPc : To(r, pc) /\ Planned(r)
    BY <1>2 DEF CheckLease, ForkThread, AtWorkPc, Planned
  <2> QED BY <2>1, ToContinues
<1>3. CASE ApplyStep(r)
  <2>1. Planned(r)
    BY <1>3 DEF ApplyStep, Planned, AtWorkPc
  <2>2. CASE restore' = [restore EXCEPT ![r].pc = "checking", ![r].next = @ + 1]
    <3> DEFINE old == restore[r]
               next == old.next + 1
               rec == [old EXCEPT !.pc = "checking", !.next = next]
    <3>1. rec \in RestoreRecords /\ rec.steps = restore[r].steps
          /\ rec.source = restore[r].source /\ rec.target = restore[r].target
          /\ rec.context = restore[r].context
      <4>1. old \in RestoreRecords /\ next \in Nat
        BY <1>1 DEF RestoreRecords
      <4> HIDE DEF old, next
      <4>2. rec \in RestoreRecords
        BY <4>1 DEF RestoreRecords
      <4>3. rec.steps = old.steps /\ rec.source = old.source /\ rec.target = old.target
            /\ rec.context = old.context
        BY <4>1 DEF RestoreRecords
      <4> QED BY <4>2, <4>3 DEF old
    <3>2. restore' = [restore EXCEPT ![r] = rec]
      BY <1>1, <2>2 DEF RestoreRecords
    <3> HIDE DEF rec
    <3> QED BY <2>1, <3>1, <3>2 DEF Continues
  <2>3. CASE To(r, "undoing")
    BY <2>1, <2>3, ToContinues DEF AtWorkPc
  <2> QED BY <1>3, <2>2, <2>3 DEF ApplyStep
<1>4. CASE UndoStep(r)
  <2>1. Planned(r)
    BY <1>4 DEF UndoStep, Planned, AtWorkPc
  <2>2. CASE restore' = [restore EXCEPT ![r].next = @ - 1] /\ restore[r].next - 1 > 0
    <3> DEFINE rec == [restore[r] EXCEPT !.next = @ - 1]
    <3>1. rec \in RestoreRecords /\ rec.steps = restore[r].steps
          /\ rec.source = restore[r].source /\ rec.target = restore[r].target
          /\ rec.context = restore[r].context
      BY <1>1, <2>2 DEF RestoreRecords
    <3>2. restore' = [restore EXCEPT ![r] = rec]
      BY <2>2
    <3> HIDE DEF rec
    <3> QED BY <2>1, <3>1, <3>2 DEF Continues
  <2>3. CASE To(r, "ending")
    BY <2>1, <2>3, ToContinues
  <2> QED BY <1>4, <2>2, <2>3 DEF UndoStep
<1>5. CASE EndRestore(r)
  <2>1. NoRestore \in RestoreRecords /\ NoRestore.pc \notin AtWorkPc
    BY FreshRecord DEF NoRestore, AtWorkPc
  <2> QED BY <1>5, <2>1 DEF EndRestore, Continues
<1>6. CASE RestoreDies(r)
  <2> DEFINE rec == [NoRestore EXCEPT !.pc = "gone"]
  <2>1. rec \in RestoreRecords
    BY FreshRecord
  <2>2. rec.pc \notin AtWorkPc
    BY DEF NoRestore, AtWorkPc
  <2>3. restore' = [restore EXCEPT ![r] = rec]
    BY <1>6 DEF RestoreDies
  <2> HIDE DEF rec
  <2> QED BY <2>1, <2>2, <2>3 DEF Continues
<1> QED BY <1>2, <1>3, <1>4, <1>5, <1>6

ContextOK(rec, x) == rec.pc \in AtWorkPc => rec.context = x[rec.target]

LEMMA ContextFacts ==
    ASSUME ContextInv
    PROVE  /\ session = ContextOf[head]
           /\ turn.on => turn.session = ContextOf[turn.parent]
           /\ RevisionContexts
           /\ \A r \in Restores : ContextOK(restore[r], ContextOf)
  BY DEF ContextInv, ContextOK, Planned

LEMMA ContextPrimed ==
    ASSUME session' = ContextOf'[head'],
           turn'.on => turn'.session = ContextOf'[turn'.parent],
           RevisionContexts', \A r \in Restores : ContextOK(restore'[r], ContextOf')
    PROVE  ContextInv'
  BY DEF ContextInv, ContextOK, Planned

\* While the graph and the turn stay, only a new plan counts.
LEMMA ContextOfRecord ==
    ASSUME TypeInv, ContextInv, UNCHANGED <<revisions, head, session>>,
           turn' = turn \/ ~turn'.on,
           \A q \in Restores : ContextOK(restore'[q], ContextOf)
    PROVE  ContextInv'
<1>1. N' = N /\ ContextOf' = ContextOf
  BY GraphSame
<1>2. RevisionContexts'
  BY <1>1, ContextFacts DEF RevisionContexts
<1> QED BY <1>1, <1>2, ContextFacts, ContextPrimed

LEMMA ContextContinues ==
    ASSUME TypeInv, ContextInv, NEW r \in Restores, Continues(r)
    PROVE  \A q \in Restores : ContextOK(restore'[q], ContextOf)
<1>1. PICK rec \in RestoreRecords :
        /\ restore' = [restore EXCEPT ![r] = rec]
        /\ rec.pc \in AtWorkPc => /\ Planned(r) /\ rec.target = restore[r].target
                                  /\ rec.context = restore[r].context
  BY DEF Continues
<1>2. ContextOK(rec, ContextOf)
  BY <1>1, ContextFacts DEF ContextOK, Planned
<1>3. restore \in [Restores -> RestoreRecords]
  BY TypeFacts
<1> QED BY <1>1, <1>2, <1>3, ContextFacts

LEMMA ContextEndTurn ==
    ASSUME TypeInv, ContextInv, EndTurnSomehow
    PROVE  ContextInv'
<1>1. PICK completed \in BOOLEAN, ready \in BOOLEAN : EndTurn(completed, ready)
  BY DEF EndTurnSomehow
<1> DEFINE x == TurnRevision(completed, ready)
<1>2. /\ x \in Revisions /\ x.parent \in 1..N /\ x.parent = head /\ turn.parent = head /\ lease.live
      /\ revisions' = Append(revisions, x) /\ head' = N + 1
      /\ session' = IF completed THEN N + 1 ELSE session
  BY <1>1, EndTurnGrows
<1>3. /\ x.kind = "turn" /\ x.completed = completed /\ x.contextBefore = turn.session
      /\ x.context = IF completed THEN N + 1 ELSE session
  BY DEF TurnRevision, New, N
<1>4. turn.on /\ restore' = restore /\ ~turn'.on
  BY <1>1 DEF EndTurn, NoTurn
<1> HIDE DEF x
<1>5. /\ N' = N + 1 /\ revisions'[N + 1] = x /\ \A i \in 1..N : revisions'[i] = revisions[i]
      /\ \A i \in 0..N : ContextOf'[i] = ContextOf[i]
      /\ ContextOf'[N + 1] = IF completed THEN N + 1 ELSE ContextOf[head]
      /\ \A i \in 1..N : revisions[i].parent \in 0..N /\ N \in Nat
  <2>1. /\ N' = N + 1 /\ revisions'[N + 1] = x /\ \A i \in 1..N : revisions'[i] = revisions[i]
        /\ \A i \in 0..N : ContextOf'[i] = ContextOf[i]
        /\ ContextOf'[N + 1] = IF x.kind = "turn" /\ x.completed THEN N + 1
                               ELSE ContextOf[x.parent]
    BY <1>2, <1>3, Grows
  <2>2. \A i \in 1..N : revisions[i].parent \in 0..N
    BY TypeFacts, TreeTypes DEF N
  <2> QED BY <1>2, <1>3, <2>1, <2>2, TypeFacts
<1>6. session = ContextOf[head] /\ turn.session = ContextOf[head]
  BY <1>2, <1>4, ContextFacts
<1>7. session' = ContextOf'[head']
  BY <1>2, <1>5, <1>6
<1>8. RevisionContexts'
  <2> SUFFICES ASSUME NEW i \in 1..(N + 1), revisions'[i].kind = "turn"
               PROVE  /\ revisions'[i].context = ContextOf'[i]
                      /\ revisions'[i].contextBefore = ContextOf'[revisions'[i].parent]
    BY <1>5 DEF RevisionContexts
  <2>1. CASE i = N + 1
    <3>1. x.parent \in 0..N
      BY <1>2, TypeFacts
    <3>2. revisions'[i] = x /\ ContextOf'[x.parent] = ContextOf[x.parent]
      BY <1>5, <2>1, <3>1
    <3>3. x.contextBefore = ContextOf'[x.parent]
      BY <1>2, <1>3, <1>6, <3>2
    <3>4. x.context = ContextOf'[i]
      BY <1>2, <1>3, <1>5, <1>6, <2>1
    <3> QED BY <3>2, <3>3, <3>4
  <2>2. CASE i # N + 1
    <3>1. i \in 1..N /\ i \in 0..N
      BY <1>5, <2>2, TypeFacts
    <3> QED BY <1>5, <3>1, ContextFacts DEF RevisionContexts
  <2> QED BY <2>1, <2>2
<1>9. ASSUME NEW q \in Restores PROVE ContextOK(restore'[q], ContextOf')
  <2>1. restore[q].pc \in AtWorkPc => restore[q].target \in 0..N
    BY TypeFacts DEF RecordOK, N
  <2> QED BY <1>4, <1>5, <2>1, ContextFacts DEF ContextOK
<1> QED BY <1>4, <1>7, <1>8, <1>9, ContextPrimed

LEMMA ContextCommitted ==
    ASSUME TypeInv, ContextInv, NEW r \in Restores, Planned(r), CanCommit(r), Committed(r),
           UNCHANGED turn, Continues(r)
    PROVE  ContextInv'
<1> DEFINE x == RestoreRevision(r)
<1>1. /\ x \in Revisions /\ x.parent \in 1..N /\ x.parent = restore[r].target
      /\ x.kind = "restore" /\ x.paths = {} /\ lease.live
      /\ revisions' = Append(revisions, x) /\ head' = N + 1 /\ session' = restore[r].context
  BY CommittedGrows
<1> HIDE DEF x
<1>2. /\ N' = N + 1 /\ revisions'[N + 1] = x /\ \A i \in 1..N : revisions'[i] = revisions[i]
      /\ \A i \in 0..N : ContextOf'[i] = ContextOf[i]
      /\ ContextOf'[N + 1] = ContextOf[restore[r].target]
  BY <1>1, Grows
<1>3. \A i \in 1..N : revisions[i].parent \in 0..N
  BY TypeFacts, TreeTypes DEF N
<1>4. session' = ContextOf'[head']
  BY <1>1, <1>2, ContextFacts DEF ContextOK, Planned
<1>5. turn'.on => turn'.session = ContextOf'[turn'.parent]
  <2>1. turn.on => turn.parent \in 0..N
    BY TypeFacts DEF TurnInv
  <2> QED BY <1>2, <2>1, ContextFacts
<1>6. RevisionContexts'
  <2> SUFFICES ASSUME NEW i \in 1..(N + 1), revisions'[i].kind = "turn"
               PROVE  /\ revisions'[i].context = ContextOf'[i]
                      /\ revisions'[i].contextBefore = ContextOf'[revisions'[i].parent]
    BY <1>2 DEF RevisionContexts
  <2>1. i \in 1..N /\ i \in 0..N
    BY <1>1, <1>2, TypeFacts
  <2> QED BY <1>2, <1>3, <2>1, ContextFacts DEF RevisionContexts
<1>7. ASSUME NEW q \in Restores PROVE ContextOK(restore'[q], ContextOf')
  <2>1. ContextOK(restore'[q], ContextOf)
    BY ContextContinues
  <2>2. restore'[q].pc \in AtWorkPc => restore'[q].target \in 0..N
    <3>1. PICK rec \in RestoreRecords :
            /\ restore' = [restore EXCEPT ![r] = rec]
            /\ rec.pc \in AtWorkPc => Planned(r) /\ rec.target = restore[r].target
      BY DEF Continues
    <3>2. restore \in [Restores -> RestoreRecords]
          /\ \A p \in Restores : restore[p].pc \in AtWorkPc => restore[p].target \in 0..N
      BY TypeFacts DEF RecordOK, N
    <3> QED BY <3>1, <3>2 DEF Planned
  <2> QED BY <1>2, <2>1, <2>2 DEF ContextOK
<1> QED BY <1>4, <1>5, <1>6, <1>7, ContextPrimed

LEMMA ContextPlanRestore ==
    ASSUME TypeInv, ContextInv, NEW r \in Restores, PlanRestore(r)
    PROVE  ContextInv'
<1> DEFINE t == restore[r].turn
           rev == revisions[t]
           before == restore[r].boundary = "before"
           target == IF before THEN rev.parent ELSE t
           context == IF before THEN rev.contextBefore ELSE rev.context
           rec == [restore[r] EXCEPT !.pc = "checking", !.source = head, !.target = target,
                                     !.steps = Plan(head, target), !.context = context]
<1>1. UNCHANGED <<revisions, head, session, turn>> /\ restore[r].pc = "leased"
  BY DEF PlanRestore, graph
<1>2. CASE To(r, "ending")
  <2>1. "ending" \notin AtWorkPc
    BY DEF AtWorkPc
  <2> QED BY <1>1, <1>2, <2>1, ToContinues, ContextContinues, ContextOfRecord
<1>3. CASE restore' = [restore EXCEPT ![r] = rec]
  <2>1. t \in 1..N /\ rev.kind = "turn" /\ target \in 1..N
    BY <1>1, PlanTypes
  <2>2. context = ContextOf[target]
    BY <2>1, ContextFacts DEF RevisionContexts
  <2> HIDE DEF target, context
  <2>3. restore[r] \in RestoreRecords /\ restore \in [Restores -> RestoreRecords]
    BY TypeFacts
  <2>4. rec.target = target /\ rec.context = context
    BY <2>3 DEF RestoreRecords
  <2> HIDE DEF rec
  <2>5. ContextOK(rec, ContextOf)
    BY <2>2, <2>4 DEF ContextOK
  <2>6. \A q \in Restores : ContextOK(restore'[q], ContextOf)
    BY <1>3, <2>3, <2>5, ContextFacts
  <2> QED BY <1>1, <2>6, ContextOfRecord
<1> QED BY <1>2, <1>3 DEF PlanRestore

LEMMA ContextStays == TypeInv /\ ContextInv /\ [Next]_vars => ContextInv'
<1> SUFFICES ASSUME TypeInv, ContextInv, [Next]_vars PROVE ContextInv'
  OBVIOUS
<1>1. CASE BeginTurn
  <2>1. UNCHANGED <<revisions, head, session, restore>> /\ turn'.parent = head
        /\ turn'.session = session
    BY <1>1 DEF BeginTurn, graph
  <2>2. N' = N /\ ContextOf' = ContextOf
    BY <2>1, GraphSame
  <2>3. RevisionContexts'
    BY <2>1, <2>2, ContextFacts DEF RevisionContexts
  <2> QED BY <2>1, <2>2, <2>3, ContextFacts, ContextPrimed
<1>2. CASE UNCHANGED vars \/ TurnDies \/ RecoverRoom \/ LeaseExpires
           \/ \E f \in Files : TurnWrites(f) \/ Edit(f)
  <2>1. UNCHANGED <<revisions, head, session, restore>> /\ (turn' = turn \/ ~turn'.on)
    BY <1>2 DEF vars, TurnDies, RecoverRoom, LeaseExpires, TurnWrites, Edit, graph, Fault, NoTurn
  <2> QED BY <2>1, ContextFacts, ContextOfRecord
<1>3. CASE EndTurnSomehow
  BY <1>3, ContextEndTurn
<1>4. ASSUME NEW r \in Restores, NEW t \in DOMAIN revisions, NEW b \in {"before", "after"},
             StartRestore(r, t, b)
      PROVE  ContextInv'
  <2> DEFINE rec == [NoRestore EXCEPT !.pc = "leased", !.turn = t, !.boundary = b]
  <2>1. UNCHANGED <<revisions, head, session, turn>> /\ restore' = [restore EXCEPT ![r] = rec]
    BY <1>4 DEF StartRestore, graph
  <2>2. ContextOK(rec, ContextOf)
    BY DEF ContextOK, NoRestore, AtWorkPc
  <2>3. restore \in [Restores -> RestoreRecords]
    BY TypeFacts
  <2> HIDE DEF rec
  <2>4. \A q \in Restores : ContextOK(restore'[q], ContextOf)
    BY <2>1, <2>2, <2>3, ContextFacts
  <2> QED BY <2>1, <2>4, ContextOfRecord
<1>5. ASSUME NEW r \in Restores, PlanRestore(r) PROVE ContextInv'
  BY <1>5, ContextPlanRestore
<1>6. ASSUME NEW r \in Restores, CheckLease(r) \/ ApplyStep(r) \/ ForkThread(r) \/ UndoStep(r)
                                 \/ EndRestore(r) \/ RestoreDies(r)
      PROVE  ContextInv'
  <2>1. UNCHANGED <<revisions, head, session, turn>>
    BY <1>6 DEF CheckLease, ApplyStep, ForkThread, UndoStep, EndRestore, RestoreDies, graph
  <2> QED BY <1>6, <2>1, StepsContinue, ContextContinues, ContextOfRecord
<1>7. ASSUME NEW r \in Restores, CommitRestore(r) \/ CommitUnacknowledged(r) PROVE ContextInv'
  <2>1. Planned(r) /\ UNCHANGED turn
    BY <1>7 DEF CommitRestore, CommitUnacknowledged, Planned, AtWorkPc
  <2>2. CASE To(r, "undoing")
    <3>1. Continues(r)
      BY <2>1, <2>2, ToContinues DEF AtWorkPc
    <3>2. CASE CanCommit(r) /\ Committed(r)
      BY <2>1, <3>1, <3>2, ContextCommitted
    <3>3. CASE UNCHANGED graph
      BY <2>1, <3>1, <3>3, ContextContinues, ContextOfRecord DEF graph
    <3> QED BY <1>7, <2>2, <3>2, <3>3 DEF CommitRestore, CommitUnacknowledged
  <2>3. CASE restore' = [restore EXCEPT ![r] = [NoRestore EXCEPT !.pc = "ending"]]
             /\ CanCommit(r) /\ Committed(r)
    <3> DEFINE rec == [NoRestore EXCEPT !.pc = "ending"]
    <3>1. rec \in RestoreRecords
      BY FreshRecord
    <3>2. rec.pc \notin AtWorkPc
      BY DEF NoRestore, AtWorkPc
    <3>3. restore' = [restore EXCEPT ![r] = rec]
      BY <2>3
    <3> HIDE DEF rec
    <3>4. Continues(r)
      BY <3>1, <3>2, <3>3 DEF Continues
    <3> QED BY <2>1, <2>3, <3>4, ContextCommitted
  <2> QED BY <1>7, <2>2, <2>3 DEF CommitRestore, CommitUnacknowledged
<1> QED BY <1>1, <1>2, <1>3, <1>4, <1>5, <1>6, <1>7 DEF Next, RestoreStep

LEMMA ContextInit == Init => ContextInv
<1> SUFFICES ASSUME Init PROVE ContextInv
  OBVIOUS
<1>1. Tree(revisions) /\ revisions[1] = Root /\ N = 1 /\ Len(revisions) = 1
  BY TypesInit DEF TypeInv, Init, N
<1>2. ContextOf[1] = 0
  <2>1. Root.kind # "turn" /\ Root.parent = 0
    BY DEF Root
  <2>2. 1 \in 1..Len(revisions)
    BY <1>1
  <2>3. /\ ContextIn(revisions)[0] = 0
        /\ ContextIn(revisions)[1] = IF revisions[1].kind = "turn" /\ revisions[1].completed THEN 1
                                     ELSE ContextIn(revisions)[revisions[1].parent]
    BY <1>1, <2>2, ContextDefined
  <2> QED BY <1>1, <2>1, <2>3, InGraph
<1>3. RevisionContexts
  BY <1>1 DEF RevisionContexts, Root
<1> QED BY <1>2, <1>3 DEF Init, ContextInv, NoTurn, NoRestore, Planned, AtWorkPc

\* Whatever fails and whoever races, the room's backend context is the last completed
\* turn at or above the head: every commit takes it along.
THEOREM ContextIsTheHeads == Spec => []ContextFollowsHead
<1>1. Init => TypeInv /\ ContextInv
  BY TypesInit, ContextInit
<1>2. TypeInv /\ ContextInv /\ [Next]_vars => (TypeInv /\ ContextInv)'
  BY TypesStay, ContextStays
<1>3. ContextInv => ContextFollowsHead
  BY DEF ContextInv, ContextFollowsHead
<1> QED BY <1>1, <1>2, <1>3, PTL DEF Spec

\* And the head moves only from the revision that a turn or a restore started from.
THEOREM HeadMovesFromItsSource == Spec => HeadMovesOnce
<1> DEFINE Move == head' # head =>
                       \/ revisions'[head'].kind = "turn" /\ revisions'[head'].parent = head
                       \/ \E r \in Restores : restore[r].source = head
                                              /\ revisions'[head'].parent = restore[r].target
<1>1. ASSUME TypeInv, Next PROVE Move
  <2>1. CASE EndTurnSomehow
    <3>1. PICK completed \in BOOLEAN, ready \in BOOLEAN : EndTurn(completed, ready)
      BY <2>1 DEF EndTurnSomehow
    <3> DEFINE x == TurnRevision(completed, ready)
    <3>2. /\ x \in Revisions /\ x.parent \in 1..N /\ x.parent = head /\ lease.live
          /\ revisions' = Append(revisions, x) /\ head' = N + 1
      BY <1>1, <3>1, EndTurnGrows
    <3>3. x.kind = "turn"
      BY DEF TurnRevision
    <3> HIDE DEF x
    <3>4. revisions'[head'] = x
      BY <1>1, <3>2, <3>3, Grows
    <3> QED BY <3>2, <3>3, <3>4
  <2>2. ASSUME NEW r \in Restores, restore[r].pc = "committing", CanCommit(r), Committed(r)
        PROVE  Move
    <3> DEFINE x == RestoreRevision(r)
    <3>1. Planned(r)
      BY <2>2 DEF Planned, AtWorkPc
    <3>2. /\ x \in Revisions /\ x.parent \in 1..N /\ x.parent = restore[r].target
          /\ x.kind = "restore" /\ x.paths = {} /\ lease.live
          /\ revisions' = Append(revisions, x) /\ head' = N + 1
      BY <1>1, <2>2, <3>1, CommittedGrows
    <3> HIDE DEF x
    <3>3. revisions'[head'] = x
      BY <1>1, <3>2, Grows
    <3>4. restore[r].source = head
      BY <2>2 DEF CanCommit
    <3> QED BY <3>2, <3>3, <3>4
  <2>3. CASE UNCHANGED head
    BY <2>3
  <2>4. CASE BeginTurn \/ TurnDies \/ RecoverRoom \/ LeaseExpires
             \/ \E f \in Files : TurnWrites(f) \/ Edit(f)
    <3>1. UNCHANGED head
      BY <2>4 DEF BeginTurn, TurnDies, RecoverRoom, LeaseExpires, TurnWrites, Edit, graph
    <3> QED BY <2>3, <3>1
  <2>5. ASSUME NEW r \in Restores,
               \/ \E t \in DOMAIN revisions, b \in {"before", "after"} : StartRestore(r, t, b)
               \/ PlanRestore(r) \/ CheckLease(r) \/ ApplyStep(r) \/ ForkThread(r)
               \/ UndoStep(r) \/ EndRestore(r) \/ RestoreDies(r)
        PROVE  Move
    <3>1. UNCHANGED head
      BY <2>5 DEF StartRestore, PlanRestore, CheckLease, ApplyStep, ForkThread, UndoStep,
                  EndRestore, RestoreDies, graph
    <3> QED BY <2>3, <3>1
  <2>6. ASSUME NEW r \in Restores, CommitRestore(r) \/ CommitUnacknowledged(r)
        PROVE  Move
    <3>1. UNCHANGED head \/ (restore[r].pc = "committing" /\ CanCommit(r) /\ Committed(r))
      BY <2>6 DEF CommitRestore, CommitUnacknowledged, graph
    <3> QED BY <2>2, <2>3, <3>1
  <2> QED BY <1>1, <2>1, <2>4, <2>5, <2>6 DEF Next, RestoreStep
<1>2. TypeInv /\ [Next]_vars => [Move]_vars
  BY <1>1
<1> QED BY <1>2, TypesInit, TypesStay, PTL DEF Spec, HeadMovesOnce

(***************************************************************************)
(* The files, while at most servers crash                                  *)
(***************************************************************************)
\* Whoever works holds the lease, so nobody else does.
LEMMA Alone ==
    ASSUME TypeInv, OwnersInv
    PROVE  /\ turn.on => \A q \in Restores : ~Busy(q)
           /\ \A r \in Restores : Busy(r) => ~turn.on /\ \A q \in Restores \ {r} : ~Busy(q)
           /\ Free \/ ~lease.live => ~turn.on /\ \A q \in Restores : ~Busy(q)
           /\ \A r \in Restores : Planned(r) => Busy(r)
  BY OwnersAssumption DEF OwnersInv, Holds, Free, Busy

\* A checkpoint's image of a file that only turns have changed.
LEMMA StepContents ==
    ASSUME TypeInv, NEW s \in GraphSteps
    PROVE  /\ Begins(revisions, s) \in Contents /\ Ends(revisions, s) \in Contents
           /\ \A f \in Files \ revisions[s.revision].paths : Begins(revisions, s)[f] = Ends(revisions, s)[f]
           /\ s.direction = "after" => \A f \in revisions[s.revision].paths :
                                           Ends(revisions, s)[f] = revisions[s.revision].after[f]
<1> DEFINE r == s.revision
<1>1. r \in 1..N /\ s.direction \in {"before", "after"}
  BY DEF GraphSteps
<1>2. ContentIn(revisions)[r] = Grown(revisions[r], ContentIn(revisions)[ParentOf(r)])
      /\ ContentIn(revisions)[r] \in Contents /\ ContentIn(revisions)[ParentOf(r)] \in Contents
      /\ revisions[r].paths \in SUBSET Files
  <2>1. Tree(revisions) /\ r \in 1..Len(revisions) /\ r \in 0..N
    BY <1>1, TypeFacts DEF N
  <2>2. ParentOf(r) \in 0..N /\ revisions[r].paths \in SUBSET Files
    BY <2>1, TreeTypes DEF N, ParentOf
  <2>3. ContentIn(revisions) \in [0..N -> Contents]
        /\ ContentIn(revisions)[r] = Grown(revisions[r], ContentIn(revisions)[ParentOf(r)])
    BY <2>1, ContentDefined DEF N, ParentOf
  <2> HIDE DEF r
  <2> QED BY <2>1, <2>2, <2>3
<1> QED BY <1>1, <1>2 DEF Begins, Ends, Grown, ParentOf

\* Applied to the content it begins with, a step leaves the one it ends with.
LEMMA StepMoves ==
    ASSUME TypeInv, ImageInv, NEW s \in GraphSteps, NEW c, NEW f \in Files \ edited,
           c[f] = Begins(revisions, s)[f]
    PROVE  Applied(s, c)[f] = Ends(revisions, s)[f]
<1> DEFINE r == s.revision
<1>1. r \in 1..N /\ s.direction \in {"before", "after"}
  BY DEF GraphSteps
<1>2. Applied(s, c)[f] = IF f \in revisions[r].paths THEN Image(revisions[r], s.direction)[f]
                         ELSE c[f]
  BY DEF Applied
<1>3. CASE f \notin revisions[r].paths
  BY <1>2, <1>3, StepContents
<1>4. CASE f \in revisions[r].paths /\ s.direction = "after"
  BY <1>2, <1>4, StepContents DEF Image
<1>5. CASE f \in revisions[r].paths /\ s.direction = "before"
  BY <1>1, <1>2, <1>5 DEF Image, ImageInv, Ends, ParentOf
<1> QED BY <1>1, <1>3, <1>4, <1>5

\* The inverse goes the other way.
LEMMA InverseContents ==
    ASSUME NEW s \in GraphSteps
    PROVE  Begins(revisions, InverseStep(s)) = Ends(revisions, s) /\ Ends(revisions, InverseStep(s)) = Begins(revisions, s)
  BY InverseTypes DEF Begins, Ends, Opposite, GraphSteps

\* The files that no step is about stay what they are.
LEMMA ReachedOutside ==
    ASSUME TypeInv, NEW steps \in Seq(GraphSteps), NEW source, NEW target,
           Leads(revisions, steps, source, target), NEW done \in 0..Len(steps), NEW f \in Files,
           \A k \in 1..done : f \notin revisions[steps[k].revision].paths
    PROVE  Reached(revisions, steps, source, done)[f] = ContentIn(revisions)[source][f]
<1> DEFINE T == {n \in Nat : n <= done => Reached(revisions, steps, source, n)[f] = ContentIn(revisions)[source][f]}
<1>1. 0 \in T
  BY DEF Reached
<1>2. ASSUME NEW n \in T PROVE n + 1 \in T
  <2> SUFFICES ASSUME n + 1 <= done
               PROVE  Reached(revisions, steps, source, n + 1)[f] = ContentIn(revisions)[source][f]
    OBVIOUS
  <2>1. n + 1 \in 1..Len(steps) /\ n + 1 \in 1..done /\ n + 1 # 0 /\ (n + 1) - 1 = n
    OBVIOUS
  <2>2. steps[n + 1] \in GraphSteps
    BY <2>1
  <2>3. Begins(revisions, steps[n + 1]) = Reached(revisions, steps, source, n)
    BY <2>1 DEF Leads
  <2>4. Reached(revisions, steps, source, n + 1) = Ends(revisions, steps[n + 1])
    BY <2>1 DEF Reached
  <2>5. Reached(revisions, steps, source, n)[f] = ContentIn(revisions)[source][f]
    BY <2>1
  <2> QED BY <2>1, <2>2, <2>3, <2>4, <2>5, StepContents
<1>3. T = Nat
  <2> T \in SUBSET Nat
    OBVIOUS
  <2> HIDE DEF T
  <2> QED BY <1>1, <1>2, InductionOnSet
<1>4. done \in T
  BY <1>3
<1> QED BY <1>4

\* A path goes on with a step that meets no conflict.
LEMMA WalksOn ==
    ASSUME TypeInv, NEW steps \in Seq(GraphSteps), NEW n \in 1..Len(steps), NEW c \in Contents,
           Trail(revisions, steps, n - 1, c),
           \A f \in revisions[steps[n].revision].paths :
               c[f] = Image(revisions[steps[n].revision], Opposite(steps[n].direction))[f]
    PROVE  Trail(revisions, steps, n, Applied(steps[n], c))
<1> DEFINE d == Applied(steps[n], c)
           rev == revisions[steps[n].revision]
<1>1. PICK h \in [0..(n - 1) -> Contents] : h[n - 1] = c /\ Walked(revisions, h, steps, n - 1)
  BY DEF Trail
<1>2. steps[n] \in GraphSteps
  OBVIOUS
<1>3. d \in Contents
  BY <1>2, AppliedTypes
<1>4. \A f \in Files : IF f \in rev.paths THEN d[f] = Image(rev, steps[n].direction)[f]
                       ELSE d[f] = c[f]
  BY DEF Applied
<1> HIDE DEF d
<1> DEFINE e == [k \in 0..n |-> IF k = n THEN d ELSE h[k]]
<1>5. /\ e \in [0..n -> Contents] /\ e[n] = d /\ e[n - 1] = c
      /\ \A k \in 1..(n - 1) : e[k] = h[k] /\ e[k - 1] = h[k - 1]
  BY <1>1, <1>3
<1> HIDE DEF e
<1>6. ASSUME NEW k \in 1..n, NEW f \in Files
      PROVE  IF f \in revisions[steps[k].revision].paths
             THEN /\ e[k - 1][f] = Image(revisions[steps[k].revision],
                                         Opposite(steps[k].direction))[f]
                  /\ e[k][f] = Image(revisions[steps[k].revision], steps[k].direction)[f]
             ELSE e[k][f] = e[k - 1][f]
  <2>1. CASE k = n
    BY <1>4, <1>5, <2>1
  <2>2. CASE k # n
    <3>1. k \in 1..(n - 1)
      BY <2>2
    <3> QED BY <1>1, <1>5, <3>1 DEF Walked
  <2> QED BY <2>1, <2>2
<1>7. Walked(revisions, e, steps, n)
  BY <1>6 DEF Walked
<1> QED BY <1>5, <1>7 DEF Trail, d

\* And back: the inverse of the last step meets no conflict.
LEMMA WalksBack ==
    ASSUME TypeInv, NEW steps \in Seq(GraphSteps), NEW n \in 1..Len(steps), NEW c \in Contents,
           Trail(revisions, steps, n, c)
    PROVE  /\ \A f \in revisions[steps[n].revision].paths :
                  c[f] = Image(revisions[steps[n].revision], steps[n].direction)[f]
           /\ Trail(revisions, steps, n - 1, Applied(InverseStep(steps[n]), c))
<1> DEFINE d == Applied(InverseStep(steps[n]), c)
           rev == revisions[steps[n].revision]
<1>1. PICK h \in [0..n -> Contents] : h[n] = c /\ Walked(revisions, h, steps, n)
  BY DEF Trail
<1>2. steps[n] \in GraphSteps /\ rev.paths \in SUBSET Files
  <2>1. steps[n] \in GraphSteps
    OBVIOUS
  <2>2. steps[n].revision \in 1..Len(revisions)
    BY <2>1 DEF GraphSteps, N
  <2> QED BY <2>1, <2>2, TypeFacts, TreeTypes
<1>3. \A f \in Files : d[f] = IF f \in rev.paths
                             THEN Image(rev, Opposite(steps[n].direction))[f] ELSE c[f]
  BY <1>2, InverseTypes DEF Applied
<1>4. \A f \in Files : IF f \in rev.paths
                       THEN /\ h[n - 1][f] = Image(rev, Opposite(steps[n].direction))[f]
                            /\ h[n][f] = Image(rev, steps[n].direction)[f]
                       ELSE h[n][f] = h[n - 1][f]
  BY <1>1 DEF Walked
<1>5. d \in Contents
  BY <1>2, InverseTypes, AppliedTypes
<1>6. h[n - 1] \in Contents
  BY <1>1
<1> HIDE DEF d, rev
<1>7. \A f \in Files : h[n - 1][f] = d[f]
  BY <1>1, <1>3, <1>4
<1>8. h[n - 1] = d
  BY <1>5, <1>6, <1>7 DEF Contents
<1> DEFINE e == [k \in 0..(n - 1) |-> h[k]]
<1>9. e \in [0..(n - 1) -> Contents] /\ e[n - 1] = d
      /\ \A k \in 1..(n - 1) : k \in 1..n /\ e[k] = h[k] /\ e[k - 1] = h[k - 1]
  <2>1. \A k \in 0..(n - 1) : k \in 0..n /\ e[k] = h[k]
    BY <1>1
  <2>2. e \in [0..(n - 1) -> Contents]
    <3>1. \A k \in 0..(n - 1) : h[k] \in Contents
      BY <2>1
    <3> QED BY <3>1
  <2> HIDE DEF e
  <2>3. e[n - 1] = d
    <3>1. n - 1 \in 0..(n - 1)
      BY <1>1
    <3> QED BY <1>8, <2>1, <3>1
  <2>4. \A k \in 1..(n - 1) : k \in 0..(n - 1) /\ k - 1 \in 0..(n - 1) /\ k \in 1..n
    BY <1>1
  <2> QED BY <2>1, <2>2, <2>3, <2>4
<1> HIDE DEF e
<1>10. Walked(revisions, e, steps, n - 1)
  BY <1>1, <1>9 DEF Walked
<1>11. Trail(revisions, steps, n - 1, d)
  BY <1>9, <1>10 DEF Trail
<1>12. \A f \in rev.paths : c[f] = Image(rev, steps[n].direction)[f]
  BY <1>1, <1>2, <1>4
<1> QED BY <1>11, <1>12 DEF d, rev

\* Faults do not go away.
LEMMA FaultsGrow ==
    ASSUME [Next]_vars PROVE faults \subseteq faults' /\ edited \subseteq edited'
<1>1. CASE BeginTurn \/ TurnDies \/ RecoverRoom \/ LeaseExpires \/ UNCHANGED vars
           \/ \E f \in Files : TurnWrites(f) \/ Edit(f)
  BY <1>1 DEF BeginTurn, TurnDies, RecoverRoom, LeaseExpires, TurnWrites, Edit, Fault, budget, vars
<1>2. CASE EndTurnSomehow
  BY <1>2 DEF EndTurnSomehow, EndTurn, budget
<1>3. ASSUME NEW r \in Restores,
             (\E t \in DOMAIN revisions, b \in {"before", "after"} : StartRestore(r, t, b))
             \/ PlanRestore(r) \/ CheckLease(r) \/ ApplyStep(r) \/ ForkThread(r)
      PROVE  faults \subseteq faults' /\ edited \subseteq edited'
  BY <1>3 DEF StartRestore, PlanRestore, CheckLease, ApplyStep, ForkThread, budget
<1>4. ASSUME NEW r \in Restores,
             CommitRestore(r) \/ UndoStep(r) \/ EndRestore(r) \/ CommitUnacknowledged(r)
             \/ RestoreDies(r)
      PROVE  faults \subseteq faults' /\ edited \subseteq edited'
  BY <1>4 DEF CommitRestore, UndoStep, EndRestore, CommitUnacknowledged, RestoreDies, Fault, budget
<1> QED BY <1>1, <1>2, <1>3, <1>4 DEF Next, RestoreStep

\* Steps that a clean history does not have.
LEMMA CleanSteps ==
    ASSUME Clean'
    PROVE  /\ LeaseExpires => \/ lease.owner = TurnLease /\ ~turn.on
                              \/ lease.owner \in Restores /\ restore[lease.owner].pc \in {"idle", "gone"}
           /\ \A f \in Files : Edit(f) => ~lease.live
           /\ \A r \in Restores : ~CommitUnacknowledged(r)
  BY DEF Clean, LeaseExpires, Edit, CommitUnacknowledged, Fault

\* Who works after a step of a restore.
LEMMA OthersStay ==
    ASSUME TypeInv, NEW r \in Restores, Continues(r)
    PROVE  /\ Planned(r)' => Planned(r)
           /\ \A q \in Restores \ {r} : restore'[q] = restore[q]
           /\ Planned(r)' => /\ restore'[r].source = restore[r].source
                             /\ restore'[r].target = restore[r].target
                             /\ restore'[r].steps = restore[r].steps
<1>1. PICK rec \in RestoreRecords :
        /\ restore' = [restore EXCEPT ![r] = rec]
        /\ rec.pc \in AtWorkPc => /\ Planned(r) /\ rec.source = restore[r].source
                                  /\ rec.target = restore[r].target /\ rec.steps = restore[r].steps
  BY DEF Continues
<1>2. restore \in [Restores -> RestoreRecords]
  BY TypeFacts
<1>3. restore'[r] = rec /\ \A q \in Restores \ {r} : restore'[q] = restore[q]
  BY <1>1, <1>2
<1> QED BY <1>1, <1>3 DEF Planned

\* A restore goes on, and keeps its lease while it has work to do.
LEMMA OwnersContinue ==
    ASSUME TypeInv, OwnersInv, NEW r \in Restores, Continues(r),
           UNCHANGED <<head, turn>>, restore'[r].pc # "leased",
           lease' = lease \/ (~Busy(r)' /\ (Busy(r) \/ lease.owner = r))
    PROVE  OwnersInv'
<1>1. /\ Planned(r)' => Planned(r) /\ restore'[r].source = restore[r].source
      /\ \A q \in Restores \ {r} : restore'[q] = restore[q]
  BY OthersStay
<1>2. Busy(r)' => Planned(r)'
  BY DEF Busy, Planned
<1>3. CASE lease' = lease
  <2>1. turn'.on => Holds(TurnLease)' /\ head' = turn'.parent
    BY <1>3 DEF OwnersInv, Holds
  <2>2. ASSUME NEW q \in Restores
        PROVE  (Busy(q) => Holds(q))' /\ (Planned(q) => head = restore[q].source)'
    <3>1. CASE q = r
      BY <1>1, <1>2, <1>3, <3>1 DEF OwnersInv, Holds, Busy
    <3>2. CASE q # r
      BY <1>1, <1>3, <3>2 DEF OwnersInv, Holds, Busy, Planned
    <3> QED BY <3>1, <3>2
  <2> QED BY <2>1, <2>2 DEF OwnersInv
<1>4. CASE ~Busy(r)' /\ (Busy(r) \/ lease.owner = r)
  <2>1. ~turn.on /\ \A q \in Restores \ {r} : ~Busy(q)
    BY <1>4, Alone, OwnersAssumption DEF OwnersInv, Holds
  <2>2. \A q \in Restores : ~Busy(q)' /\ ~Planned(q)'
    <3> TAKE q \in Restores
    <3>1. CASE q = r
      BY <1>4, <3>1 DEF Busy
    <3>2. CASE q # r
      BY <1>1, <2>1, <3>2 DEF Busy, Planned
    <3> QED BY <3>1, <3>2
  <2> QED BY <2>1, <2>2 DEF OwnersInv
<1> QED BY <1>3, <1>4

LEMMA OwnersStay == TypeInv /\ CleanInv /\ [Next]_vars /\ Clean' => OwnersInv'
<1> SUFFICES ASSUME TypeInv, CleanInv, [Next]_vars, Clean' PROVE OwnersInv'
  OBVIOUS
<1>1. Clean /\ OwnersInv /\ restore \in [Restores -> RestoreRecords]
  BY FaultsGrow, TypeFacts DEF Clean, CleanInv, CleanParts
<1>2. CASE BeginTurn
  BY <1>1, <1>2, Alone DEF BeginTurn, OwnersInv, Holds, Busy, Planned, graph
<1>3. CASE TurnDies \/ UNCHANGED vars \/ \E f \in Files : TurnWrites(f) \/ Edit(f)
  <2>1. UNCHANGED <<head, lease, restore>> /\ (turn' = turn \/ ~turn'.on)
    BY <1>3 DEF TurnDies, TurnWrites, Edit, graph, Fault, vars, NoTurn
  <2> QED BY <1>1, <2>1 DEF OwnersInv, Holds, Busy, Planned
<1>4. CASE RecoverRoom
  BY <1>1, <1>4, Alone DEF RecoverRoom, OwnersInv, Holds, Busy, Planned, graph
<1>5. CASE LeaseExpires
  <2>1. UNCHANGED <<head, turn, restore>>
    BY <1>5 DEF LeaseExpires, graph
  <2>2. ~turn.on /\ \A q \in Restores : ~Busy(q) /\ ~Planned(q)
    <3>1. CASE lease.owner = TurnLease /\ ~turn.on
      BY <1>1, <3>1, OwnersAssumption, Alone DEF OwnersInv, Holds
    <3>2. CASE lease.owner \in Restores /\ restore[lease.owner].pc \in {"idle", "gone"}
      <4>1. ~Busy(lease.owner)
        BY <3>2 DEF Busy, Planned, AtWorkPc
      <4> QED BY <1>1, <3>2, <4>1, OwnersAssumption, Alone DEF OwnersInv, Holds
    <3> QED BY <1>5, <3>1, <3>2, CleanSteps
  <2> QED BY <2>1, <2>2 DEF OwnersInv, Busy, Planned
<1>6. CASE EndTurnSomehow
  BY <1>1, <1>6, Alone DEF EndTurnSomehow, EndTurn, OwnersInv, Busy, Planned, NoTurn
<1>7. ASSUME NEW r \in Restores, NEW t \in DOMAIN revisions, NEW b \in {"before", "after"},
             StartRestore(r, t, b)
      PROVE  OwnersInv'
  <2> DEFINE rec == [NoRestore EXCEPT !.pc = "leased", !.turn = t, !.boundary = b]
  <2>1. UNCHANGED <<head, turn>> /\ restore' = [restore EXCEPT ![r] = rec] /\ Free
        /\ lease' = [owner |-> r, live |-> TRUE]
    BY <1>7 DEF StartRestore, graph
  <2>2. rec.pc = "leased" /\ "leased" \notin AtWorkPc
    BY DEF NoRestore, AtWorkPc
  <2> HIDE DEF rec
  <2>3. ~turn.on /\ \A q \in Restores : ~Busy(q)
    BY <1>1, <2>1, Alone
  <2>4. restore'[r] = rec /\ \A q \in Restores \ {r} : restore'[q] = restore[q]
    BY <1>1, <2>1
  <2>5. Holds(r)' /\ \A q \in Restores \ {r} : ~Busy(q)' /\ ~Planned(q)'
    BY <2>1, <2>3, <2>4 DEF Holds, Busy, Planned
  <2>6. ~Planned(r)'
    BY <2>2, <2>4 DEF Planned
  <2> QED BY <2>1, <2>3, <2>5, <2>6 DEF OwnersInv
<1>8. ASSUME NEW r \in Restores, PlanRestore(r) PROVE OwnersInv'
  <2>1. UNCHANGED <<head, turn, lease>> /\ Busy(r) /\ restore[r].pc = "leased"
    BY <1>8 DEF PlanRestore, graph, Busy
  <2>2. CASE To(r, "ending")
    <3>1. "ending" \notin AtWorkPc /\ "ending" # "leased"
      BY DEF AtWorkPc
    <3> QED BY <1>1, <2>1, <2>2, <3>1, ToContinues, OwnersContinue
  <2>3. CASE /\ restore'[r].source = head
             /\ \A q \in Restores \ {r} : restore'[q] = restore[q]
    BY <1>1, <2>1, <2>3 DEF OwnersInv, Holds, Busy, Planned
  <2>4. CASE ~To(r, "ending")
    <3>1. restore[r] \in RestoreRecords
      BY <1>1
    <3>2. restore'[r].source = head /\ \A q \in Restores \ {r} : restore'[q] = restore[q]
      BY <1>1, <1>8, <2>4, <3>1 DEF PlanRestore, RestoreRecords
    <3> QED BY <2>3, <3>2
  <2> QED BY <2>2, <2>4
<1>9. ASSUME NEW r \in Restores, CheckLease(r) \/ ApplyStep(r) \/ ForkThread(r) \/ UndoStep(r)
                                 \/ EndRestore(r) \/ RestoreDies(r)
      PROVE  OwnersInv'
  <2>1. Continues(r) /\ UNCHANGED <<head, turn>>
    BY <1>9, StepsContinue
       DEF CheckLease, ApplyStep, ForkThread, UndoStep, EndRestore, RestoreDies, graph
  <2>2. CASE ~EndRestore(r)
    <3>1. lease' = lease
      BY <1>9, <2>2 DEF CheckLease, ApplyStep, ForkThread, UndoStep, RestoreDies
    <3>2. restore'[r].pc # "leased"
      BY <1>1, <1>9, <2>2
         DEF CheckLease, ApplyStep, ForkThread, UndoStep, RestoreDies, To, NoRestore, RestoreRecords
    <3> QED BY <1>1, <2>1, <3>1, <3>2, OwnersContinue
  <2>3. CASE EndRestore(r)
    <3>1. restore'[r] = NoRestore
      BY <1>1, <2>3 DEF EndRestore
    <3>2. ~Busy(r)' /\ restore'[r].pc # "leased"
      BY <3>1 DEF Busy, Planned, NoRestore, AtWorkPc
    <3> QED BY <1>1, <2>1, <2>3, <3>2, OwnersContinue DEF EndRestore
  <2> QED BY <2>2, <2>3
<1>10. ASSUME NEW r \in Restores, CommitRestore(r) PROVE OwnersInv'
  <2>1. Planned(r) /\ Busy(r) /\ UNCHANGED turn
    BY <1>10 DEF CommitRestore, Planned, AtWorkPc, Busy
  <2>2. CASE To(r, "undoing") /\ UNCHANGED <<graph, lease>>
    <3>1. Continues(r) /\ restore'[r].pc # "leased"
      BY <2>1, <2>2, ToContinues DEF AtWorkPc
    <3> QED BY <1>1, <2>1, <2>2, <3>1, OwnersContinue DEF graph
  <2>3. CASE restore' = [restore EXCEPT ![r] = [NoRestore EXCEPT !.pc = "ending"]]
    <3>1. ~turn.on /\ \A q \in Restores \ {r} : ~Busy(q)
      BY <1>1, <2>1, Alone
    <3>2. restore'[r] = [NoRestore EXCEPT !.pc = "ending"]
          /\ \A q \in Restores \ {r} : restore'[q] = restore[q]
      BY <1>1, <2>3
    <3>3. \A q \in Restores : ~Busy(q)' /\ ~Planned(q)'
      BY <3>1, <3>2 DEF Busy, Planned, NoRestore, AtWorkPc
    <3> QED BY <2>1, <3>1, <3>3 DEF OwnersInv
  <2> QED BY <1>10, <2>2, <2>3 DEF CommitRestore
<1>11. ASSUME NEW r \in Restores, CommitUnacknowledged(r) PROVE OwnersInv'
  BY <1>11, CleanSteps
<1> QED BY <1>2, <1>3, <1>4, <1>5, <1>6, <1>7, <1>8, <1>9, <1>10, <1>11 DEF Next, RestoreStep

LEMMA ImageSame ==
    ASSUME UNCHANGED revisions, edited \subseteq edited', ImageInv PROVE ImageInv'
  BY DEF ImageInv, N

\* A new revision keeps the images of the others.
LEMMA ImageAdded ==
    ASSUME TypeInv, ImageInv, NEW x, x.parent \in 1..N, N' = N + 1,
           NEW h, h = revisions', h[N + 1] = x, \A i \in 1..N : h[i] = revisions[i],
           \A i \in 0..N : ContentIn(h)[i] = ContentIn(revisions)[i],
           edited' = edited,
           \A f \in x.paths \ edited : x.before[f] = ContentIn(revisions)[x.parent][f]
    PROVE  ImageInv'
<1>1. N \in Nat /\ \A i \in 1..N : revisions[i].parent \in 0..N
  BY TypeFacts, TreeTypes DEF N
<1>2. ASSUME NEW i \in 1..(N + 1), NEW f \in h[i].paths \ edited
      PROVE  h[i].before[f] = ContentIn(h)[h[i].parent][f]
  <2>1. CASE i = N + 1
    <3>1. x.parent \in 0..N
      BY <1>1
    <3>2. h[i] = x /\ f \in x.paths \ edited
      BY <1>2, <2>1
    <3> QED BY <3>1, <3>2
  <2>2. CASE i # N + 1
    <3>1. i \in 1..N
      BY <1>1, <2>2
    <3>2. h[i] = revisions[i] /\ f \in revisions[i].paths \ edited
      BY <1>2, <3>1
    <3>3. revisions[i].before[f] = ContentIn(revisions)[revisions[i].parent][f]
      BY <3>1, <3>2 DEF ImageInv
    <3> QED BY <1>1, <3>1, <3>2, <3>3
  <2> QED BY <2>1, <2>2
<1> QED BY <1>2 DEF ImageInv

LEMMA ImagesStay == TypeInv /\ CleanInv /\ [Next]_vars /\ Clean' => ImageInv'
<1> SUFFICES ASSUME TypeInv, CleanInv, [Next]_vars, Clean' PROVE ImageInv'
  OBVIOUS
<1>1. OwnersInv /\ ImageInv /\ FilesInv /\ edited \subseteq edited'
  BY FaultsGrow DEF Clean, CleanInv, CleanParts
<1>2. CASE UNCHANGED revisions
  BY <1>1, <1>2, ImageSame
<1>3. CASE EndTurnSomehow
  <2>1. PICK completed \in BOOLEAN, ready \in BOOLEAN : EndTurn(completed, ready)
    BY <1>3 DEF EndTurnSomehow
  <2> DEFINE x == TurnRevision(completed, ready)
  <2>2. /\ x \in Revisions /\ x.parent \in 1..N /\ turn.parent = x.parent /\ lease.live
        /\ revisions' = Append(revisions, x)
    BY <2>1, EndTurnGrows
  <2>3. x.kind = "turn" /\ x.before = turn.base /\ x.paths \subseteq Files
    BY DEF TurnRevision, Changed
  <2>4. turn.on /\ edited' = edited
    BY <2>1 DEF EndTurn, budget
  <2> HIDE DEF x
  <2>5. \A f \in x.paths \ edited : x.before[f] = ContentIn(revisions)[x.parent][f]
    BY <1>1, <2>2, <2>3, <2>4 DEF FilesInv, Agree
  <2>6. /\ N' = N + 1 /\ revisions'[N + 1] = x /\ \A i \in 1..N : revisions'[i] = revisions[i]
        /\ \A i \in 0..N : ContentIn(revisions')[i] = ContentIn(revisions)[i]
    BY <2>2, <2>3, Grows, InGraph
  <2>7. x.parent \in 1..N /\ \A f \in x.paths \ edited : x.before[f] = ContentIn(revisions)[x.parent][f]
    BY <2>2, <2>5
  <2> QED BY <1>1, <2>4, <2>6, <2>7, ImageAdded
<1>4. ASSUME NEW r \in Restores, restore[r].pc = "committing", CanCommit(r), Committed(r),
             edited' = edited
      PROVE  ImageInv'
  <2> DEFINE x == RestoreRevision(r)
  <2>1. Planned(r)
    BY <1>4 DEF Planned, AtWorkPc
  <2>2. /\ x \in Revisions /\ x.parent \in 1..N /\ x.kind = "restore" /\ x.paths = {} /\ lease.live
        /\ revisions' = Append(revisions, x)
    BY <1>4, <2>1, CommittedGrows
  <2> HIDE DEF x
  <2>3. /\ N' = N + 1 /\ revisions'[N + 1] = x /\ \A i \in 1..N : revisions'[i] = revisions[i]
        /\ \A i \in 0..N : ContentIn(revisions')[i] = ContentIn(revisions)[i]
    BY <2>2, Grows, InGraph
  <2>4. x.parent \in 1..N /\ \A f \in x.paths \ edited : x.before[f] = ContentIn(revisions)[x.parent][f]
    BY <2>2
  <2> QED BY <1>1, <1>4, <2>3, <2>4, ImageAdded
<1>5. CASE BeginTurn \/ TurnDies \/ RecoverRoom \/ LeaseExpires \/ UNCHANGED vars
           \/ \E f \in Files : TurnWrites(f) \/ Edit(f)
  <2>1. UNCHANGED revisions
    BY <1>5 DEF BeginTurn, TurnDies, RecoverRoom, LeaseExpires, TurnWrites, Edit, graph, vars
  <2> QED BY <1>2, <2>1
<1>6. ASSUME NEW r \in Restores,
             \/ \E t \in DOMAIN revisions, b \in {"before", "after"} : StartRestore(r, t, b)
             \/ PlanRestore(r) \/ CheckLease(r) \/ ApplyStep(r) \/ ForkThread(r)
             \/ UndoStep(r) \/ EndRestore(r) \/ RestoreDies(r)
      PROVE  ImageInv'
  <2>1. UNCHANGED revisions
    BY <1>6 DEF StartRestore, PlanRestore, CheckLease, ApplyStep, ForkThread, UndoStep, EndRestore,
                RestoreDies, graph
  <2> QED BY <1>2, <2>1
<1>7. ASSUME NEW r \in Restores, CommitRestore(r) \/ CommitUnacknowledged(r)
      PROVE  ImageInv'
  <2>1. \/ UNCHANGED revisions
        \/ restore[r].pc = "committing" /\ CanCommit(r) /\ Committed(r) /\ edited' = edited
    BY <1>7 DEF CommitRestore, CommitUnacknowledged, graph, budget
  <2> QED BY <1>2, <1>4, <2>1
<1> QED BY <1>3, <1>5, <1>6, <1>7 DEF Next, RestoreStep

\* What a clean history gives to the files.
LEMMA CleanFacts ==
    ASSUME TypeInv, CleanInv, [Next]_vars, Clean'
    PROVE  /\ Clean /\ OwnersInv /\ ImageInv /\ FilesInv /\ edited \subseteq edited'
           /\ restore \in [Restores -> RestoreRecords]
  BY FaultsGrow, TypeFacts DEF Clean, CleanInv, CleanParts

\* Nobody is at work after the step.
LEMMA FilesAtRest ==
    ASSUME ~turn'.on, \A q \in Restores : ~Planned(q)',
           Agree(edited', files', ContentIn(revisions')[head'])
    PROVE  FilesInv'
  BY DEF FilesInv

\* More edits, and the same otherwise.
LEMMA WayStays ==
    ASSUME NEW g, NEW e, NEW d, e \subseteq d, NEW c, NEW rec, OnTheWay(g, e, c, rec)
    PROVE  OnTheWay(g, d, c, rec)
  BY DEF OnTheWay, Agree

LEMMA FilesOtherwise ==
    ASSUME TypeInv, FilesInv, edited \subseteq edited',
           UNCHANGED <<revisions, head, files, turn>>,
           \A q \in Restores : Planned(q)' <=> Planned(q),
           \A q \in Restores : Planned(q) => restore'[q] = restore[q]
    PROVE  FilesInv'
<1>1. ASSUME ~turn.on, \A q \in Restores : ~Planned(q)
      PROVE  Agree(edited', files, ContentIn(revisions)[head])
  BY <1>1 DEF FilesInv, Agree
<1>2. turn.on => Agree(edited', turn.base, ContentIn(revisions)[turn.parent])
  BY DEF FilesInv, Agree
<1>3. \A q \in Restores : Planned(q) => OnTheWay(revisions, edited', files, restore[q])
  BY WayStays DEF FilesInv
<1>4. \A q \in Restores : Planned(q)' => OnTheWay(revisions', edited', files', restore'[q])
  BY <1>3
<1> QED BY <1>1, <1>2, <1>4 DEF FilesInv

\* One restore is at work, before and after the step.
LEMMA FilesOnTheWay ==
    ASSUME TypeInv, OwnersInv, NEW r \in Restores, Busy(r), UNCHANGED turn,
           \A q \in Restores \ {r} : restore'[q] = restore[q],
           Planned(r)', OnTheWay(revisions', edited', files', restore'[r])
    PROVE  FilesInv'
<1>1. ~turn.on /\ \A q \in Restores \ {r} : ~Planned(q)
  BY Alone
<1>2. \A q \in Restores \ {r} : ~Planned(q)'
  BY <1>1 DEF Planned
<1> QED BY <1>1, <1>2 DEF FilesInv

LEMMA FilesOfTurns ==
    ASSUME TypeInv, CleanInv, [Next]_vars, Clean',
           BeginTurn \/ TurnDies \/ \E f \in Files : TurnWrites(f) \/ Edit(f)
    PROVE  FilesInv'
<1> USE CleanFacts
<1>1. UNCHANGED <<revisions, head, restore>>
  BY DEF BeginTurn, TurnDies, TurnWrites, Edit, graph, Fault
<1>2. \A q \in Restores : Planned(q)' <=> Planned(q)
  BY <1>1 DEF Planned
<1>3. CASE BeginTurn
  <2>1. ~turn.on /\ \A q \in Restores : ~Planned(q)
    BY <1>3, Alone DEF BeginTurn
  <2>2. Agree(edited, files, ContentIn(revisions)[head])
    BY <2>1 DEF FilesInv
  <2>3. turn'.on /\ turn'.base = files /\ turn'.parent = head /\ edited' = edited
    BY <1>3 DEF BeginTurn, budget
  <2> QED BY <1>1, <1>2, <2>1, <2>2, <2>3 DEF FilesInv
<1>4. CASE TurnDies
  <2>1. turn.on /\ ~turn'.on /\ files' = files /\ edited' = edited \union Changed
    BY <1>4 DEF TurnDies, NoTurn
  <2>2. head = turn.parent /\ \A q \in Restores : ~Planned(q)
    BY <2>1, Alone DEF OwnersInv
  <2>3. Agree(edited, turn.base, ContentIn(revisions)[head])
    BY <2>1, <2>2 DEF FilesInv
  <2>4. Agree(edited', files, ContentIn(revisions)[head])
    BY <2>1, <2>3 DEF Agree, Changed
  <2> QED BY <1>1, <1>2, <2>1, <2>2, <2>4, FilesAtRest
<1>5. ASSUME NEW f \in Files, TurnWrites(f) PROVE FilesInv'
  <2>1. turn.on /\ turn' = turn /\ edited' = edited
    BY <1>5 DEF TurnWrites, budget
  <2>2. \A q \in Restores : ~Planned(q)
    BY <2>1, Alone
  <2> QED BY <1>1, <1>2, <2>1, <2>2 DEF FilesInv
<1>6. ASSUME NEW f \in Files, Edit(f) PROVE FilesInv'
  <2>1. ~turn.on /\ \A q \in Restores : ~Planned(q)
    BY <1>6, CleanSteps, Alone
  <2>2. turn' = turn /\ files' = [files EXCEPT ![f] = Foreign] /\ edited' = edited \union {f}
        /\ files \in Contents
    BY <1>6, TypeFacts DEF Edit
  <2>3. Agree(edited, files, ContentIn(revisions)[head])
    BY <2>1 DEF FilesInv
  <2>4. Agree(edited', files', ContentIn(revisions)[head])
    BY <2>2, <2>3 DEF Agree, Contents
  <2> QED BY <1>1, <1>2, <2>1, <2>2, <2>4, FilesAtRest
<1> QED BY <1>3, <1>4, <1>5, <1>6

LEMMA FilesEndTurn ==
    ASSUME TypeInv, CleanInv, [Next]_vars, Clean', EndTurnSomehow
    PROVE  FilesInv'
<1> USE CleanFacts
<1>1. PICK completed \in BOOLEAN, ready \in BOOLEAN : EndTurn(completed, ready)
  BY DEF EndTurnSomehow
<1> DEFINE x == TurnRevision(completed, ready)
<1>2. /\ x \in Revisions /\ x.parent \in 1..N /\ x.parent = head /\ turn.parent = head /\ lease.live
      /\ revisions' = Append(revisions, x) /\ head' = N + 1
  BY <1>1, EndTurnGrows
<1>3. x.kind = "turn" /\ x.after = files /\ x.paths = Changed
  BY DEF TurnRevision
<1>4. turn.on /\ ~turn'.on /\ edited' = edited /\ restore' = restore /\ files' = files
  BY <1>1 DEF EndTurn, budget, NoTurn
<1> HIDE DEF x
<1>5. ContentIn(revisions')[N + 1] = Grown(x, ContentIn(revisions)[head])
  BY <1>2, <1>3, Grows, InGraph
<1>6. Agree(edited, turn.base, ContentIn(revisions)[head])
  BY <1>2, <1>4 DEF FilesInv
<1>7. Agree(edited, files, Grown(x, ContentIn(revisions)[head]))
  BY <1>3, <1>6 DEF Agree, Grown, Changed
<1>8. \A q \in Restores : ~Planned(q)'
  BY <1>4, Alone DEF Planned
<1> QED BY <1>2, <1>4, <1>5, <1>7, <1>8, FilesAtRest

\* A restore that is at work goes to another point of its code.
LEMMA FilesTo ==
    ASSUME TypeInv, OwnersInv, FilesInv, NEW r \in Restores, Planned(r), NEW pc \in AtWorkPc,
           pc \in {"forking", "committing"} => restore[r].next - 1 = Len(restore[r].steps),
           To(r, pc), UNCHANGED <<revisions, files, turn, edited>>
    PROVE  FilesInv'
<1> DEFINE rec == [restore[r] EXCEPT !.pc = pc]
<1>1. restore \in [Restores -> RestoreRecords] /\ restore[r] \in RestoreRecords
  BY TypeFacts
<1>2. /\ rec.pc = pc /\ rec.steps = restore[r].steps /\ rec.next = restore[r].next
      /\ rec.source = restore[r].source /\ rec.target = restore[r].target
  BY <1>1 DEF RestoreRecords
<1> HIDE DEF rec
<1>3. restore'[r] = rec /\ \A q \in Restores \ {r} : restore'[q] = restore[q]
  BY <1>1 DEF To, rec
<1>4. OnTheWay(revisions, edited, files, restore[r])
  BY DEF FilesInv
<1>5. OnTheWay(revisions, edited, files, rec)
  BY <1>2, <1>4 DEF OnTheWay
<1>6. Planned(r)' /\ Busy(r)
  BY <1>2, <1>3 DEF Planned, Busy
<1> QED BY <1>3, <1>5, <1>6, FilesOnTheWay

\* What a restore at work knows.
LEMMA WayFacts ==
    ASSUME TypeInv, OwnersInv, FilesInv, NEW r \in Restores, Planned(r)
    PROVE  LET steps == restore[r].steps
               done == restore[r].next - 1
           IN  /\ steps \in Seq(GraphSteps) /\ Len(steps) \in Nat
               /\ done \in 0..Len(steps) /\ restore[r].next = done + 1
               /\ restore[r].source = head /\ head \in 1..N /\ restore[r].target \in 1..N
               /\ Leads(revisions, steps, head, restore[r].target)
               /\ Agree(edited, files, Reached(revisions, steps, head, done))
               /\ Trail(revisions, steps, done, files)
               /\ restore[r].pc \in {"forking", "committing"} => done = Len(steps)
               /\ ~turn.on /\ \A q \in Restores \ {r} : ~Busy(q) /\ ~Planned(q)
<1>1. restore[r].steps \in Seq(GraphSteps) /\ restore[r].next \in 1..(Len(restore[r].steps) + 1)
      /\ restore[r].target \in 1..N
  BY TypeFacts DEF RecordOK, GraphSteps, N, Planned
<1>2. Len(restore[r].steps) \in Nat
  BY <1>1
<1>3. restore[r].source = head /\ head \in 1..N
  BY TypeFacts DEF OwnersInv
<1>4. ~turn.on /\ \A q \in Restores \ {r} : ~Busy(q) /\ ~Planned(q)
  BY Alone
<1>5. OnTheWay(revisions, edited, files, restore[r])
  BY DEF FilesInv
<1> QED BY <1>1, <1>2, <1>3, <1>4, <1>5 DEF OnTheWay

LEMMA FilesPlanRestore ==
    ASSUME TypeInv, CleanInv, [Next]_vars, Clean', NEW r \in Restores, PlanRestore(r)
    PROVE  FilesInv'
<1> DEFINE target == IF restore[r].boundary = "before" THEN revisions[restore[r].turn].parent
                     ELSE restore[r].turn
           context == IF restore[r].boundary = "before"
                      THEN revisions[restore[r].turn].contextBefore
                      ELSE revisions[restore[r].turn].context
           rec == [restore[r] EXCEPT !.pc = "checking", !.source = head, !.target = target,
                                     !.steps = Plan(head, target), !.context = context]
<1> USE CleanFacts
<1>1. UNCHANGED <<revisions, head, turn, files, edited>> /\ restore[r].pc = "leased"
      /\ restore[r] \in RestoreRecords
  BY DEF PlanRestore, graph, budget
<1>2. Busy(r) /\ ~Planned(r)
  BY <1>1 DEF Busy, Planned, AtWorkPc
<1>3. ~turn.on /\ \A q \in Restores \ {r} : ~Planned(q)
  BY <1>2, Alone
<1>4. Agree(edited, files, ContentIn(revisions)[head])
  BY <1>2, <1>3 DEF FilesInv
<1>5. CASE To(r, "ending")
  <2>1. restore'[r].pc = "ending" /\ \A q \in Restores \ {r} : restore'[q] = restore[q]
    BY <1>1, <1>5 DEF To, RestoreRecords
  <2>2. \A q \in Restores : Planned(q)' <=> Planned(q)
    BY <1>2, <2>1 DEF Planned, AtWorkPc
  <2> QED BY <1>1, <1>2, <2>1, <2>2, FilesOtherwise
<1>6. CASE restore' = [restore EXCEPT ![r] = rec]
  <2>1. head \in 1..N /\ Plan(head, target) \in Seq(GraphSteps)
        /\ Leads(revisions, Plan(head, target), head, target)
    BY <1>1, PlanTypes
  <2> HIDE DEF target, context
  <2>2. /\ rec.pc = "checking" /\ rec.source = head /\ rec.target = target
        /\ rec.steps = Plan(head, target) /\ rec.next = restore[r].next
    BY <1>1 DEF RestoreRecords
  <2> HIDE DEF rec
  <2>3. rec.next - 1 = 0
    BY <1>1, <2>2, TypeFacts DEF RecordOK
  <2>4. Reached(revisions, rec.steps, rec.source, 0) = ContentIn(revisions)[head]
    BY <2>2 DEF Reached
  <2>5. Trail(revisions, rec.steps, 0, files)
    <3> DEFINE h == [k \in 0..0 |-> files]
    <3>1. h \in [0..0 -> Contents] /\ h[0] = files
      BY TypeFacts
    <3> HIDE DEF h
    <3>2. Walked(revisions, h, rec.steps, 0)
      BY DEF Walked
    <3> QED BY <3>1, <3>2 DEF Trail
  <2>6. OnTheWay(revisions, edited, files, rec)
    BY <1>4, <2>1, <2>2, <2>3, <2>4, <2>5 DEF OnTheWay
  <2>7. restore'[r] = rec /\ \A q \in Restores \ {r} : restore'[q] = restore[q]
    BY <1>6
  <2>8. Planned(r)'
    BY <2>2, <2>7 DEF Planned, AtWorkPc
  <2> QED BY <1>1, <1>2, <2>6, <2>7, <2>8, FilesOnTheWay
<1> QED BY <1>5, <1>6 DEF PlanRestore

\* The position of a restore in its plan moves with the files.
LEMMA FilesNext ==
    ASSUME TypeInv, OwnersInv, FilesInv, NEW r \in Restores, Planned(r),
           NEW pc \in AtWorkPc \ {"forking", "committing"}, NEW next,
           restore' = [restore EXCEPT ![r] = [restore[r] EXCEPT !.pc = pc, !.next = next]],
           UNCHANGED <<revisions, turn, edited>>,
           Agree(edited, files', Reached(revisions, restore[r].steps, head, next - 1)),
           Trail(revisions, restore[r].steps, next - 1, files')
    PROVE  FilesInv'
<1> DEFINE rec == [restore[r] EXCEPT !.pc = pc, !.next = next]
<1>1. restore \in [Restores -> RestoreRecords] /\ restore[r] \in RestoreRecords
  BY TypeFacts
<1>2. /\ rec.pc = pc /\ rec.steps = restore[r].steps /\ rec.next = next
      /\ rec.source = restore[r].source /\ rec.target = restore[r].target
  BY <1>1 DEF RestoreRecords
<1> HIDE DEF rec
<1>3. restore' = [restore EXCEPT ![r] = rec]
  BY DEF rec
<1>4. restore'[r] = rec /\ \A q \in Restores \ {r} : restore'[q] = restore[q]
  BY <1>1, <1>3
<1>5. Leads(revisions, restore[r].steps, head, restore[r].target) /\ restore[r].source = head
  BY WayFacts
<1>6. OnTheWay(revisions, edited, files', rec)
  BY <1>2, <1>5 DEF OnTheWay
<1>7. Planned(r)' /\ Busy(r)
  BY <1>2, <1>4 DEF Planned, Busy
<1> QED BY <1>4, <1>6, <1>7, FilesOnTheWay

LEMMA FilesApplyStep ==
    ASSUME TypeInv, CleanInv, [Next]_vars, Clean', NEW r \in Restores, ApplyStep(r)
    PROVE  FilesInv'
<1> DEFINE steps == restore[r].steps
           next == restore[r].next
           step == steps[next]
<1> USE CleanFacts
<1>1. UNCHANGED <<revisions, head, turn, edited>> /\ restore[r].pc = "applying" /\ Planned(r)
      /\ restore[r] \in RestoreRecords
  BY DEF ApplyStep, graph, budget, Planned, AtWorkPc
<1>2. /\ steps \in Seq(GraphSteps) /\ Leads(revisions, steps, head, restore[r].target)
      /\ Agree(edited, files, Reached(revisions, steps, head, next - 1))
      /\ Trail(revisions, steps, next - 1, files)
  BY <1>1, WayFacts
<1>3. next \in 1..Len(steps) /\ next \in Nat /\ next # 0
  BY <1>1, TypeFacts DEF RecordOK
<1>4. CASE /\ Conflicts(step) = {} /\ files' = Applied(step, files)
           /\ restore' = [restore EXCEPT ![r].pc = "checking", ![r].next = @ + 1]
  <2>1. step \in GraphSteps
    BY <1>2, <1>3
  <2>2. Begins(revisions, step) = Reached(revisions, steps, head, next - 1)
    BY <1>2, <1>3 DEF Leads
  <2>3. Reached(revisions, steps, head, next) = Ends(revisions, step)
    BY <1>3 DEF Reached
  <2>4. \A f \in revisions[step.revision].paths :
            files[f] = Image(revisions[step.revision], Opposite(step.direction))[f]
    BY <1>4 DEF Conflicts
  <2>5. Trail(revisions, steps, next, files')
    <3>1. files \in Contents
      BY TypeFacts
    <3> HIDE DEF steps, next
    <3> QED BY <1>2, <1>3, <1>4, <2>4, <3>1, WalksOn
  <2>6. Agree(edited, files', Reached(revisions, steps, head, next))
    <3> HIDE DEF step, steps, next
    <3> QED BY <1>2, <1>4, <2>1, <2>2, <2>3, StepMoves DEF Agree
  <2>7. restore' = [restore EXCEPT ![r] = [restore[r] EXCEPT !.pc = "checking", !.next = next + 1]]
    BY <1>1, <1>4 DEF RestoreRecords
  <2>8. "checking" \in AtWorkPc \ {"forking", "committing"} /\ (next + 1) - 1 = next
    BY <1>3 DEF AtWorkPc
  <2> HIDE DEF step, next, steps
  <2>9. Trail(revisions, steps, (next + 1) - 1, files') /\ OwnersInv /\ FilesInv
    BY <1>1, <2>5, <2>8
  <2> QED BY <1>1, <2>6, <2>7, <2>8, <2>9, FilesNext DEF next, steps
<1>5. CASE To(r, "undoing") /\ UNCHANGED files
  BY <1>1, <1>5, FilesTo DEF AtWorkPc
<1> QED BY <1>4, <1>5 DEF ApplyStep

LEMMA FilesUndoStep ==
    ASSUME TypeInv, CleanInv, [Next]_vars, Clean', NEW r \in Restores, UndoStep(r)
    PROVE  FilesInv'
<1> DEFINE steps == restore[r].steps
           done == restore[r].next - 1
           inverse == InverseStep(steps[done])
<1> USE CleanFacts
<1>1. UNCHANGED <<revisions, head, turn, edited>> /\ restore[r].pc = "undoing" /\ Planned(r)
      /\ restore[r] \in RestoreRecords
  BY DEF UndoStep, graph, budget, Planned, AtWorkPc
<1>2. /\ steps \in Seq(GraphSteps) /\ Leads(revisions, steps, head, restore[r].target)
      /\ Agree(edited, files, Reached(revisions, steps, head, done))
      /\ Trail(revisions, steps, done, files)
      /\ done \in 0..Len(steps) /\ Len(steps) \in Nat
      /\ ~turn.on /\ \A q \in Restores \ {r} : ~Planned(q)
  BY <1>1, WayFacts
<1>3. CASE done = 0
  <2>1. To(r, "ending") /\ UNCHANGED files
    BY <1>3 DEF UndoStep
  <2>2. restore'[r].pc = "ending" /\ \A q \in Restores \ {r} : restore'[q] = restore[q]
    BY <1>1, <2>1 DEF To, RestoreRecords
  <2>3. \A q \in Restores : ~Planned(q)'
    BY <1>2, <2>2 DEF Planned, AtWorkPc
  <2>4. Agree(edited, files, ContentIn(revisions)[head])
    BY <1>2, <1>3 DEF Reached
  <2> QED BY <1>1, <1>2, <2>1, <2>3, <2>4, FilesAtRest
<1>4. CASE done # 0
  <2>1. done \in 1..Len(steps) /\ done > 0
    <3>1. done \in 0..Len(steps) /\ Len(steps) \in Nat
      BY <1>2
    <3> HIDE DEF done, steps
    <3> QED BY <1>4, <3>1
  <2>2. steps[done] \in GraphSteps /\ inverse \in GraphSteps
    BY <1>2, <2>1, InverseTypes
  <2>3. /\ \A f \in revisions[steps[done].revision].paths :
               files[f] = Image(revisions[steps[done].revision], steps[done].direction)[f]
        /\ Trail(revisions, steps, done - 1, Applied(inverse, files))
    <3>1. files \in Contents
      BY TypeFacts
    <3> HIDE DEF steps, done
    <3> QED BY <1>2, <2>1, <3>1, WalksBack
  <2>4. Conflicts(inverse) = {}
    <3>1. inverse.revision = steps[done].revision
          /\ Opposite(inverse.direction) = steps[done].direction
      BY <2>2, InverseTypes
    <3> HIDE DEF steps, done, inverse
    <3> QED BY <2>3, <3>1 DEF Conflicts
  <2>5. files' = Applied(inverse, files) /\ restore' = [restore EXCEPT ![r].next = @ - 1]
    BY <2>1, <2>4 DEF UndoStep, InverseStep
  <2>6. Reached(revisions, steps, head, done) = Begins(revisions, inverse)
    BY <2>1, <2>2, InverseContents DEF Reached
  <2>7. Reached(revisions, steps, head, done - 1) = Ends(revisions, inverse)
    BY <1>2, <2>1, <2>2, InverseContents DEF Leads
  <2>8. Agree(edited, files', Reached(revisions, steps, head, done - 1))
    <3> HIDE DEF inverse, steps, done
    <3> QED BY <1>2, <2>2, <2>5, <2>6, <2>7, StepMoves DEF Agree
  <2>9. restore' = [restore EXCEPT ![r] = [restore[r] EXCEPT !.pc = "undoing", !.next = done]]
    BY <1>1, <2>5 DEF RestoreRecords
  <2>10. "undoing" \in AtWorkPc \ {"forking", "committing"}
    BY DEF AtWorkPc
  <2>11. Trail(revisions, steps, done - 1, files')
    BY <2>3, <2>5
  <2> HIDE DEF done
  <2> QED BY <1>1, <2>8, <2>9, <2>10, <2>11, FilesNext
<1> QED BY <1>3, <1>4

LEMMA FilesCommitRestore ==
    ASSUME TypeInv, CleanInv, [Next]_vars, Clean', NEW r \in Restores, CommitRestore(r)
    PROVE  FilesInv'
<1> USE CleanFacts
<1>1. UNCHANGED <<turn, files, edited>> /\ restore[r].pc = "committing" /\ Planned(r)
  BY DEF CommitRestore, budget, Planned, AtWorkPc
<1>2. CASE To(r, "undoing") /\ UNCHANGED graph
  <2>1. "undoing" \in AtWorkPc /\ UNCHANGED revisions
    BY <1>2 DEF AtWorkPc, graph
  <2> QED BY <1>1, <1>2, <2>1, FilesTo
<1>3. CASE CanCommit(r) /\ Committed(r)
           /\ restore' = [restore EXCEPT ![r] = [NoRestore EXCEPT !.pc = "ending"]]
  <2> DEFINE x == RestoreRevision(r)
             steps == restore[r].steps
             target == restore[r].target
  <2>1. /\ Agree(edited, files, Reached(revisions, steps, head, Len(steps)))
        /\ Leads(revisions, steps, head, target)
        /\ ~turn.on /\ \A q \in Restores \ {r} : ~Planned(q)
    BY <1>1, WayFacts
  <2>2. Agree(edited, files, ContentIn(revisions)[target])
    BY <2>1 DEF Leads
  <2>3. /\ x \in Revisions /\ x.parent \in 1..N /\ x.parent = target /\ x.kind = "restore"
        /\ x.paths = {} /\ lease.live /\ revisions' = Append(revisions, x) /\ head' = N + 1
    BY <1>1, <1>3, CommittedGrows
  <2> HIDE DEF x
  <2>4. ContentIn(revisions')[N + 1] = Grown(x, ContentIn(revisions)[target])
    BY <2>3, Grows, InGraph
  <2>5. Agree(edited, files, Grown(x, ContentIn(revisions)[target]))
    BY <2>2, <2>3 DEF Agree, Grown
  <2>6. restore'[r] = [NoRestore EXCEPT !.pc = "ending"]
        /\ \A q \in Restores \ {r} : restore'[q] = restore[q]
    BY <1>3
  <2>7. \A q \in Restores : ~Planned(q)'
    BY <2>1, <2>6 DEF Planned, AtWorkPc, NoRestore
  <2> QED BY <1>1, <2>1, <2>3, <2>4, <2>5, <2>7, FilesAtRest
<1> QED BY <1>2, <1>3 DEF CommitRestore

LEMMA FilesRestoreDies ==
    ASSUME TypeInv, CleanInv, [Next]_vars, Clean', NEW r \in Restores, RestoreDies(r)
    PROVE  FilesInv'
<1> DEFINE done == restore[r].next - 1
           steps == restore[r].steps
<1> USE CleanFacts
<1>1. UNCHANGED <<revisions, head, turn, files>>
      /\ edited' = edited \union UNION {revisions[steps[k].revision].paths : k \in 1..done}
  BY DEF RestoreDies, graph
<1>2. restore'[r] = [NoRestore EXCEPT !.pc = "gone"]
      /\ \A q \in Restores \ {r} : restore'[q] = restore[q]
  BY DEF RestoreDies
<1>3. ~Planned(r)' /\ \A q \in Restores \ {r} : Planned(q)' <=> Planned(q)
  BY <1>2 DEF Planned, AtWorkPc, NoRestore
<1>4. CASE ~Planned(r)
  <2>1. \A q \in Restores : Planned(q)' <=> Planned(q)
    BY <1>3, <1>4
  <2>2. \A q \in Restores : Planned(q) => restore'[q] = restore[q]
    BY <1>2, <1>4
  <2> QED BY <1>1, <2>1, <2>2, FilesOtherwise
<1>5. CASE Planned(r)
  <2>1. /\ steps \in Seq(GraphSteps) /\ done \in 0..Len(steps) /\ head \in 1..N
        /\ Leads(revisions, steps, head, restore[r].target)
        /\ Agree(edited, files, Reached(revisions, steps, head, done))
        /\ ~turn.on /\ \A q \in Restores \ {r} : ~Planned(q)
    BY <1>5, WayFacts
  <2> HIDE DEF steps, done
  <2>2. ASSUME NEW f \in Files \ edited' PROVE files[f] = ContentIn(revisions)[head][f]
    <3>1. \A k \in 1..done : f \notin revisions[steps[k].revision].paths
      BY <1>1
    <3>2. Reached(revisions, steps, head, done)[f] = ContentIn(revisions)[head][f]
      BY <2>1, <3>1, ReachedOutside
    <3> QED BY <2>1, <3>2 DEF Agree
  <2>3. Agree(edited', files', ContentIn(revisions')[head'])
    BY <1>1, <2>2 DEF Agree
  <2>4. ~turn'.on /\ \A q \in Restores : ~Planned(q)'
    BY <1>1, <1>3, <2>1
  <2> QED BY <2>3, <2>4, FilesAtRest
<1> QED BY <1>4, <1>5

LEMMA FilesStay == TypeInv /\ CleanInv /\ [Next]_vars /\ Clean' => FilesInv'
<1> SUFFICES ASSUME TypeInv, CleanInv, [Next]_vars, Clean' PROVE FilesInv'
  OBVIOUS
<1> USE CleanFacts
<1>1. CASE BeginTurn \/ TurnDies \/ \E f \in Files : TurnWrites(f) \/ Edit(f)
  BY <1>1, FilesOfTurns
<1>2. CASE EndTurnSomehow
  BY <1>2, FilesEndTurn
<1>3. CASE UNCHANGED vars \/ RecoverRoom \/ LeaseExpires
  <2>1. UNCHANGED <<revisions, head, files, turn, restore>>
    BY <1>3 DEF vars, RecoverRoom, LeaseExpires, graph
  <2> QED BY <2>1, FilesOtherwise DEF Planned
<1>4. ASSUME NEW r \in Restores,
             (\E t \in DOMAIN revisions, b \in {"before", "after"} : StartRestore(r, t, b))
             \/ EndRestore(r)
      PROVE  FilesInv'
  <2>1. UNCHANGED <<revisions, head, files, turn>> /\ restore[r].pc \in {"idle", "ending"}
    BY <1>4 DEF StartRestore, EndRestore, graph
  <2>2. ~Planned(r) /\ ~Planned(r)'
    <3>0. restore \in [Restores -> RestoreRecords]
      OBVIOUS
    <3>1. restore'[r].pc \in {"leased", "idle"}
      <4>1. CASE EndRestore(r)
        <5>1. restore'[r] = NoRestore
          BY <3>0, <4>1 DEF EndRestore
        <5> QED BY <5>1 DEF NoRestore
      <4>2. CASE \E t \in DOMAIN revisions, b \in {"before", "after"} : StartRestore(r, t, b)
        <5>1. PICK t \in DOMAIN revisions, b \in {"before", "after"} : StartRestore(r, t, b)
          BY <4>2
        <5> DEFINE rec == [NoRestore EXCEPT !.pc = "leased", !.turn = t, !.boundary = b]
        <5>2. rec.pc = "leased"
          BY DEF NoRestore
        <5> HIDE DEF rec
        <5>3. restore' = [restore EXCEPT ![r] = rec]
          BY <5>1 DEF StartRestore, rec
        <5>4. restore'[r] = rec
          BY <3>0, <5>3
        <5> QED BY <5>2, <5>4
      <4> QED BY <1>4, <4>1, <4>2
    <3> QED BY <2>1, <3>1 DEF Planned, AtWorkPc
  <2>3. \A q \in Restores \ {r} : restore'[q] = restore[q]
    BY <1>4 DEF StartRestore, EndRestore
  <2>4. \A q \in Restores : Planned(q)' <=> Planned(q)
    BY <2>2, <2>3 DEF Planned
  <2> QED BY <2>1, <2>2, <2>3, <2>4, FilesOtherwise
<1>5. ASSUME NEW r \in Restores, CheckLease(r) PROVE FilesInv'
  <2>1. UNCHANGED <<revisions, files, turn, edited>> /\ Planned(r)
    BY <1>5 DEF CheckLease, graph, budget, Planned, AtWorkPc
  <2>2. PICK pc \in AtWorkPc :
            To(r, pc) /\ (pc \in {"forking", "committing"} =>
                              ~(restore[r].next <= Len(restore[r].steps)))
    BY <1>5 DEF CheckLease, AtWorkPc
  <2>3. restore[r].next \in 1..(Len(restore[r].steps) + 1) /\ Len(restore[r].steps) \in Nat
    BY <2>1, WayFacts
  <2>4. pc \in {"forking", "committing"} => restore[r].next - 1 = Len(restore[r].steps)
    BY <2>2, <2>3
  <2> QED BY <2>1, <2>2, <2>4, FilesTo
<1>6. ASSUME NEW r \in Restores, ForkThread(r) PROVE FilesInv'
  <2>1. UNCHANGED <<revisions, files, turn, edited>> /\ Planned(r) /\ restore[r].pc = "forking"
    BY <1>6 DEF ForkThread, graph, budget, Planned, AtWorkPc
  <2>2. PICK pc \in AtWorkPc : To(r, pc)
    BY <1>6 DEF ForkThread, AtWorkPc
  <2>3. restore[r].next - 1 = Len(restore[r].steps)
    BY <2>1, WayFacts
  <2> QED BY <2>1, <2>2, <2>3, FilesTo
<1>7. ASSUME NEW r \in Restores, CommitUnacknowledged(r) PROVE FilesInv'
  BY <1>7, CleanSteps
<1> QED BY <1>1, <1>2, <1>3, <1>4, <1>5, <1>6, <1>7, FilesPlanRestore, FilesApplyStep,
           FilesCommitRestore, FilesUndoStep, FilesRestoreDies DEF Next, RestoreStep

LEMMA CleanStays == TypeInv /\ CleanInv /\ [Next]_vars => CleanInv'
  BY OwnersStay, ImagesStay, FilesStay DEF CleanInv, CleanParts

LEMMA CleanInit == Init => CleanInv
<1> SUFFICES ASSUME Init PROVE CleanParts
  BY DEF CleanInv
<1>1. Tree(revisions) /\ revisions[1] = Root /\ N = 1 /\ Len(revisions) = 1
  BY TypesInit DEF TypeInv, Init, N
<1>2. \A r \in Restores : ~Planned(r) /\ ~Busy(r)
  BY DEF Init, NoRestore, Planned, Busy, AtWorkPc
<1>3. OwnersInv
  BY <1>2 DEF OwnersInv, Init, NoTurn
<1>4. ImageInv
  BY <1>1 DEF ImageInv, Root
<1>5. ContentIn(revisions)[1] = Grown(Root, Untouched)
  <2>1. Root.parent = 0 /\ 1 \in 1..Len(revisions)
    BY <1>1 DEF Root
  <2> QED BY <1>1, <2>1, ContentDefined
<1>6. Agree(edited, files, ContentIn(revisions)[head])
  BY <1>5 DEF Init, Agree, Grown, Root
<1>7. FilesInv
  BY <1>2, <1>6 DEF FilesInv, Init, NoTurn
<1> QED BY <1>3, <1>4, <1>7 DEF CleanParts

\* While at most servers crash, the workspace at rest holds what its head stands for,
\* in every file that nobody else edited and no crash left changed: whoever works holds
\* the lease, each step of a plan moves the files from one revision's content to the
\* next one's, and none that is taken back meets a conflict.
THEOREM RestIsTheHead == Spec => []WorkspaceAtHead
<1>1. Init => TypeInv /\ CleanInv
  BY TypesInit, CleanInit
<1>2. TypeInv /\ CleanInv /\ [Next]_vars => (TypeInv /\ CleanInv)'
  BY TypesStay, CleanStays
<1>3. TypeInv /\ CleanInv => WorkspaceAtHead
  <2> SUFFICES ASSUME TypeInv, CleanInv, Quiet, faults \subseteq {"crash"} PROVE AtHead
    BY DEF WorkspaceAtHead
  <2>1. ~turn.on /\ \A r \in Restores : ~Planned(r)
    BY DEF Quiet, Planned, AtWorkPc
  <2>2. Agree(edited, files, ContentIn(revisions)[head])
    BY <2>1 DEF CleanInv, Clean, CleanParts, FilesInv
  <2> QED BY <2>2, InGraph DEF AtHead, Agree
<1> QED BY <1>1, <1>2, <1>3, PTL DEF Spec

\* What a plan's steps make of its source's content, one after the other.
LEMMA RunReaches ==
    ASSUME TypeInv, ImageInv, edited = {}, NEW source \in 1..N, NEW target \in 1..N,
           NEW steps \in Seq(GraphSteps), Leads(revisions, steps, source, target)
    PROVE  LET Run[n \in 0..Len(steps)] == IF n = 0 THEN ContentOf[source]
                                           ELSE Applied(steps[n], Run[n - 1])
           IN  Run[Len(steps)] = ContentOf[target]
<1> DEFINE L == Len(steps)
           reached == [n \in 0..L |-> Reached(revisions, steps, source, n)]
           Eq(c) == c = [n \in 0..L |-> IF n = 0 THEN ContentOf[source]
                                        ELSE Applied(steps[n], c[n - 1])]
           Run == CHOOSE c : Eq(c)
<1>1. L \in Nat /\ Tree(revisions) /\ ContentIn(revisions) = ContentOf
  BY TypeFacts, InGraph
<1>2. \A n \in 1..L : steps[n] \in GraphSteps
  OBVIOUS
<1> HIDE DEF L
<1>3. Reached(revisions, steps, source, 0) = ContentOf[source]
  BY <1>1 DEF Reached
<1>4. ASSUME NEW n \in 1..L, NEW c \in Contents, c = Reached(revisions, steps, source, n - 1)
      PROVE  Applied(steps[n], c) = Reached(revisions, steps, source, n)
  <2>1. Begins(revisions, steps[n]) = c
    BY <1>4 DEF Leads, L
  <2>2. Reached(revisions, steps, source, n) = Ends(revisions, steps[n])
    BY <1>1 DEF Reached
  <2>3. \A f \in Files : Applied(steps[n], c)[f] = Ends(revisions, steps[n])[f]
    BY <1>2, <2>1, StepMoves
  <2>4. Applied(steps[n], c) \in Contents /\ Ends(revisions, steps[n]) \in Contents
    BY <1>2, <1>4, AppliedTypes, StepContents
  <2> QED BY <2>2, <2>3, <2>4 DEF Contents
<1>5. \A n \in 0..L : Reached(revisions, steps, source, n) \in Contents
  <2> TAKE n \in 0..L
  <2>1. CASE n = 0
    BY <1>1, <2>1, <1>3, ContentDefined DEF N
  <2>2. CASE n # 0
    <3>1. n \in 1..L
      BY <1>1, <2>2
    <3> QED BY <1>2, <2>2, <3>1, StepContents DEF Reached
  <2> QED BY <2>1, <2>2
<1>6. \A n \in 1..L : Applied(steps[n], Reached(revisions, steps, source, n - 1))
                          = Reached(revisions, steps, source, n)
  <2> TAKE n \in 1..L
  <2>1. n - 1 \in 0..L
    BY <1>1
  <2> QED BY <1>4, <1>5, <2>1
<1>7. Eq(reached)
  <2>1. \A n \in 1..L : n - 1 \in 0..L /\ n # 0
    BY <1>1
  <2>2. \A n \in 0..L : reached[n] = IF n = 0 THEN ContentOf[source]
                                     ELSE Applied(steps[n], reached[n - 1])
    <3> TAKE n \in 0..L
    <3>1. CASE n = 0
      BY <1>3, <3>1
    <3>2. CASE n # 0
      <4>1. n \in 1..L
        BY <1>1, <3>2
      <4>2. reached[n - 1] = Reached(revisions, steps, source, n - 1)
        BY <2>1, <4>1
      <4> QED BY <1>6, <3>2, <4>1, <4>2
    <3> QED BY <3>1, <3>2
  <2> QED BY <2>2
<1>8. Eq(Run)
  <2> HIDE DEF Eq, reached
  <2> QED BY <1>7
<1>9. \A n \in 0..L : Run[n] = Reached(revisions, steps, source, n)
  <2> HIDE DEF Run
  <2> DEFINE T == {n \in Nat : n <= L => Run[n] = Reached(revisions, steps, source, n)}
  <2>1. 0 \in T
    BY <1>1, <1>3, <1>8
  <2>2. ASSUME NEW n \in T PROVE n + 1 \in T
    <3> SUFFICES ASSUME n + 1 <= L
                 PROVE  Run[n + 1] = Reached(revisions, steps, source, n + 1)
      OBVIOUS
    <3>1. n + 1 \in 1..L /\ n + 1 \in 0..L /\ n + 1 # 0 /\ (n + 1) - 1 = n /\ n <= L
      BY <1>1
    <3>2. Run[n + 1] = Applied(steps[n + 1], Run[n])
      BY <1>8, <3>1
    <3>3. Run[n] = Reached(revisions, steps, source, n)
      BY <3>1
    <3> QED BY <1>6, <3>1, <3>2, <3>3
  <2>3. T = Nat
    <3> T \in SUBSET Nat
      OBVIOUS
    <3> HIDE DEF T
    <3> QED BY <2>1, <2>2, InductionOnSet
  <2>4. \A n \in 0..L : n \in T
    BY <1>1, <2>3
  <2> QED BY <2>4
<1>10. Run[L] = ContentOf[target]
  BY <1>1, <1>9 DEF Leads, L
<1> QED BY <1>10 DEF L

\* From the head every revision is reached by its plan: while at most servers crash and
\* nobody has edited, the steps turn the head's files into the target's.
THEOREM PlansReachTheirTarget == Spec => []PlansLeadToTarget
<1>1. Init => TypeInv /\ CleanInv
  BY TypesInit, CleanInit
<1>2. TypeInv /\ CleanInv /\ [Next]_vars => (TypeInv /\ CleanInv)'
  BY TypesStay, CleanStays
<1>3. TypeInv /\ CleanInv => PlansLeadToTarget
  <2> SUFFICES ASSUME TypeInv, CleanInv, edited = {}, faults \subseteq {"crash"},
                      NEW t \in DOMAIN revisions
               PROVE  LET steps == Plan(head, t)
                          Run[n \in 0..Len(steps)] == IF n = 0 THEN ContentOf[head]
                                                      ELSE Applied(steps[n], Run[n - 1])
                      IN  Run[Len(steps)] = ContentOf[t]
    BY DEF PlansLeadToTarget
  <2> DEFINE steps == Plan(head, t)
  <2>1. head \in 1..N /\ t \in 1..N /\ Tree(revisions) /\ ImageInv
    BY TypeFacts DEF CleanInv, Clean, CleanParts
  <2>2. steps \in Seq(GraphSteps) /\ Leads(revisions, steps, head, t)
    BY <2>1, PlanLeads
  <2> HIDE DEF steps
  <2>3. LET Run[n \in 0..Len(steps)] == IF n = 0 THEN ContentOf[head]
                                        ELSE Applied(steps[n], Run[n - 1])
        IN  Run[Len(steps)] = ContentOf[t]
    BY <2>1, <2>2, RunReaches
  <2> QED BY <2>3 DEF steps
<1> QED BY <1>1, <1>2, <1>3, PTL DEF Spec

=============================================================================
