------------------------------- MODULE WorkflowProofs -------------------------------
(*******************************************************************************)
(* Proofs about Workflow: whatever the definition is, the stack is a path of it that *)
(* finds the task the definition says, the process has one task under way at most    *)
(* and is never left without somebody who calls it back.                             *)
(*******************************************************************************)
EXTENDS Workflow, WellFoundedInduction, TLAPS

--------------------------------------------------------------------------------
(* Numbers, and functions defined by recursion *)

\* A set of naturals that is not empty has a least one.
LEMMA NatMin ==
    ASSUME NEW T, T \subseteq Nat, T # {}
    PROVE  \E x \in T : \A y \in T : x <= y
<1> DEFINE R == OpToRel(<, Nat)
<1>1. IsWellFoundedOn(R, Nat)
    BY NatLessThanWellFounded
<1>2. \A x, y \in Nat : y < x => <<y, x>> \in R
    BY DEF OpToRel
<1> HIDE DEF R
<1>3. PICK x \in T : \A y \in T : ~(<<y, x>> \in R)
    BY <1>1, WFMin
<1> SUFFICES ASSUME NEW y \in T PROVE x <= y
    OBVIOUS
<1>4. x \in Nat /\ y \in Nat
    OBVIOUS
<1>5. ~(y < x)
    BY <1>2, <1>3, <1>4
<1> QED
    BY <1>4, <1>5

\* Such a set has a greatest one if it is bounded: the last index of a sequence at which
\* something is found exists.
LEMMA BoundedMax ==
    ASSUME NEW b \in Nat, NEW S, S \subseteq 1..b, S # {}
    PROVE  \E i \in S : \A j \in S : j <= i
<1> DEFINE T == {b - i : i \in S}
<1>1. PICK x \in T : \A y \in T : x <= y
  <2>1. \A i \in S : b - i \in Nat
    <3>1. \A i \in 1..b : b - i \in Nat
        OBVIOUS
    <3> QED
        BY <3>1
  <2>2. T \subseteq Nat /\ T # {}
      BY <2>1
  <2> HIDE DEF T
  <2> QED
      BY <2>2, NatMin
<1>2. PICK i \in S : x = b - i
    OBVIOUS
<1>3. ASSUME NEW j \in S PROVE j <= i
  <2>1. b - i <= b - j
      BY <1>1, <1>2
  <2>2. i \in 1..b /\ j \in 1..b
      OBVIOUS
  <2> QED
      BY <2>1, <2>2
<1> QED
    BY <1>3

--------------------------------------------------------------------------------
\* A function f on E is defined by recursion: by base on B, and elsewhere by comb from
\* its value at pred, which leads to B.
IsRecursion(E, V, B, pred, base, comb) ==
    /\ B \in SUBSET E
    /\ \A e \in E \ B : pred[e] \in E
    /\ \A e \in B : base[e] \in V
    /\ \A e \in E \ B : \A v \in V : comb[e][v] \in V
    /\ \A S \in SUBSET E : S # {} => \E e \in S : e \in B \/ pred[e] \notin S

\* Whatever satisfies its equations, where they have values, is f.
IsSolution(f, E, V, B, pred, base, comb) ==
    /\ f \in [E -> V]
    /\ \A e \in E : f[e] = IF e \in B THEN base[e] ELSE comb[e][f[pred[e]]]
    /\ \A h : /\ h = [e \in E |-> h[e]]
              /\ \A e \in B : h[e] = base[e]
              /\ \A e \in E \ B : h[pred[e]] \in V => h[e] = comb[e][h[pred[e]]]
              => h = f

\* There is one.
LEMMA LinearRecursion ==
    ASSUME NEW E, NEW V, NEW B, NEW pred, NEW base, NEW comb,
           IsRecursion(E, V, B, pred, base, comb)
    PROVE  \E f : IsSolution(f, E, V, B, pred, base, comb)
<1> SUFFICES ASSUME B \in SUBSET E,
                    \A e \in E \ B : pred[e] \in E,
                    \A e \in B : base[e] \in V,
                    \A e \in E \ B : \A v \in V : comb[e][v] \in V,
                    \A S \in SUBSET E : S # {} => \E e \in S : e \in B \/ pred[e] \notin S
             PROVE  \E f : IsSolution(f, E, V, B, pred, base, comb)
    BY DEF IsRecursion
<1> DEFINE Closed(F) == /\ \A e \in B : <<e, base[e]>> \in F
                        /\ \A e \in E \ B : \A v \in V : <<pred[e], v>> \in F =>
                              <<e, comb[e][v]>> \in F
           G == {p \in E \X V : \A F \in SUBSET (E \X V) : Closed(F) => p \in F}
<1>1. Closed(G)
  <2>1. ASSUME NEW e \in B PROVE <<e, base[e]>> \in G
    <3>1. <<e, base[e]>> \in E \X V
        OBVIOUS
    <3> QED
        BY <3>1
  <2>2. ASSUME NEW e \in E \ B, NEW v \in V, <<pred[e], v>> \in G PROVE <<e, comb[e][v]>> \in G
    <3>1. <<e, comb[e][v]>> \in E \X V
        OBVIOUS
    <3>2. ASSUME NEW F \in SUBSET (E \X V), Closed(F) PROVE <<e, comb[e][v]>> \in F
      <4>1. <<pred[e], v>> \in F
          BY <2>2, <3>2
      <4> QED
          BY <3>2, <4>1
    <3> QED
        BY <3>1, <3>2
  <2> QED
      BY <2>1, <2>2
<1>2. ASSUME NEW e \in E, NEW v \in V, <<e, v>> \in G, NEW H, H = G \ {<<e, v>>}, Closed(H)
      PROVE FALSE
  <2>1. H \in SUBSET (E \X V)
      BY <1>2
  <2>2. <<e, v>> \in H
      BY <1>2, <2>1
  <2> QED
      BY <1>2, <2>2
<1> HIDE DEF G
<1>3. ASSUME NEW e \in B, NEW v \in V, <<e, v>> \in G PROVE v = base[e]
  <2> SUFFICES ASSUME v # base[e] PROVE FALSE
      OBVIOUS
  <2> DEFINE H == G \ {<<e, v>>}
  <2>1. \A x \in B : <<x, base[x]>> \in H
      BY <1>1
  <2>2. \A x \in E \ B : \A w \in V : <<pred[x], w>> \in H => <<x, comb[x][w]>> \in H
      BY <1>1
  <2>3. Closed(H)
      BY <2>1, <2>2
  <2> QED
      BY <1>2, <1>3, <2>3
<1>4. ASSUME NEW e \in E \ B, NEW v \in V, <<e, v>> \in G
      PROVE  \E w \in V : <<pred[e], w>> \in G /\ v = comb[e][w]
  <2> SUFFICES ASSUME \A w \in V : <<pred[e], w>> \in G => v # comb[e][w] PROVE FALSE
      OBVIOUS
  <2> DEFINE H == G \ {<<e, v>>}
  <2>1. \A x \in B : <<x, base[x]>> \in H
      BY <1>1
  <2>2. ASSUME NEW x \in E \ B, NEW w \in V, <<pred[x], w>> \in H PROVE <<x, comb[x][w]>> \in H
    <3>1. <<pred[x], w>> \in G
        BY <2>2
    <3>2. <<x, comb[x][w]>> \in G
        BY <1>1, <3>1
    <3>3. <<x, comb[x][w]>> # <<e, v>>
        BY <3>1
    <3> QED
        BY <3>2, <3>3
  <2>3. Closed(H)
      BY <2>1, <2>2
  <2> QED
      BY <1>2, <1>4, <2>3
<1>a. \A e \in E \ B : \A v \in V : <<e, v>> \in G =>
         \E w \in V : <<pred[e], w>> \in G /\ v = comb[e][w]
    BY <1>4
<1> HIDE DEF Closed
<1> DEFINE Good(e) == \E v \in V : <<e, v>> \in G /\ \A w \in V : <<e, w>> \in G => w = v
<1>5. \A e \in E : Good(e)
  <2> DEFINE S == {e \in E : ~Good(e)}
  <2> SUFFICES ASSUME S # {} PROVE FALSE
      OBVIOUS
  <2> HIDE DEF Good
  <2>1. PICK e \in S : e \in B \/ pred[e] \notin S
      OBVIOUS
  <2>2. CASE e \in B
    <3>1. base[e] \in V /\ <<e, base[e]>> \in G
        BY <1>1, <2>2 DEF Closed
    <3>2. Good(e)
        BY <1>3, <2>2, <3>1 DEF Good
    <3> QED
        BY <3>2
  <2>3. CASE e \in E \ B
    <3>1. pred[e] \in E /\ Good(pred[e])
        BY <2>1, <2>3
    <3>2. PICK w \in V : <<pred[e], w>> \in G /\ \A x \in V : <<pred[e], x>> \in G => x = w
        BY <3>1 DEF Good
    <3>3. comb[e][w] \in V /\ <<e, comb[e][w]>> \in G
        BY <1>1, <2>3, <3>2 DEF Closed
    <3>4. ASSUME NEW v \in V, <<e, v>> \in G PROVE v = comb[e][w]
      <4>1. PICK x \in V : <<pred[e], x>> \in G /\ v = comb[e][x]
          BY <1>a, <2>3, <3>4
      <4> QED
          BY <3>2, <4>1
    <3>5. Good(e)
        BY <3>3, <3>4 DEF Good
    <3> QED
        BY <3>5
  <2> QED
      BY <2>2, <2>3
<1> DEFINE f == [e \in E |-> CHOOSE v \in V : <<e, v>> \in G]
<1>6. \A e \in E : f[e] \in V /\ <<e, f[e]>> \in G /\ \A w \in V : <<e, w>> \in G => w = f[e]
    BY <1>5
<1>7. f \in [E -> V]
    BY <1>6
<1> HIDE DEF f, Good
<1>8. \A e \in E : f[e] = IF e \in B THEN base[e] ELSE comb[e][f[pred[e]]]
  <2>1. ASSUME NEW e \in B PROVE f[e] = base[e]
      BY <1>3, <1>6
  <2>2. ASSUME NEW e \in E \ B PROVE f[e] = comb[e][f[pred[e]]]
    <3>1. PICK w \in V : <<pred[e], w>> \in G /\ f[e] = comb[e][w]
      <4>1. f[e] \in V /\ <<e, f[e]>> \in G
          BY <1>6
      <4> QED
          BY <1>a, <4>1
    <3>2. pred[e] \in E
        OBVIOUS
    <3> QED
        BY <1>6, <3>1, <3>2
  <2> QED
      BY <2>1, <2>2
<1>9. ASSUME NEW h, h = [e \in E |-> h[e]],
             \A e \in B : h[e] = base[e],
             \A e \in E \ B : h[pred[e]] \in V => h[e] = comb[e][h[pred[e]]]
      PROVE  h = f
  <2> DEFINE S == {e \in E : h[e] # f[e]}
  <2>1. S = {}
    <3> SUFFICES ASSUME S # {} PROVE FALSE
        OBVIOUS
    <3>1. PICK e \in S : e \in B \/ pred[e] \notin S
        OBVIOUS
    <3>2. CASE e \in B
        BY <1>8, <1>9, <3>2
    <3>3. CASE e \in E \ B
      <4>1. h[pred[e]] = f[pred[e]] /\ f[pred[e]] \in V
          BY <1>6, <3>1, <3>3
      <4> QED
          BY <1>8, <1>9, <3>3, <4>1
    <3> QED
        BY <3>2, <3>3
  <2>2. \A e \in E : h[e] = f[e]
      BY <2>1
  <2>3. f = [e \in E |-> f[e]]
      BY <1>7
  <2> QED
      BY <1>9, <2>2, <2>3
<1> QED
    BY <1>7, <1>8, <1>9 DEF IsSolution

--------------------------------------------------------------------------------
(* Definitions: places, first tasks and what follows an element *)

Frames(d) == [el : DOMAIN d.kind \cup {Process}, index : Nat]
Kid(d, f) == d.kids[f.el][f.index]

\* A stack of places that leads down from the process
IsPath(d, s) ==
    /\ s \in Seq(Frames(d))
    /\ \A n \in 1 .. Len(s) : /\ s[n].index \in 1 .. Len(d.kids[s[n].el])
                              /\ n > 1 => Kid(d, s[n - 1]) = s[n].el
    /\ s # <<>> => s[1].el = Process
Leads(d, s, e) == IsPath(d, s) /\ s # <<>> /\ Kid(d, s[Len(s)]) = e

\* Each element is at one place, below the process or another element.
LEMMA Places ==
    ASSUME NEW d \in Definitions
    PROVE  /\ Process \notin DOMAIN d.kind /\ None \notin DOMAIN d.kind /\ End \notin DOMAIN d.kind
           /\ DOMAIN d.kids = DOMAIN d.kind \cup {Process}
           /\ \A p \in DOMAIN d.kids : d.kids[p] \in Seq(DOMAIN d.kind)
           /\ \A e \in DOMAIN d.kind :
                /\ Flow!Parent(d, e) \in DOMAIN d.kids
                /\ Flow!Index(d, e) \in 1 .. Len(d.kids[Flow!Parent(d, e)])
                /\ d.kids[Flow!Parent(d, e)][Flow!Index(d, e)] = e
           /\ \A p \in DOMAIN d.kids : \A i \in 1 .. Len(d.kids[p]) :
                /\ d.kids[p][i] \in DOMAIN d.kind
                /\ Flow!Parent(d, d.kids[p][i]) = p /\ Flow!Index(d, d.kids[p][i]) = i
<1> DEFINE E == DOMAIN d.kind
<1>1. IsTree(d)
    BY DefinitionsAssumption
<1>2. /\ DOMAIN d.kids = E \cup {Process}
      /\ \A p \in DOMAIN d.kids : d.kids[p] \in Seq(E) /\ DOMAIN d.kids[p] = 1 .. Len(d.kids[p])
      /\ Process \notin E /\ None \notin E /\ End \notin E
    BY <1>1 DEF IsTree
<1>3. ASSUME NEW e \in E
      PROVE  \E p \in DOMAIN d.kids : \E i \in DOMAIN d.kids[p] :
                /\ d.kids[p][i] = e
                /\ \A q \in DOMAIN d.kids : \A j \in DOMAIN d.kids[q] :
                      d.kids[q][j] = e => q = p /\ j = i
    BY <1>1 DEF IsTree
<1>4. ASSUME NEW e \in E, NEW p \in DOMAIN d.kids, NEW i \in DOMAIN d.kids[p], d.kids[p][i] = e
      PROVE  Flow!Parent(d, e) = p /\ Flow!Index(d, e) = i
  <2>1. \A q \in DOMAIN d.kids : \A j \in DOMAIN d.kids[q] : d.kids[q][j] = e => q = p /\ j = i
      BY <1>3, <1>4
  <2>2. Flow!Parent(d, e) = p
    <3> DEFINE Holds(q) == \E j \in DOMAIN d.kids[q] : d.kids[q][j] = e
    <3>1. Holds(p) /\ \A q \in E \cup {Process} : Holds(q) => q = p
        BY <1>2, <1>4, <2>1
    <3> HIDE DEF Holds
    <3>2. (CHOOSE q \in E \cup {Process} : Holds(q)) = p
        BY <1>2, <3>1
    <3> QED
        BY <3>2 DEF Holds, Flow!Parent, Flow!Elements
  <2>3. (CHOOSE j \in DOMAIN d.kids[p] : d.kids[p][j] = e) = i
      BY <1>4, <2>1
  <2> QED
      BY <2>2, <2>3 DEF Flow!Index
<1>5. ASSUME NEW e \in E
      PROVE  /\ Flow!Parent(d, e) \in DOMAIN d.kids
             /\ Flow!Index(d, e) \in 1 .. Len(d.kids[Flow!Parent(d, e)])
             /\ d.kids[Flow!Parent(d, e)][Flow!Index(d, e)] = e
    BY <1>2, <1>3, <1>4
<1>6. ASSUME NEW p \in DOMAIN d.kids, NEW i \in 1 .. Len(d.kids[p])
      PROVE  d.kids[p][i] \in E
    BY <1>2
<1> QED
    BY <1>2, <1>4, <1>5, <1>6

\* The first task of an element: it is a task, found at the first element of each list.
LEMMA FirstTasks ==
    ASSUME NEW d \in Definitions
    PROVE  \A e \in DOMAIN d.kind :
              /\ Flow!FirstTask(d, e) \in DOMAIN d.kind
              /\ d.kids[Flow!FirstTask(d, e)] = <<>>
              /\ Flow!FirstTask(d, e) =
                   IF d.kids[e] = <<>> THEN e ELSE Flow!FirstTask(d, d.kids[e][1])
<1> DEFINE E == DOMAIN d.kind
           B == {e \in E : d.kids[e] = <<>>}
           pred == [e \in E |-> d.kids[e][1]]
           base == [e \in E |-> e]
           comb == [e \in E |-> [v \in B |-> v]]
           Rec(f) == f = [e \in E |-> IF d.kids[e] = <<>> THEN e ELSE f[d.kids[e][1]]]
<1>1. \A e \in E \ B : 1 \in 1 .. Len(d.kids[e]) /\ d.kids[e][1] \in E
  <2> SUFFICES ASSUME NEW e \in E \ B PROVE 1 \in 1 .. Len(d.kids[e]) /\ d.kids[e][1] \in E
      OBVIOUS
  <2>1. d.kids[e] \in Seq(E) /\ d.kids[e] # <<>>
      BY Places
  <2> QED
      BY <2>1
<1>2. \A S \in SUBSET E : S # {} => \E e \in S : e \in B \/ pred[e] \notin S
  <2> SUFFICES ASSUME NEW S \in SUBSET E, S # {} PROVE \E e \in S : e \in B \/ pred[e] \notin S
      OBVIOUS
  <2>1. PICK e \in S : \A i \in DOMAIN d.kids[e] : d.kids[e][i] \notin S
      BY DefinitionsAssumption DEF IsTree
  <2>2. DOMAIN d.kids[e] = 1 .. Len(d.kids[e])
      BY Places
  <2> QED
      BY <1>1, <2>1, <2>2
<1>3. PICK f : IsSolution(f, E, B, B, pred, base, comb)
  <2>1. /\ \A e \in E \ B : pred[e] \in E
        /\ \A e \in B : base[e] \in B
        /\ \A e \in E \ B : \A v \in B : comb[e][v] \in B
      BY <1>1
  <2>2. IsRecursion(E, B, B, pred, base, comb)
      BY <1>2, <2>1 DEF IsRecursion
  <2> HIDE DEF E, B, pred, base, comb
  <2> QED
      BY <2>2, LinearRecursion
<1>a. \A e \in E : f[e] \in B /\ f[e] = IF d.kids[e] = <<>> THEN e ELSE f[d.kids[e][1]]
  <2>1. \A e \in E : f[e] = IF e \in B THEN base[e] ELSE comb[e][f[pred[e]]]
      BY <1>3 DEF IsSolution
  <2>2. f \in [E -> B]
      BY <1>3 DEF IsSolution
  <2> QED
      BY <1>1, <2>1, <2>2
<1>4. Rec(f)
  <2>1. f = [e \in E |-> f[e]]
      BY <1>3 DEF IsSolution
  <2> QED
      BY <1>a, <2>1
<1>5. ASSUME NEW h, Rec(h) PROVE h = f
  <2>1. \A e \in E : h[e] = IF d.kids[e] = <<>> THEN e ELSE h[d.kids[e][1]]
      BY <1>5
  <2>2. h = [e \in E |-> h[e]]
      BY <1>5
  <2>3. /\ \A e \in B : h[e] = base[e]
        /\ \A e \in E \ B : h[pred[e]] \in B => h[e] = comb[e][h[pred[e]]]
      BY <1>1, <2>1
  <2> QED
      BY <1>3, <2>2, <2>3 DEF IsSolution
<1>6. (CHOOSE h : Rec(h)) = f
  <2> HIDE DEF Rec
  <2> QED
      BY <1>4, <1>5
<1>7. \A e \in E : Flow!FirstTask(d, e) = f[e]
    BY <1>6 DEF Flow!FirstTask, Flow!Elements
<1> QED
    BY <1>1, <1>a, <1>7

\* Among some elements there is one with none of them below it, and one below none.
LEMMA Founded ==
    ASSUME NEW d \in Definitions, NEW S \in SUBSET DOMAIN d.kind, S # {}
    PROVE  /\ \E e \in S : \A i \in DOMAIN d.kids[e] : d.kids[e][i] \notin S
           /\ \E e \in S : Flow!Parent(d, e) \notin S
<1>1. /\ \E e \in S : \A i \in DOMAIN d.kids[e] : d.kids[e][i] \notin S
      /\ \E e \in S : \A p \in S : \A i \in DOMAIN d.kids[p] : d.kids[p][i] # e
  <2>1. IsTree(d)
      BY DefinitionsAssumption
  <2> DEFINE Low == \E e \in S : \A i \in DOMAIN d.kids[e] : d.kids[e][i] \notin S
             High == \E e \in S : \A p \in S : \A i \in DOMAIN d.kids[p] : d.kids[p][i] # e
  <2>2. Low /\ High
      BY <2>1, Zenon DEF IsTree
  <2> QED
      BY <2>2
<1>2. PICK e \in S : \A p \in S : \A i \in DOMAIN d.kids[p] : d.kids[p][i] # e
    BY <1>1
<1>3. /\ Flow!Parent(d, e) \in DOMAIN d.kids
      /\ Flow!Index(d, e) \in DOMAIN d.kids[Flow!Parent(d, e)]
      /\ d.kids[Flow!Parent(d, e)][Flow!Index(d, e)] = e
  <2>1. /\ Flow!Parent(d, e) \in DOMAIN d.kids
        /\ d.kids[Flow!Parent(d, e)] \in Seq(DOMAIN d.kind)
        /\ Flow!Index(d, e) \in 1 .. Len(d.kids[Flow!Parent(d, e)])
        /\ d.kids[Flow!Parent(d, e)][Flow!Index(d, e)] = e
      BY Places
  <2> QED
      BY <2>1
<1> QED
    BY <1>1, <1>2, <1>3

\* What follows an element, one sequence after the other.
LEMMA FollowingSteps ==
    ASSUME NEW d \in Definitions
    PROVE  \A e \in DOMAIN d.kind :
              Flow!Following(d, e) =
                LET p == Flow!Parent(d, e)
                    i == Flow!Index(d, e)
                IN IF p = Process \/ p \in d.sequenced THEN End
                   ELSE IF i < Len(d.kids[p]) THEN Flow!FirstTask(d, d.kids[p][i + 1])
                   ELSE Flow!Following(d, p)
<1> DEFINE E == DOMAIN d.kind
           p(e) == Flow!Parent(d, e)
           Out(e) == p(e) = Process \/ p(e) \in d.sequenced
           More(e) == Flow!Index(d, e) < Len(d.kids[p(e)])
           Sibling(e) == Flow!FirstTask(d, d.kids[p(e)][Flow!Index(d, e) + 1])
           V == E \cup {End}
           B == {e \in E : Out(e) \/ More(e)}
           pred == [e \in E |-> p(e)]
           base == [e \in E |-> IF Out(e) THEN End ELSE Sibling(e)]
           comb == [e \in E |-> [v \in V |-> v]]
           Step(f, e) == IF Out(e) THEN End ELSE IF More(e) THEN Sibling(e) ELSE f[p(e)]
           Rec(f) == f = [e \in E |-> Step(f, e)]
<1>1. \A e \in E \ B : p(e) \in E
    BY Places
<1>2. \A e \in E : More(e) => Sibling(e) \in E
  <2> SUFFICES ASSUME NEW e \in E, More(e) PROVE Sibling(e) \in E
      OBVIOUS
  <2>1. /\ p(e) \in DOMAIN d.kids /\ d.kids[p(e)] \in Seq(E)
        /\ Flow!Index(d, e) \in 1 .. Len(d.kids[p(e)])
      BY Places
  <2>2. Flow!Index(d, e) + 1 \in 1 .. Len(d.kids[p(e)])
      BY <2>1
  <2>3. d.kids[p(e)][Flow!Index(d, e) + 1] \in E
      BY <2>1, <2>2
  <2> QED
      BY <2>3, FirstTasks
<1>3. \A S \in SUBSET E : S # {} => \E e \in S : p(e) \notin S
    BY Founded
<1>4. \A e \in E : e \in B <=> Out(e) \/ More(e)
    OBVIOUS
<1>5. /\ \A e \in E : /\ base[e] = IF Out(e) THEN End ELSE Sibling(e)
                      /\ pred[e] = p(e)
                      /\ \A v \in V : comb[e][v] = v
      /\ \A e \in E : \A f : Step(f, e) = IF Out(e) THEN End ELSE IF More(e) THEN Sibling(e) ELSE f[p(e)]
      /\ B \in SUBSET E /\ V = E \cup {End}
    OBVIOUS
<1> HIDE DEF p, Out, More, Sibling, B, pred, base, comb, E, V, Step
<1>6. PICK f : IsSolution(f, E, V, B, pred, base, comb)
  <2>1. /\ B \in SUBSET E
        /\ \A e \in E \ B : pred[e] \in E
        /\ \A e \in B : base[e] \in V
        /\ \A e \in E \ B : \A v \in V : comb[e][v] \in V
        /\ \A S \in SUBSET E : S # {} => \E e \in S : e \in B \/ pred[e] \notin S
      BY <1>1, <1>2, <1>3, <1>4, <1>5
  <2>2. IsRecursion(E, V, B, pred, base, comb)
      BY <2>1 DEF IsRecursion
  <2> QED
      BY <2>2, LinearRecursion
<1>7. /\ f \in [E -> V]
      /\ \A e \in E : f[e] = Step(f, e)
  <2>1. f \in [E -> V] /\ \A e \in E : f[e] = IF e \in B THEN base[e] ELSE comb[e][f[pred[e]]]
      BY <1>6 DEF IsSolution
  <2> QED
      BY <1>1, <1>4, <1>5, <2>1
<1>8. Rec(f)
  <2>1. f = [e \in E |-> f[e]]
      BY <1>7
  <2> QED
      BY <1>7, <2>1
<1>9. ASSUME NEW h, Rec(h) PROVE h = f
  <2>1. \A e \in E : h[e] = Step(h, e)
      BY <1>9
  <2>2. h = [e \in E |-> h[e]]
      BY <1>9
  <2>3. /\ \A e \in B : h[e] = base[e]
        /\ \A e \in E \ B : h[pred[e]] \in V => h[e] = comb[e][h[pred[e]]]
      BY <1>1, <1>4, <1>5, <2>1
  <2> QED
      BY <1>6, <2>2, <2>3 DEF IsSolution
<1>10. (CHOOSE h : Rec(h)) = f
  <2> HIDE DEF Rec
  <2> QED
      BY <1>8, <1>9
<1>11. \A e \in E : Flow!Following(d, e) = f[e]
    BY <1>10 DEF Flow!Following, Flow!Elements, E, p, Out, More, Sibling, Step
<1>12. \A e \in E : Flow!Following(d, e) =
            IF Out(e) THEN End ELSE IF More(e) THEN Sibling(e) ELSE Flow!Following(d, p(e))
    BY <1>1, <1>4, <1>5, <1>7, <1>11
<1> QED
    BY <1>12 DEF p, Out, More, Sibling, E

--------------------------------------------------------------------------------
(* Paths *)
\* The place at the top of a path
LEMMA PathTop ==
    ASSUME def \in Definitions, NEW s, IsPath(def, s), s # <<>>
    PROVE  /\ Len(s) \in Nat \ {0} /\ s \in Seq(Frames(def))
           /\ s[Len(s)] \in Frames(def)
           /\ s[Len(s)].index \in 1 .. Len(def.kids[s[Len(s)].el])
           /\ Top(s) = Kid(def, s[Len(s)])
           /\ Top(s) \in Elements
           /\ Leads(def, s, Top(s))
<1>1. /\ Len(s) \in Nat \ {0} /\ s \in Seq(Frames(def))
      /\ s[Len(s)] \in Frames(def)
      /\ s[Len(s)].index \in 1 .. Len(def.kids[s[Len(s)].el])
  <2>1. s \in Seq(Frames(def))
      BY DEF IsPath
  <2>2. Len(s) \in Nat \ {0}
      BY <2>1
  <2> QED
      BY <2>1, <2>2 DEF IsPath
<1>2. Top(s) = Kid(def, s[Len(s)])
    BY <1>1 DEF Top, Last, ElementOf, Kid
<1>3. s[Len(s)].el \in DOMAIN def.kids
    BY <1>1, Places DEF Frames
<1>4. Top(s) \in Elements
  <2>1. Kid(def, s[Len(s)]) = def.kids[s[Len(s)].el][s[Len(s)].index]
      BY DEF Kid
  <2> QED
      BY <1>1, <1>2, <1>3, <2>1, Places DEF Elements
<1> QED
    BY <1>1, <1>2, <1>4 DEF Leads

\* One list further down
LEMMA PathDown ==
    ASSUME def \in Definitions, NEW s, NEW e,
           \/ s = <<>> /\ e = Process
           \/ Leads(def, s, e),
           NEW i \in 1 .. Len(def.kids[e])
    PROVE  /\ Append(s, Under(e, i)) = s \o <<Under(e, i)>>
           /\ Leads(def, Append(s, Under(e, i)), def.kids[e][i])
<1>1. s \in Seq(Frames(def)) /\ e \in Elements \cup {Process}
  <2>1. CASE s # <<>>
    <3>1. e = Top(s) /\ s \in Seq(Frames(def))
        BY <2>1, PathTop DEF Leads
    <3> QED
        BY <2>1, <3>1, PathTop DEF Leads
  <2>2. CASE s = <<>> /\ e = Process
      BY <2>2
  <2> QED
      BY <2>1, <2>2 DEF Leads
<1>2. Under(e, i) \in Frames(def)
    BY <1>1, Places DEF Frames, Elements, Under
<1> DEFINE t == Append(s, Under(e, i))
<1>3. /\ t \in Seq(Frames(def)) /\ Len(t) = Len(s) + 1 /\ Len(s) \in Nat
      /\ t[Len(s) + 1] = Under(e, i) /\ \A n \in 1 .. Len(s) : t[n] = s[n]
      /\ t # <<>> /\ t = s \o <<Under(e, i)>>
    BY <1>1, <1>2
<1> HIDE DEF t
<1>4. ASSUME NEW n \in 1 .. Len(t)
      PROVE  /\ t[n].index \in 1 .. Len(def.kids[t[n].el])
             /\ n > 1 => Kid(def, t[n - 1]) = t[n].el
  <2>1. CASE n \in 1 .. Len(s)
    <3>1. n > 1 => n - 1 \in 1 .. Len(s)
        BY <1>3
    <3> QED
        BY <1>3, <2>1, <3>1 DEF Leads, IsPath
  <2>2. CASE n = Len(s) + 1
    <3>1. t[n].el = e /\ t[n].index = i
        BY <1>3, <2>2 DEF Under
    <3>2. n > 1 => Kid(def, t[n - 1]) = e
      <4> HAVE n > 1
      <4>1. s # <<>> /\ n - 1 = Len(s) /\ Len(s) \in 1 .. Len(s)
          BY <1>1, <1>3, <2>2
      <4> QED
          BY <1>3, <4>1 DEF Leads
    <3> QED
        BY <3>1, <3>2
  <2> QED
      BY <1>3, <2>1, <2>2
<1>5. t[1].el = Process
  <2>1. CASE s = <<>>
      BY <1>3, <2>1 DEF Leads, Under
  <2>2. CASE s # <<>>
    <3>1. 1 \in 1 .. Len(s)
        BY <1>1, <2>2
    <3> QED
        BY <1>3, <2>2, <3>1 DEF Leads, IsPath
  <2> QED
      BY <2>1, <2>2
<1>6. Kid(def, t[Len(t)]) = def.kids[e][i]
    BY <1>3 DEF Kid, Under
<1> QED
    BY <1>3, <1>4, <1>5, <1>6 DEF Leads, IsPath, t

\* $698 finds the first task of the element a stack leads to.
LEMMA FirstTaskStacks ==
    ASSUME def \in Definitions, NEW s, IsPath(def, s), s # <<>>
    PROVE  Leads(def, FirstTaskStack(s), Flow!FirstTask(def, Top(s)))
<1> DEFINE E == Elements
           V == Seq(Frames(def))
           Nil == <<>>
           Ext(e, v) == <<Under(e, 1)>> \o v
           B == {e \in E : IsTask(e)}
           pred == [e \in E |-> def.kids[e][1]]
           base == [e \in E |-> Nil]
           comb == [e \in E |-> [v \in V |-> Ext(e, v)]]
           Step(f, e) == IF IsTask(e) THEN Nil ELSE Ext(e, f[def.kids[e][1]])
           Rec(f) == f = [e \in E |-> Step(f, e)]
<1>1. \A e \in E \ B : 1 \in 1 .. Len(def.kids[e]) /\ 1 \in DOMAIN def.kids[e] /\ def.kids[e][1] \in E
  <2> SUFFICES ASSUME NEW e \in E \ B
               PROVE  1 \in 1 .. Len(def.kids[e]) /\ 1 \in DOMAIN def.kids[e] /\ def.kids[e][1] \in E
      OBVIOUS
  <2>1. def.kids[e] \in Seq(E) /\ def.kids[e] # <<>>
      BY Places DEF Elements, IsTask
  <2> QED
      BY <2>1
<1>2. \A e \in E \ B : \A v \in V : Ext(e, v) \in V
  <2> SUFFICES ASSUME NEW e \in E \ B, NEW v \in V PROVE Ext(e, v) \in V
      OBVIOUS
  <2>1. Under(e, 1) \in Frames(def)
      BY DEF Frames, Under, Elements
  <2> QED
      BY <2>1
<1>3. \A S \in SUBSET E : S # {} => \E e \in S : \A i \in DOMAIN def.kids[e] : def.kids[e][i] \notin S
    BY Founded DEF Elements
<1>4. /\ \A e \in E : /\ e \in B <=> IsTask(e)
                      /\ base[e] = Nil
                      /\ pred[e] = def.kids[e][1]
                      /\ \A v \in V : comb[e][v] = Ext(e, v)
                      /\ \A f : Step(f, e) = IF IsTask(e) THEN Nil
                                             ELSE Ext(e, f[def.kids[e][1]])
      /\ B \in SUBSET E /\ Nil \in V
    OBVIOUS
<1> HIDE DEF B, pred, base, comb, E, V, Step, Nil, Ext
<1>5. PICK f : IsSolution(f, E, V, B, pred, base, comb)
  <2>1. /\ \A e \in E \ B : pred[e] \in E
        /\ \A e \in E \ B : \A v \in V : comb[e][v] \in V
      BY <1>1, <1>2, <1>4
  <2>2. \A S \in SUBSET E : S # {} => \E e \in S : e \in B \/ pred[e] \notin S
      BY <1>1, <1>3, <1>4
  <2>3. B \in SUBSET E /\ \A e \in B : base[e] \in V
      BY <1>4
  <2>4. IsRecursion(E, V, B, pred, base, comb)
      BY <2>1, <2>2, <2>3 DEF IsRecursion
  <2> QED
      BY <2>4, LinearRecursion
<1>6. /\ f \in [E -> V]
      /\ \A e \in E : f[e] = Step(f, e)
  <2>1. f \in [E -> V] /\ \A e \in E : f[e] = IF e \in B THEN base[e] ELSE comb[e][f[pred[e]]]
      BY <1>5 DEF IsSolution
  <2> QED
      BY <1>1, <1>4, <2>1
<1>7. Rec(f)
  <2>1. f = [e \in E |-> f[e]]
      BY <1>6
  <2> QED
      BY <1>6, <2>1
<1>8. ASSUME NEW h, Rec(h) PROVE h = f
  <2>1. \A e \in E : h[e] = Step(h, e)
      BY <1>8
  <2>2. h = [e \in E |-> h[e]]
      BY <1>8
  <2>3. /\ \A e \in B : h[e] = base[e]
        /\ \A e \in E \ B : h[pred[e]] \in V => h[e] = comb[e][h[pred[e]]]
      BY <1>1, <1>4, <2>1
  <2> QED
      BY <1>5, <2>2, <2>3 DEF IsSolution
<1>9. (CHOOSE h : Rec(h)) = f
  <2> HIDE DEF Rec
  <2> QED
      BY <1>7, <1>8
<1>10. FirstTaskStack(s) = s \o f[Top(s)]
    BY <1>9 DEF FirstTaskStack, E, Step, Nil, Ext
<1> DEFINE Good(e) == \A t : Leads(def, t, e) => Leads(def, t \o f[e], Flow!FirstTask(def, e))
<1>11. ASSUME NEW e \in E,
              \A i \in DOMAIN def.kids[e] : Good(def.kids[e][i])
       PROVE  Good(e)
  <2> SUFFICES ASSUME NEW t, Leads(def, t, e)
               PROVE  Leads(def, t \o f[e], Flow!FirstTask(def, e))
      OBVIOUS
  <2>1. t \in Seq(Frames(def)) /\ f[e] \in V
      BY <1>6 DEF Leads, IsPath
  <2>2. CASE IsTask(e)
    <3>1. f[e] = <<>>
        BY <1>4, <1>6, <2>2 DEF Nil
    <3>a. t \o <<>> = t
        BY <2>1
    <3>2. Flow!FirstTask(def, e) = e
        BY <2>2, FirstTasks DEF IsTask, E, Elements
    <3> QED
        BY <3>1, <3>a, <3>2
  <2>3. CASE ~IsTask(e)
    <3> DEFINE k == def.kids[e][1]
    <3>1. /\ 1 \in 1 .. Len(def.kids[e]) /\ 1 \in DOMAIN def.kids[e] /\ k \in E
          /\ f[e] = <<Under(e, 1)>> \o f[k] /\ f[k] \in V
        BY <1>1, <1>4, <1>6, <2>3 DEF Ext
    <3>2. Leads(def, t \o <<Under(e, 1)>>, k)
        BY <3>1, PathDown
    <3>3. Leads(def, (t \o <<Under(e, 1)>>) \o f[k], Flow!FirstTask(def, k))
        BY <1>11, <3>1, <3>2
    <3>4. Under(e, 1) \in Frames(def)
        BY DEF E, Frames, Under, Elements
    <3>5. (t \o <<Under(e, 1)>>) \o f[k] = t \o f[e]
      <4> HIDE DEF k
      <4> DEFINE u == Under(e, 1)
                 g == f[k]
      <4>1. u \in Frames(def) /\ g \in Seq(Frames(def)) /\ t \in Seq(Frames(def))
          BY <2>1, <3>1, <3>4 DEF V
      <4> HIDE DEF u, g
      <4>2. (t \o <<u>>) \o g = t \o (<<u>> \o g)
          BY <4>1
      <4> QED
          BY <3>1, <4>2 DEF u, g
    <3>6. Flow!FirstTask(def, e) = Flow!FirstTask(def, k)
        BY <2>3, FirstTasks DEF IsTask, E, Elements
    <3> QED
        BY <3>3, <3>5, <3>6
  <2> QED
      BY <2>2, <2>3
<1>12. \A e \in E : Good(e)
  <2> DEFINE S == {e \in E : ~Good(e)}
  <2> SUFFICES ASSUME S # {} PROVE FALSE
      OBVIOUS
  <2> HIDE DEF Good
  <2>1. PICK e \in S : \A i \in DOMAIN def.kids[e] : def.kids[e][i] \notin S
      BY <1>3
  <2>2. \A i \in DOMAIN def.kids[e] : def.kids[e][i] \in E
    <3>1. def.kids[e] \in Seq(E)
        BY Places DEF E, Elements
    <3> QED
        BY <3>1
  <2> QED
      BY <1>11, <2>1, <2>2
<1>13. Top(s) \in E /\ Leads(def, s, Top(s))
    BY PathTop DEF E
<1> QED
    BY <1>10, <1>12, <1>13

\* $699 finds each element, and nothing else.
LEMMA Gotos ==
    ASSUME def \in Definitions, NEW id
    PROVE  /\ id \in Elements => Leads(def, Goto(id), id)
           /\ id \notin Elements => Goto(id) = <<>>
<1> DEFINE E == Elements \cup {Process}
           V == Seq(Frames(def))
           Nil == <<>>
           B == {Process}
           Par(e) == Flow!Parent(def, e)
           Ind(e) == Flow!Index(def, e)
           pred == [e \in E |-> Par(e)]
           base == [e \in E |-> Nil]
           Ext(e, v) == Append(v, Under(Par(e), Ind(e)))
           comb == [e \in E |-> [v \in V |-> Ext(e, v)]]
           P(e) == CHOOSE p \in Elements \cup {Process} : \E i \in DOMAIN def.kids[p] : def.kids[p][i] = e
           I(e) == CHOOSE i \in DOMAIN def.kids[P(e)] : def.kids[P(e)][i] = e
           Step(f, e) == IF e = Process THEN Nil ELSE Append(f[P(e)], Under(P(e), I(e)))
           Rec(f) == f = [e \in E |-> Step(f, e)]
<1>1. \A e \in E : P(e) = Par(e) /\ I(e) = Ind(e)
    BY DEF Flow!Parent, Flow!Index, Flow!Elements, Elements
<1> HIDE DEF P, I
<1>2. \A e \in E \ B : /\ Par(e) \in E /\ Ind(e) \in 1 .. Len(def.kids[Par(e)])
                       /\ def.kids[Par(e)][Ind(e)] = e
    BY Places DEF Elements
<1>3. \A e \in E \ B : \A v \in V : Ext(e, v) \in V
  <2> SUFFICES ASSUME NEW e \in E \ B, NEW v \in V
               PROVE  Ext(e, v) \in V
      OBVIOUS
  <2>1. Par(e) \in E /\ Ind(e) \in Nat
      BY <1>2
  <2>2. Under(Par(e), Ind(e)) \in Frames(def)
      BY <2>1 DEF Frames, Under, Elements
  <2> QED
      BY <2>2
<1>4. \A S \in SUBSET E : S # {} => \E e \in S : e \in B \/ Par(e) \notin S
  <2> SUFFICES ASSUME NEW S \in SUBSET E, S # {}, Process \notin S
               PROVE  \E e \in S : Par(e) \notin S
      OBVIOUS
  <2>1. S \in SUBSET DOMAIN def.kind
      BY DEF Elements
  <2> QED
      BY <2>1, Founded
<1>5. /\ \A e \in E : /\ e \in B <=> e = Process
                      /\ base[e] = Nil
                      /\ pred[e] = Par(e)
                      /\ \A v \in V : comb[e][v] = Ext(e, v)
                      /\ \A f : Step(f, e) = IF e = Process THEN Nil
                                             ELSE Ext(e, f[Par(e)])
      /\ B \in SUBSET E /\ Nil \in V /\ Process \in E
    BY <1>1
<1> HIDE DEF B, pred, base, comb, E, V, Step, Par, Ind, Nil, Ext
<1>6. PICK f : IsSolution(f, E, V, B, pred, base, comb)
  <2>1. /\ B \in SUBSET E
        /\ \A e \in E \ B : pred[e] \in E
        /\ \A e \in B : base[e] \in V
        /\ \A e \in E \ B : \A v \in V : comb[e][v] \in V
        /\ \A S \in SUBSET E : S # {} => \E e \in S : e \in B \/ pred[e] \notin S
      BY <1>2, <1>3, <1>4, <1>5
  <2>2. IsRecursion(E, V, B, pred, base, comb)
      BY <2>1 DEF IsRecursion
  <2> QED
      BY <2>2, LinearRecursion
<1>7. /\ f \in [E -> V]
      /\ \A e \in E : f[e] = Step(f, e)
  <2>1. f \in [E -> V] /\ \A e \in E : f[e] = IF e \in B THEN base[e] ELSE comb[e][f[pred[e]]]
      BY <1>6 DEF IsSolution
  <2> QED
      BY <1>2, <1>5, <2>1
<1>8. Rec(f)
  <2>1. f = [e \in E |-> f[e]]
      BY <1>7
  <2> QED
      BY <1>7, <2>1
<1>9. ASSUME NEW h, Rec(h) PROVE h = f
  <2>1. \A e \in E : h[e] = Step(h, e)
      BY <1>9
  <2>2. h = [e \in E |-> h[e]]
      BY <1>9
  <2>3. /\ \A e \in B : h[e] = base[e]
        /\ \A e \in E \ B : h[pred[e]] \in V => h[e] = comb[e][h[pred[e]]]
      BY <1>2, <1>5, <2>1
  <2> QED
      BY <1>6, <2>2, <2>3 DEF IsSolution
<1>10. (CHOOSE h : Rec(h)) = f
  <2> HIDE DEF Rec
  <2> QED
      BY <1>8, <1>9
<1>11. Goto(id) = IF id \in Elements THEN f[id] ELSE <<>>
  <2>1. (CHOOSE path : path = [e \in Elements \cup {Process} |->
                                 IF e = Process THEN <<>>
                                 ELSE LET p == CHOOSE p \in Elements \cup {Process} :
                                                 \E i \in DOMAIN def.kids[p] : def.kids[p][i] = e
                                          i == CHOOSE i \in DOMAIN def.kids[p] : def.kids[p][i] = e
                                      IN Append(path[p], Under(p, i))]) = f
      BY <1>10, Zenon DEF E, Step, P, I, Nil
  <2>2. Goto(id) = LET path == CHOOSE path : path = [e \in Elements \cup {Process} |->
                                 IF e = Process THEN <<>>
                                 ELSE LET p == CHOOSE p \in Elements \cup {Process} :
                                                 \E i \in DOMAIN def.kids[p] : def.kids[p][i] = e
                                          i == CHOOSE i \in DOMAIN def.kids[p] : def.kids[p][i] = e
                                      IN Append(path[p], Under(p, i))]
                   IN IF id \in Elements THEN path[id] ELSE <<>>
      BY DEF Goto
  <2> QED
      BY <2>1, <2>2
<1> DEFINE Good(e) == \/ e = Process /\ f[e] = <<>>
                      \/ Leads(def, f[e], e)
<1>12. \A e \in E : Good(e)
  <2> DEFINE S == {e \in E : ~Good(e)}
  <2> SUFFICES ASSUME S # {} PROVE FALSE
      OBVIOUS
  <2>1. f[Process] = <<>>
      BY <1>5, <1>7 DEF Nil
  <2>2. PICK e \in S : e \notin B /\ Par(e) \notin S
      BY <1>4, <1>5, <2>1
  <2>3. /\ Par(e) \in E /\ Good(Par(e)) /\ Ind(e) \in 1 .. Len(def.kids[Par(e)])
        /\ def.kids[Par(e)][Ind(e)] = e
        /\ f[e] = Append(f[Par(e)], Under(Par(e), Ind(e)))
      BY <1>2, <1>5, <1>7, <2>2 DEF Ext
  <2>4. Leads(def, f[e], e)
      BY <2>3, PathDown
  <2> QED
      BY <2>4
<1>13. Process \notin Elements
    BY Places DEF Elements
<1> QED
    BY <1>11, <1>12, <1>13 DEF E

\* What is known of each place on a path
LEMMA PathPlaces ==
    ASSUME def \in Definitions, NEW s, IsPath(def, s), NEW n \in 1 .. Len(s)
    PROVE  /\ s[n] = [el |-> s[n].el, index |-> s[n].index]
           /\ s[n].el \in DOMAIN def.kids /\ s[n].el \in Elements \cup {Process}
           /\ def.kids[s[n].el] \in Seq(Elements)
           /\ s[n].index \in 1 .. Len(def.kids[s[n].el]) /\ s[n].index \in Nat
           /\ Kid(def, s[n]) \in Elements
           /\ Flow!Parent(def, Kid(def, s[n])) = s[n].el
           /\ Flow!Index(def, Kid(def, s[n])) = s[n].index
<1>1. s[n] \in Frames(def)
    BY DEF IsPath
<1> DEFINE p == s[n].el
           i == s[n].index
<1>2. /\ s[n] = [el |-> p, index |-> i] /\ p \in DOMAIN def.kind \cup {Process} /\ i \in Nat
      /\ i \in 1 .. Len(def.kids[p])
    BY <1>1 DEF Frames, IsPath
<1>3. Kid(def, s[n]) = def.kids[p][i]
    BY DEF Kid
<1> HIDE DEF p, i
<1>4. /\ p \in DOMAIN def.kids /\ def.kids[p] \in Seq(DOMAIN def.kind)
      /\ def.kids[p][i] \in DOMAIN def.kind
      /\ Flow!Parent(def, def.kids[p][i]) = p /\ Flow!Index(def, def.kids[p][i]) = i
  <2>1. p \in DOMAIN def.kids /\ def.kids[p] \in Seq(DOMAIN def.kind)
      BY <1>2, Places
  <2>2. \A q \in DOMAIN def.kids : \A j \in 1 .. Len(def.kids[q]) :
           /\ def.kids[q][j] \in DOMAIN def.kind
           /\ Flow!Parent(def, def.kids[q][j]) = q /\ Flow!Index(def, def.kids[q][j]) = j
      BY Places
  <2> QED
      BY <1>2, <2>1, <2>2
<1> QED
    BY <1>2, <1>3, <1>4 DEF p, i, Elements

Done(frame) == IsInSequence(frame) /\ IsLast(frame)

\* $70a goes back to the innermost list with something left, or without an order, and what
\* follows the element there is what follows the one at the top.
LEMMA Unwinding ==
    ASSUME def \in Definitions, NEW s, IsPath(def, s), s # <<>>
    PROVE  \E k \in 1 .. Len(s) :
              /\ Unwound(s) = SubSeq(s, 1, k)
              /\ ~Done(s[k])
              /\ Flow!Following(def, Top(s)) = Flow!Following(def, Kid(def, s[k]))
<1>1. /\ Len(s) \in Nat \ {0} /\ s \in Seq(Frames(def)) /\ DOMAIN s = 1 .. Len(s)
      /\ Top(s) = Kid(def, s[Len(s)])
    BY PathTop
<1>2. /\ s[1].el = Process
      /\ \A n \in 1 .. Len(s) : /\ s[n].index \in 1 .. Len(def.kids[s[n].el])
                                /\ n > 1 => Kid(def, s[n - 1]) = s[n].el
                                /\ s[n].el \in Elements \cup {Process}
  <2>1. \A n \in 1 .. Len(s) : s[n] \in Frames(def)
      BY <1>1
  <2>2. \A n \in 1 .. Len(s) : s[n].el \in Elements \cup {Process}
      BY <2>1 DEF Frames, Elements
  <2> QED
      BY <2>2 DEF IsPath
<1> DEFINE T == {n \in 1 .. Len(s) : ~Done(s[n])}
<1>3. PICK k \in T : \A j \in T : j <= k
  <2>1. 1 \in T
      BY <1>1, <1>2 DEF Done, IsInSequence
  <2>2. T \subseteq 1 .. Len(s) /\ T # {}
      BY <2>1
  <2> HIDE DEF T
  <2> QED
      BY <1>1, <2>2, BoundedMax
<1>4. k \in 1 .. Len(s) /\ ~Done(s[k]) /\ \A m \in k + 1 .. Len(s) : Done(s[m])
  <2>1. \A m \in k + 1 .. Len(s) : m \in 1 .. Len(s) /\ ~(m <= k)
      BY <1>1
  <2> QED
      BY <1>3, <2>1
<1>5. Unwound(s) = SubSeq(s, 1, k)
  <2> DEFINE Q(n) == ~Done(s[n]) /\ \A m \in n + 1 .. Len(s) : Done(s[m])
  <2>1. ASSUME NEW n \in 1 .. Len(s), Q(n) PROVE n = k
    <3>1. ~(n < k)
        BY <1>1, <1>4, <2>1
    <3>2. ~(k < n)
        BY <1>1, <1>4, <2>1
    <3> QED
        BY <1>1, <1>4, <3>1, <3>2
  <2>2. Q(k)
      BY <1>4
  <2>3. (CHOOSE n \in 1 .. Len(s) : Q(n)) = k
    <3> HIDE DEF Q
    <3> QED
        BY <1>4, <2>1, <2>2
  <2> QED
      BY <1>1, <2>3 DEF Unwound, Done
<1> DEFINE Same(n) == Flow!Following(def, Kid(def, s[n])) = Flow!Following(def, Kid(def, s[k]))
<1>6. ASSUME NEW n \in k + 1 .. Len(s), Same(n - 1) PROVE Same(n)
  <2> DEFINE e == Kid(def, s[n])
             p == s[n].el
  <2>1. n \in 1 .. Len(s) /\ n > 1 /\ Done(s[n])
      BY <1>1, <1>4
  <2>2. /\ p \in DOMAIN def.kids /\ s[n].index \in 1 .. Len(def.kids[p])
        /\ Kid(def, s[n - 1]) = p /\ p # Process /\ p \notin def.sequenced
        /\ s[n].index = Len(def.kids[p])
      BY <1>2, <2>1, PathPlaces DEF Done, IsInSequence, IsLast
  <2>3. e \in DOMAIN def.kind /\ Flow!Parent(def, e) = p /\ Flow!Index(def, e) = s[n].index
      BY <2>1, PathPlaces DEF Elements
  <2>4. Flow!Following(def, e) = Flow!Following(def, p)
    <3>1. ~(Flow!Index(def, e) < Len(def.kids[p]))
        BY <2>2, <2>3
    <3> QED
        BY <2>2, <2>3, <3>1, FollowingSteps
  <2> QED
      BY <1>6, <2>2, <2>4
<1>7. \A n \in k .. Len(s) : Same(n)
  <2> DEFINE S == {n \in k .. Len(s) : ~Same(n)}
  <2> SUFFICES ASSUME S # {} PROVE FALSE
      OBVIOUS
  <2>1. S \subseteq Nat
    <3>1. \A n \in k .. Len(s) : n \in Nat
        BY <1>1, <1>4
    <3> QED
        BY <3>1
  <2>2. PICK n \in S : \A m \in S : n <= m
    <3> HIDE DEF S
    <3> QED
        BY <2>1, NatMin
  <2>3. n # k
      OBVIOUS
  <2>4. n \in k + 1 .. Len(s) /\ n - 1 \in k .. Len(s) /\ ~(n <= n - 1)
      BY <1>1, <1>4, <2>3
  <2>5. Same(n - 1)
      BY <2>2, <2>4
  <2> QED
      BY <1>6, <2>4, <2>5
<1>8. Len(s) \in k .. Len(s)
    BY <1>1, <1>4
<1> QED
    BY <1>1, <1>4, <1>5, <1>7, <1>8

\* So it finds the place from which the first task is what follows, if anything does.
LEMMA NextElements ==
    ASSUME def \in Definitions, NEW s, IsPath(def, s), s # <<>>
    PROVE  LET n == FindNextElement(s)
           IN /\ n.found \in BOOLEAN
              /\ IsPath(def, n.stack)
              /\ n.found => /\ n.stack # <<>>
                            /\ Flow!FirstTask(def, Top(n.stack)) = Flow!Following(def, Top(s))
              /\ ~n.found => Flow!Following(def, Top(s)) = End
<1>1. PICK k \in 1 .. Len(s) :
              /\ Unwound(s) = SubSeq(s, 1, k)
              /\ ~Done(s[k])
              /\ Flow!Following(def, Top(s)) = Flow!Following(def, Kid(def, s[k]))
    BY Unwinding
<1> DEFINE t == SubSeq(s, 1, k)
           e == Kid(def, s[k])
           p == s[k].el
           i == s[k].index
<1>2. Len(s) \in Nat \ {0} /\ s \in Seq(Frames(def)) /\ k \in Nat \ {0}
    BY PathTop
<1>3. /\ t \in Seq(Frames(def)) /\ Len(t) = k /\ \A n \in 1 .. k : t[n] = s[n]
      /\ t # <<>> /\ t[k] = s[k] /\ k \in DOMAIN t /\ DOMAIN t = 1 .. k
    BY <1>2
<1>4. s[1].el = Process /\ \A n \in 1 .. k : /\ s[n].index \in 1 .. Len(def.kids[s[n].el])
                                             /\ n > 1 => Kid(def, s[n - 1]) = s[n].el
    BY <1>2 DEF IsPath
<1>5. /\ p \in Elements \cup {Process} /\ i \in 1 .. Len(def.kids[p])
      /\ def.kids[p] \in Seq(Elements) /\ e \in Elements /\ i \in Nat
      /\ Flow!Parent(def, e) = p /\ Flow!Index(def, e) = i
    BY <1>2, PathPlaces
<1> HIDE DEF t
<1>6. IsPath(def, t) /\ t # <<>> /\ Last(t) = s[k]
  <2>1. \A n \in 1 .. k : n > 1 => n - 1 \in 1 .. k
      BY <1>2
  <2>2. 1 \in 1 .. k
      BY <1>2
  <2> QED
      BY <1>3, <1>4, <2>1, <2>2 DEF IsPath, Last
<1>7. CASE ~IsInSequence(s[k])
  <2>1. FindNextElement(s) = [found |-> FALSE, stack |-> t]
    <3>1. Unwound(s) = t /\ ~IsInSequence(Last(t))
        BY <1>1, <1>6, <1>7 DEF t
    <3> QED
        BY <3>1 DEF FindNextElement, NoNext
  <2>2. Flow!Following(def, e) = End
    <3>1. p = Process \/ p \in def.sequenced
        BY <1>7 DEF IsInSequence
    <3>2. e \in DOMAIN def.kind
        BY <1>5 DEF Elements
    <3> HIDE DEF e, p
    <3> QED
        BY <1>5, <3>1, <3>2, FollowingSteps
  <2> QED
      BY <1>1, <1>6, <2>1, <2>2
<1>8. CASE IsInSequence(s[k])
  <2> DEFINE u == [t EXCEPT ![Len(t)].index = @ + 1]
  <2>1. i # Len(def.kids[p]) /\ p # Process /\ p \notin def.sequenced
      BY <1>1, <1>8 DEF Done, IsLast, IsInSequence
  <2>2. i < Len(def.kids[p]) /\ i + 1 \in 1 .. Len(def.kids[p]) /\ i + 1 \in Nat
      BY <1>5, <2>1
  <2>3. def.kids[p][i + 1] \in Elements
      BY <1>5, <2>2
  <2>4. Flow!Following(def, e) = Flow!FirstTask(def, def.kids[p][i + 1])
      BY <1>5, <2>1, <2>2, FollowingSteps DEF Elements
  <2>5. /\ u \in Seq(Frames(def)) /\ Len(u) = k /\ DOMAIN u = 1 .. k /\ u # <<>>
        /\ u[k] = [el |-> p, index |-> i + 1]
        /\ \A n \in 1 .. k - 1 : u[n] = s[n]
    <3>1. s[k] = [el |-> p, index |-> i] /\ p \in DOMAIN def.kind \cup {Process}
      <4>1. s[k] \in Frames(def)
          BY <1>2
      <4> QED
          BY <4>1 DEF Frames
    <3>2. u = [t EXCEPT ![k] = [el |-> p, index |-> i + 1]]
      <4>1. t[k] = [el |-> p, index |-> i] /\ Len(t) = k
          BY <1>3, <3>1
      <4> HIDE DEF p, i
      <4>2. [t[k] EXCEPT !.index = @ + 1] = [el |-> p, index |-> i + 1]
          BY <4>1
      <4> QED
          BY <1>3, <4>1, <4>2
    <3>3. [el |-> p, index |-> i + 1] \in Frames(def)
        BY <2>2, <3>1 DEF Frames
    <3> HIDE DEF p, i, u
    <3> QED
        BY <1>2, <1>3, <3>2, <3>3
  <2> HIDE DEF u
  <2>6. IsPath(def, u)
    <3>1. ASSUME NEW n \in 1 .. k
          PROVE  /\ u[n].index \in 1 .. Len(def.kids[u[n].el])
                 /\ n > 1 => Kid(def, u[n - 1]) = u[n].el
      <4>1. n > 1 => n - 1 \in 1 .. k - 1
          BY <1>2
      <4>2. CASE n = k
          BY <1>4, <2>2, <2>5, <4>1, <4>2
      <4>3. CASE n \in 1 .. k - 1
          BY <1>4, <2>5, <4>1, <4>3
      <4> QED
          BY <1>2, <4>2, <4>3
    <3>2. u[1].el = Process
        BY <1>2, <1>4, <2>1, <2>5
    <3> QED
        BY <2>5, <3>1, <3>2 DEF IsPath
  <2>7. Top(u) = def.kids[p][i + 1]
      BY <2>5 DEF Top, Last, ElementOf
  <2>8. FindNextElement(s) = [found |-> TRUE, stack |-> u]
      BY <1>1, <1>6, <1>8, <2>5 DEF FindNextElement, At, t, u
  <2> QED
      BY <1>1, <2>4, <2>5, <2>6, <2>7, <2>8
<1> QED
    BY <1>7, <1>8

--------------------------------------------------------------------------------
(* Callbacks *)

GhostOK ==
    /\ ghost = [at |-> ghost.at, finished |-> ghost.finished, restarts |-> ghost.restarts,
                hung |-> ghost.hung, started |-> ghost.started]
    /\ ghost.finished \in Nat /\ ghost.restarts \in Nat
    /\ ghost.hung \in BOOLEAN /\ ghost.started \in BOOLEAN

WaitingOK == /\ waiting = [e \in DOMAIN waiting |-> waiting[e]]
             /\ \A e \in DOMAIN waiting : waiting[e] \in Nat

\* Before its start the process has no task and is not in its loop
NotStarted == ~ghost.started => ~running /\ ~IsWaiting /\ ghost.finished = 0

\* A task under way is the last one, once, and stops the loop; the end leaves nothing
Alone == \A e \in DOMAIN waiting : Waits(e) => waiting[e] = 1 /\ e = ghost.at /\ ~running
Ended == ghost.finished <= 1 /\ (ghost.finished = 1 => ~running /\ ~IsWaiting)

IInv ==
    /\ running \in BOOLEAN
    /\ GhostOK
    /\ WaitingOK
    /\ NotStarted
    /\ ghost.restarts = 0 => Alone /\ Ended
    /\ SomebodyCallsBack

--------------------------------------------------------------------------------
\* What a change of one counter does to the counters of all tasks.
LEMMA Counted ==
    ASSUME WaitingOK, NEW e, NEW n \in Int,
           (IF e \in DOMAIN waiting THEN waiting[e] ELSE 0) + n \in Nat
    PROVE  /\ DOMAIN Add(e, n) = DOMAIN waiting \cup {e}
           /\ Add(e, n) = [x \in DOMAIN Add(e, n) |-> Add(e, n)[x]]
           /\ Add(e, n)[e] = (IF e \in DOMAIN waiting THEN waiting[e] ELSE 0) + n
           /\ \A x \in DOMAIN waiting : x # e => Add(e, n)[x] = waiting[x]
           /\ \A x \in DOMAIN Add(e, n) : Add(e, n)[x] \in Nat
    BY DEF Add, WaitingOK

\* The invariant of the loop at the start
LEMMA InitIInv == Init => IInv
<1> SUFFICES ASSUME Init PROVE IInv
    OBVIOUS
<1>1. GhostOK /\ ghost.finished = 0 /\ ghost.started = FALSE /\ running = FALSE
    BY DEF Init, GhostOK
<1>2. waiting = [e \in {} |-> 0] /\ DOMAIN waiting = {}
    BY DEF Init
<1>3. WaitingOK /\ Alone /\ ~IsWaiting
  <2> DEFINE d == DOMAIN waiting
  <2>1. d = {}
      BY <1>2
  <2>2. \A e \in d : FALSE
      BY <2>1
  <2>3. waiting = [e \in d |-> waiting[e]]
      BY <1>2
  <2> QED
      BY <2>2, <2>3 DEF WaitingOK, Alone, IsWaiting
<1>4. NotStarted /\ SomebodyCallsBack
    BY <1>1, <1>3 DEF NotStarted, SomebodyCallsBack
<1>5. Ended
  <2>1. ghost.finished <= 1 /\ ghost.finished # 1
      BY <1>1
  <2> QED
      BY <2>1 DEF Ended
<1>6. running \in BOOLEAN
    BY <1>1
<1> QED
    BY <1>1, <1>3, <1>4, <1>5, <1>6 DEF IInv

\* start() keeps the invariant, at first and again while the process waits.
LEMMA StartPreserves ==
    ASSUME IInv, Start
    PROVE  IInv'
<1>0. running' = TRUE /\ waiting' = waiting /\ WaitingOK'
    BY DEF IInv, Start, WaitingOK
<1>a. ghost' = [at |-> ghost.at, finished |-> ghost.finished,
                restarts |-> ghost.restarts + (IF ghost.started THEN 1 ELSE 0),
                hung |-> ghost.hung, started |-> TRUE]
  <2>1. GhostOK
      BY DEF IInv
  <2> QED
      BY <2>1 DEF Start, GhostOK
<1>1. running' = TRUE /\ GhostOK' /\ WaitingOK' /\ ghost'.started
    BY <1>0, <1>a DEF IInv, GhostOK
<1>2. CASE ghost.started
  <2>1. ghost'.restarts # 0
      BY <1>2, <1>a DEF IInv, GhostOK
  <2> QED
      BY <1>1, <2>1 DEF IInv, NotStarted, SomebodyCallsBack
<1>3. CASE ~ghost.started
  <2>1. ~IsWaiting' /\ ghost'.finished = 0
      BY <1>0, <1>3, <1>a DEF IInv, NotStarted, IsWaiting, Waits
  <2> QED
      BY <1>1, <2>1 DEF IInv, NotStarted, SomebodyCallsBack, Alone, Ended, IsWaiting
<1> QED
    BY <1>2, <1>3 DEF IInv, GhostOK

\* A turn of the loop that waits for nobody
LEMMA PassingPreserves ==
    ASSUME IInv, ExecuteNow \/ \E exit \in UNION {def.exits[e] : e \in Elements} : ExecuteGate(exit)
    PROVE  IInv'
<1>1. /\ running /\ running' = running /\ waiting' = waiting
      /\ ghost' = Executed(Task)
    BY DEF ExecuteNow, ExecuteGate
<1>2. GhostOK' /\ ghost'.finished = ghost.finished /\ ghost'.restarts = ghost.restarts
      /\ ghost'.started = ghost.started /\ ghost'.hung = ghost.hung
    BY <1>1 DEF IInv, GhostOK, Executed
<1> QED
    BY <1>1, <1>2 DEF IInv, WaitingOK, NotStarted, Alone, Ended, SomebodyCallsBack, IsWaiting, Waits

\* A turn after which the process waits
LEMMA WaitingPreserves ==
    ASSUME IInv, ExecuteLater
    PROVE  IInv'
<1>0. PICK t : t = Task
    OBVIOUS
<1>1. /\ running /\ running' = FALSE
      /\ (waiting' = waiting /\ Waits(t)) \/ waiting' = Add(t, 1)
      /\ ghost' = [ghost EXCEPT !.at = t]
    BY <1>0 DEF ExecuteLater, Executed
<1>2. GhostOK' /\ ghost'.finished = ghost.finished /\ ghost'.restarts = ghost.restarts
      /\ ghost'.started = ghost.started /\ ghost'.hung = ghost.hung /\ ghost'.at = t
    BY <1>1 DEF IInv, GhostOK
<1> DEFINE old == IF t \in DOMAIN waiting THEN waiting[t] ELSE 0
<1>c. old \in Nat /\ old + 1 \in Nat
    BY DEF IInv, WaitingOK
<1>a. /\ DOMAIN Add(t, 1) = DOMAIN waiting \cup {t}
      /\ Add(t, 1) = [x \in DOMAIN Add(t, 1) |-> Add(t, 1)[x]]
      /\ Add(t, 1)[t] = old + 1
      /\ \A x \in DOMAIN waiting : x # t => Add(t, 1)[x] = waiting[x]
      /\ \A x \in DOMAIN Add(t, 1) : Add(t, 1)[x] \in Nat
  <2>1. /\ WaitingOK /\ 1 \in Int
        /\ (IF t \in DOMAIN waiting THEN waiting[t] ELSE 0) + 1 \in Nat
      BY <1>c DEF IInv
  <2>2. /\ DOMAIN Add(t, 1) = DOMAIN waiting \cup {t}
        /\ Add(t, 1) = [x \in DOMAIN Add(t, 1) |-> Add(t, 1)[x]]
        /\ Add(t, 1)[t] = (IF t \in DOMAIN waiting THEN waiting[t] ELSE 0) + 1
        /\ \A x \in DOMAIN waiting : x # t => Add(t, 1)[x] = waiting[x]
        /\ \A x \in DOMAIN Add(t, 1) : Add(t, 1)[x] \in Nat
      BY <2>1, Counted
  <2> QED
      BY <2>2
<1> HIDE DEF old
<1>3. WaitingOK' /\ Waits(t)'
  <2>1. CASE waiting' = waiting /\ Waits(t)
      BY <2>1 DEF IInv, WaitingOK, Waits
  <2>2. CASE waiting' = Add(t, 1)
    <3> DEFINE w == Add(t, 1)
    <3>1. w = [x \in DOMAIN w |-> w[x]] /\ (\A x \in DOMAIN w : w[x] \in Nat) /\ t \in DOMAIN w
          /\ w[t] > 0 /\ waiting' = w
        BY <1>a, <1>c, <2>2
    <3> HIDE DEF w
    <3> QED
        BY <3>1 DEF WaitingOK, Waits
  <2> QED
      BY <1>1, <2>1, <2>2
<1>4. IsWaiting'
    BY <1>3 DEF IsWaiting, Waits
<1>5. ghost.restarts = 0 => Alone' /\ Ended'
  <2> HAVE ghost.restarts = 0
  <2>1. /\ \A e \in DOMAIN waiting : waiting[e] = 0
        /\ ghost.finished = 0
      BY <1>1 DEF IInv, Alone, Ended, Waits, WaitingOK, GhostOK
  <2>2. waiting' = Add(t, 1)
      BY <1>1, <2>1 DEF Waits
  <2>3. waiting'[t] = 1 /\ \A e \in DOMAIN waiting' : e # t => waiting'[e] = 0
      BY <1>a, <2>1, <2>2 DEF old
  <2> QED
      BY <1>1, <1>2, <2>1, <2>3 DEF Alone, Ended, Waits
<1> QED
    BY <1>1, <1>2, <1>3, <1>4, <1>5 DEF IInv, NotStarted, SomebodyCallsBack

\* A turn that ends the loop for good: by a script that throws, or at the end
LEMMA LeavingPreserves ==
    ASSUME IInv, ExecuteInVain \/ Finish
    PROVE  IInv'
<1>1. running /\ running' = FALSE /\ waiting' = waiting
    BY DEF ExecuteInVain, Finish
<1>2. GhostOK' /\ ghost'.restarts = ghost.restarts /\ ghost'.started = ghost.started
      /\ (ghost'.hung \/ ghost'.finished > 0)
      /\ ghost'.finished \in {ghost.finished, ghost.finished + 1}
  <2> DEFINE g == [ghost EXCEPT !.at = Task]
  <2>1. GhostOK
      BY DEF IInv
  <2>2. CASE ExecuteInVain
    <3>1. ghost' = [g EXCEPT !.hung = TRUE]
        BY <2>2 DEF ExecuteInVain, Executed
    <3>2. PICK t : t = Task
        OBVIOUS
    <3>4. g = [at |-> t, finished |-> ghost.finished, restarts |-> ghost.restarts,
               hung |-> ghost.hung, started |-> ghost.started]
        BY <2>1, <3>2 DEF GhostOK
    <3> HIDE DEF g
    <3>3. ghost' = [at |-> t, finished |-> ghost.finished, restarts |-> ghost.restarts,
                    hung |-> TRUE, started |-> ghost.started]
        BY <3>1, <3>4
    <3> QED
        BY <2>1, <3>3 DEF GhostOK
  <2>3. CASE Finish
    <3>1. ghost' = [at |-> ghost.at, finished |-> ghost.finished + 1,
                    restarts |-> ghost.restarts, hung |-> ghost.hung, started |-> ghost.started]
        BY <2>1, <2>3 DEF Finish, GhostOK
    <3> QED
        BY <2>1, <3>1 DEF GhostOK
  <2> QED
      BY <2>2, <2>3
<1>3. ghost.restarts = 0 => ~IsWaiting' /\ ghost.finished = 0
    BY <1>1 DEF IInv, Alone, Ended, IsWaiting, Waits, GhostOK
<1>4. ghost.started
    BY <1>1 DEF IInv, NotStarted
<1>5. WaitingOK' /\ NotStarted' /\ SomebodyCallsBack'
    BY <1>1, <1>2, <1>4 DEF IInv, WaitingOK, NotStarted, SomebodyCallsBack, GhostOK
<1>6. ghost.restarts = 0 => Alone' /\ Ended'
    BY <1>1, <1>2, <1>3 DEF Alone, Ended, IsWaiting
<1> QED
    BY <1>1, <1>2, <1>5, <1>6 DEF IInv

\* A task that is completed or cancelled
LEMMA CompletingPreserves ==
    ASSUME IInv, NEW e \in DOMAIN waiting,
           Complete(e) \/ \E exit \in def.exits[e] : CancelEditing(e, exit)
    PROVE  IInv'
<1>1. Waits(e) /\ waiting' = Add(e, -1) /\ running' = TRUE /\ ~running /\ ghost' = ghost
    BY DEF Complete, CancelEditing
<1>2. /\ DOMAIN waiting' = DOMAIN waiting
      /\ waiting'[e] = waiting[e] - 1
      /\ \A x \in DOMAIN waiting : x # e => waiting'[x] = waiting[x]
      /\ WaitingOK'
  <2> DEFINE w == Add(e, -1)
  <2>1. waiting[e] \in Nat /\ waiting[e] > 0 /\ waiting[e] + -1 \in Nat
      BY <1>1 DEF IInv, WaitingOK, Waits
  <2>2. /\ DOMAIN w = DOMAIN waiting \cup {e}
        /\ w = [x \in DOMAIN w |-> w[x]]
        /\ w[e] = waiting[e] + -1
        /\ \A x \in DOMAIN waiting : x # e => w[x] = waiting[x]
        /\ \A x \in DOMAIN w : w[x] \in Nat
    <3>1. /\ (IF e \in DOMAIN waiting THEN waiting[e] ELSE 0) = waiting[e]
          /\ (IF e \in DOMAIN waiting THEN waiting[e] ELSE 0) + -1 \in Nat
          /\ -1 \in Int /\ WaitingOK
        BY <2>1 DEF IInv
    <3>2. /\ DOMAIN Add(e, -1) = DOMAIN waiting \cup {e}
          /\ Add(e, -1) = [x \in DOMAIN Add(e, -1) |-> Add(e, -1)[x]]
          /\ Add(e, -1)[e] = (IF e \in DOMAIN waiting THEN waiting[e] ELSE 0) + -1
          /\ \A x \in DOMAIN waiting : x # e => Add(e, -1)[x] = waiting[x]
          /\ \A x \in DOMAIN Add(e, -1) : Add(e, -1)[x] \in Nat
        BY <3>1, Counted
    <3> QED
        BY <3>1, <3>2
  <2>3. waiting' = w
      BY <1>1
  <2> HIDE DEF w
  <2> QED
      BY <2>1, <2>2, <2>3 DEF WaitingOK
<1>3. ghost.started
    BY <1>1 DEF IInv, NotStarted, IsWaiting
<1>4. ghost.restarts = 0 => ~IsWaiting' /\ ghost.finished = 0
    BY <1>1, <1>2 DEF IInv, Alone, Ended, IsWaiting, Waits, GhostOK
<1> QED
    BY <1>1, <1>2, <1>3, <1>4 DEF IInv, GhostOK, NotStarted, Alone, Ended, SomebodyCallsBack, IsWaiting

\* The invariant of the loop, for any definitions
LEMMA IInvAlways == Spec => []IInv
<1>1. ASSUME IInv, UNCHANGED vars PROVE IInv'
    BY <1>1 DEF IInv, GhostOK, WaitingOK, NotStarted, Alone, Ended, SomebodyCallsBack, IsWaiting,
                Waits, vars
<1>2. IInv /\ [Next]_vars => IInv'
    BY <1>1, StartPreserves, PassingPreserves, WaitingPreserves, LeavingPreserves,
       CompletingPreserves DEF Next
<1> QED
    BY InitIInv, <1>2, PTL DEF Spec

--------------------------------------------------------------------------------
\* A process that is not started twice has one task under way at most, the last one, and
\* finishes once, with nothing left to come: start, executeElement and the callbacks.
THEOREM OneTaskUnderWay == Spec => []OneAtATime
<1>1. IInv => OneAtATime
    BY DEF IInv, OneAtATime, Alone, Ended
<1> QED
    BY <1>1, IInvAlways, PTL

\* A process that left its loop before the end can be called back, unless an asynchronous
\* script threw, even if it was started several times.
THEOREM NeverForgotten == Spec => []SomebodyCallsBack
<1>1. IInv => SomebodyCallsBack
    BY DEF IInv
<1> QED
    BY <1>1, IInvAlways, PTL

--------------------------------------------------------------------------------
(* What is due next *)

\* What the definition says comes next
Due == IF stack # <<>> THEN Flow!Normal(def, Top(stack))
       ELSE IF start # None THEN Flow!Designated(def, start)
       ELSE Flow!Beginning(def)

\* The search ends where the first task is t, or else nowhere, if t is the end.
Arrives(n, t) ==
    /\ n.found \in BOOLEAN
    /\ IsPath(def, n.stack)
    /\ n.found => n.stack # <<>> /\ Flow!FirstTask(def, Top(n.stack)) = t
    /\ ~n.found => t = End

\* The search by name
LEMMA ByName ==
    ASSUME def \in Definitions, NEW id
    PROVE  Arrives(At(Goto(id)), Flow!Designated(def, id))
<1>1. CASE id \in Elements
  <2>1. Leads(def, Goto(id), id)
      BY <1>1, Gotos
  <2>2. IsPath(def, Goto(id)) /\ Goto(id) # <<>> /\ Top(Goto(id)) = id
      BY <2>1, PathTop DEF Leads
  <2>3. Flow!Designated(def, id) = Flow!FirstTask(def, id)
      BY <1>1 DEF Flow!Designated, Flow!Elements, Elements
  <2> QED
      BY <2>2, <2>3 DEF Arrives, At
<1>2. CASE id \notin Elements
  <2>1. Goto(id) = <<>>
      BY <1>2, Gotos
  <2>2. Flow!Designated(def, id) = End
      BY <1>2 DEF Flow!Designated, Flow!Elements, Elements
  <2>3. IsPath(def, <<>>)
      BY DEF IsPath
  <2> QED
      BY <2>1, <2>2, <2>3 DEF Arrives, At
<1> QED
    BY <1>1, <1>2

\* $677 finds what the definition says.
LEMMA Searches ==
    ASSUME def \in Definitions, IsPath(def, stack)
    PROVE  Arrives(Found, Due)
<1>1. CASE stack # <<>>
  <2>1. Top(stack) \in Elements
      BY <1>1, PathTop
  <2>2. CASE def.next[Top(stack)] # None
    <3>1. Found = At(Goto(def.next[Top(stack)]))
        BY <1>1, <2>2 DEF Found, FindNext
    <3>2. Due = Flow!Designated(def, def.next[Top(stack)])
        BY <1>1, <2>2 DEF Due, Flow!Normal
    <3> QED
        BY <3>1, <3>2, ByName
  <2>3. CASE def.next[Top(stack)] = None
    <3>1. Found = FindNextElement(stack)
        BY <1>1, <2>3 DEF Found, FindNext
    <3>2. Due = Flow!Following(def, Top(stack))
        BY <1>1, <2>3 DEF Due, Flow!Normal
    <3> QED
        BY <1>1, <3>1, <3>2, NextElements DEF Arrives
  <2> QED
      BY <2>2, <2>3
<1>2. CASE stack = <<>> /\ start # None
  <2>1. Found = At(Goto(start)) /\ Due = Flow!Designated(def, start)
      BY <1>2 DEF Found, FindNext, Due
  <2> QED
      BY <2>1, ByName
<1>3. CASE stack = <<>> /\ start = None /\ def.kids[Process] # <<>>
  <2> DEFINE s == <<Under(Process, 1)>>
  <2>1. Found = [found |-> s # <<>>, stack |-> s] /\ s # <<>>
      BY <1>3 DEF Found, FindNext, At
  <2>2. Due = Flow!FirstTask(def, def.kids[Process][1])
      BY <1>3 DEF Due, Flow!Beginning
  <2>3. 1 \in 1 .. Len(def.kids[Process])
    <3>1. def.kids[Process] \in Seq(DOMAIN def.kind)
        BY Places
    <3> QED
        BY <1>3, <3>1
  <2>4. Append(<<>>, Under(Process, 1)) = s
      OBVIOUS
  <2>5. Leads(def, s, def.kids[Process][1])
      BY <2>3, <2>4, PathDown
  <2>6. IsPath(def, s) /\ Top(s) = def.kids[Process][1]
      BY <2>5, PathTop DEF Leads
  <2> HIDE DEF s
  <2> QED
      BY <2>1, <2>2, <2>6 DEF Arrives
<1>4. CASE stack = <<>> /\ start = None /\ def.kids[Process] = <<>>
  <2>1. Found = [found |-> FALSE, stack |-> <<>>] /\ Due = End
      BY <1>4 DEF Found, FindNext, NoNext, Due, Flow!Beginning
  <2> QED
      BY <1>4, <2>1 DEF Arrives
<1> QED
    BY <1>1, <1>2, <1>3, <1>4

\* The next turn of the loop comes to the task that is due.
TurnOK ==
    /\ Found.found \in BOOLEAN
    /\ IsPath(def, Found.stack)
    /\ Found.found => /\ IsPath(def, Reached) /\ Reached # <<>>
                      /\ Task \in Elements /\ IsTask(Task)
                      /\ Task = Due /\ Due # End
    /\ ~Found.found => Due = End

\* From a path down the definition, the next turn of the loop comes to what is due.
LEMMA Turns ==
    ASSUME def \in Definitions, IsPath(def, stack)
    PROVE  TurnOK
<1>1. Arrives(Found, Due)
    BY Searches
<1>2. ASSUME Found.found
      PROVE  /\ IsPath(def, Reached) /\ Reached # <<>>
             /\ Task \in Elements /\ IsTask(Task)
             /\ Task = Due /\ Due # End
  <2> DEFINE s == Found.stack
  <2>1. IsPath(def, s) /\ s # <<>> /\ Flow!FirstTask(def, Top(s)) = Due
      BY <1>1, <1>2 DEF Arrives
  <2> HIDE DEF s
  <2>2. Top(s) \in Elements
      BY <2>1, PathTop
  <2>3. Due \in Elements /\ IsTask(Due)
      BY <2>1, <2>2, FirstTasks DEF Elements, IsTask
  <2>4. Leads(def, FirstTaskStack(s), Due)
      BY <2>1, FirstTaskStacks
  <2>5. IsPath(def, FirstTaskStack(s)) /\ FirstTaskStack(s) # <<>> /\ Top(FirstTaskStack(s)) = Due
      BY <2>4, PathTop DEF Leads
  <2>6. End \notin Elements
      BY Places DEF Elements
  <2> QED
      BY <2>3, <2>5, <2>6 DEF Task, Reached, s
<1> QED
    BY <1>1, <1>2 DEF Arrives, TurnOK

--------------------------------------------------------------------------------
\* The stack is a path of the definition, and everybody who waits or was executed is one
\* of its elements.
PlacesOK ==
    /\ def \in Definitions
    /\ IsPath(def, stack)
    /\ DOMAIN waiting \subseteq Elements
    /\ ghost.at \in Elements \cup {None}
    /\ ghost.restarts \in 0 .. MaxRestarts

\* The stack is a path down the definition at the start.
LEMMA InitPlaces == Init => PlacesOK
<1> SUFFICES ASSUME Init PROVE PlacesOK
    OBVIOUS
<1>1. def \in Definitions /\ stack = <<>> /\ ghost.at = None /\ ghost.restarts = 0
    BY DEF Init
<1>2. IsPath(def, stack)
    BY <1>1 DEF IsPath
<1>3. DOMAIN waiting = {}
    BY DEF Init
<1> QED
    BY <1>1, <1>2, <1>3, BoundsAssumption DEF PlacesOK

\* A turn of the loop with a task, and the callback of one
Executes == \/ ExecuteNow
            \/ \E exit \in UNION {def.exits[e] : e \in Elements} : ExecuteGate(exit)
            \/ ExecuteLater
            \/ ExecuteInVain
Resumes == \E e \in DOMAIN waiting : Complete(e) \/ \E exit \in def.exits[e] : CancelEditing(e, exit)

\* What the actions do to the record of what happened
LEMMA GhostSteps ==
    ASSUME GhostOK
    PROVE  /\ Start => /\ ghost'.at = ghost.at /\ ghost'.finished = ghost.finished
                       /\ ghost'.restarts = ghost.restarts + (IF ghost.started THEN 1 ELSE 0)
           /\ Executes => /\ Found.found /\ ghost'.at = Task
                          /\ ghost'.finished = ghost.finished /\ ghost'.restarts = ghost.restarts
           /\ Finish => /\ ghost'.at = ghost.at /\ ghost'.finished = ghost.finished + 1
                        /\ ghost'.restarts = ghost.restarts
           /\ Resumes => ghost' = ghost
<1> DEFINE G(a, f, r, h, s) == [at |-> a, finished |-> f, restarts |-> r, hung |-> h, started |-> s]
<1>1. ghost = G(ghost.at, ghost.finished, ghost.restarts, ghost.hung, ghost.started)
    BY DEF GhostOK
<1>2. PICK t : t = Task
    OBVIOUS
<1>3. [ghost EXCEPT !.at = t] = G(t, ghost.finished, ghost.restarts, ghost.hung, ghost.started)
    BY <1>1
<1>4. Executes => Found.found /\ \E h : ghost' = G(t, ghost.finished, ghost.restarts, h, ghost.started)
  <2>1. CASE ExecuteInVain
    <3> DEFINE g == [ghost EXCEPT !.at = t]
    <3>1. Found.found /\ ghost' = [g EXCEPT !.hung = TRUE]
        BY <1>2, <2>1 DEF ExecuteInVain, Executed
    <3>2. g = G(t, ghost.finished, ghost.restarts, ghost.hung, ghost.started)
        BY <1>3
    <3> HIDE DEF g
    <3> QED
        BY <3>1, <3>2
  <2>2. CASE Executes /\ ~ExecuteInVain
    <3>1. Found.found /\ ghost' = [ghost EXCEPT !.at = t]
        BY <1>2, <2>2 DEF Executes, ExecuteNow, ExecuteGate, ExecuteLater, Executed
    <3> HIDE DEF G
    <3> QED
        BY <1>3, <3>1
  <2> QED
      BY <2>1, <2>2
<1> QED
  <2>1. Start => /\ ghost'.at = ghost.at /\ ghost'.finished = ghost.finished
                 /\ ghost'.restarts = ghost.restarts + (IF ghost.started THEN 1 ELSE 0)
      BY <1>1 DEF Start
  <2>2. Finish => /\ ghost'.at = ghost.at /\ ghost'.finished = ghost.finished + 1
                  /\ ghost'.restarts = ghost.restarts
      BY <1>1 DEF Finish
  <2>3. Resumes => ghost' = ghost
      BY DEF Resumes, Complete, CancelEditing
  <2>4. Executes => /\ Found.found /\ ghost'.at = t
                    /\ ghost'.finished = ghost.finished /\ ghost'.restarts = ghost.restarts
      BY <1>4
  <2> QED
      BY <1>2, <2>1, <2>2, <2>3, <2>4

\* The steps, by what they do to the record of what happened
LEMMA NextCases == Next <=> Start \/ Executes \/ Finish \/ Resumes
    BY DEF Next, Executes, Resumes

\* Every step leaves a path down the definition in the stack.
LEMMA StepPlaces ==
    ASSUME IInv, PlacesOK, Next
    PROVE  PlacesOK'
<1>1. def' = def /\ Elements' = Elements /\ GhostOK
    BY DEF Next, Start, ExecuteNow, ExecuteGate, ExecuteLater, ExecuteInVain, Finish, Complete,
           CancelEditing, Elements, IInv
<1>2. TurnOK
    BY Turns DEF PlacesOK
<1>3. IsPath(def, <<>>)
    BY DEF IsPath
<1>4. ASSUME stack' \in {stack, <<>>} \/ (Found.found /\ stack' = Reached) \/ stack' = Found.stack
      PROVE  IsPath(def', stack')
    BY <1>1, <1>2, <1>3, <1>4 DEF PlacesOK, TurnOK
<1>5. IsPath(def', stack')
    BY <1>4 DEF Next, Start, ExecuteNow, ExecuteGate, ExecuteLater, ExecuteInVain, Finish,
                Complete, CancelEditing
<1>6. DOMAIN waiting' \subseteq Elements
  <2>1. CASE waiting' = waiting
      BY <2>1 DEF PlacesOK
  <2>2. CASE Found.found /\ waiting' = Add(Task, 1)
    <3>1. DOMAIN Add(Task, 1) = DOMAIN waiting \cup {Task}
        BY DEF Add
    <3> QED
        BY <1>2, <2>2, <3>1 DEF PlacesOK, TurnOK
  <2>3. ASSUME NEW e \in DOMAIN waiting, waiting' = Add(e, -1)
        PROVE  DOMAIN waiting' \subseteq Elements
    <3>1. DOMAIN Add(e, -1) = DOMAIN waiting \cup {e}
        BY DEF Add
    <3> QED
        BY <2>3, <3>1 DEF PlacesOK
  <2>4. \/ waiting' = waiting
        \/ Found.found /\ waiting' = Add(Task, 1)
        \/ \E e \in DOMAIN waiting : waiting' = Add(e, -1)
      BY DEF Next, Start, ExecuteNow, ExecuteGate, ExecuteLater, ExecuteInVain, Finish,
             Complete, CancelEditing
  <2> QED
      BY <2>1, <2>2, <2>3, <2>4
<1>7. ghost'.at \in Elements \cup {None} /\ ghost'.restarts \in 0 .. MaxRestarts
  <2>1. CASE Start
      BY <1>1, <2>1, GhostSteps, BoundsAssumption DEF Start, GhostOK, PlacesOK
  <2>2. CASE Executes
      BY <1>1, <1>2, <2>2, GhostSteps DEF PlacesOK, TurnOK
  <2>3. CASE Finish \/ Resumes
      BY <1>1, <2>3, GhostSteps DEF PlacesOK
  <2> QED
      BY <2>1, <2>2, <2>3, NextCases
<1> QED
    BY <1>1, <1>5, <1>6, <1>7 DEF PlacesOK

\* The stack is always a path down the definition, and the next turn comes to what is due.
LEMMA PlacesAlways == Spec => [](PlacesOK /\ TurnOK)
<1>1. IInv /\ PlacesOK /\ [Next]_vars => PlacesOK'
  <2>1. ASSUME PlacesOK, UNCHANGED vars PROVE PlacesOK'
      BY <2>1 DEF PlacesOK, vars, Elements
  <2> QED
      BY <2>1, StepPlaces
<1>2. PlacesOK => TurnOK
    BY Turns DEF PlacesOK
<1> QED
    BY InitPlaces, IInvAlways, <1>1, <1>2, PTL DEF Spec

\* Each variable keeps its type, and the stack is a path down the lists of the definition:
\* what $677, $698 and $699 make of it in start.
THEOREM TypeCorrect == Spec => []TypeOK
<1>1. IInv /\ PlacesOK => TypeOK
  <2> SUFFICES ASSUME IInv, PlacesOK PROVE TypeOK
      OBVIOUS
  <2>1. \A n \in DOMAIN stack : /\ stack[n].el \in Elements \cup {Process}
                                /\ stack[n].index \in DOMAIN def.kids[stack[n].el]
                                /\ n > 1 => ElementOf(stack[n - 1]) = stack[n].el
    <3> SUFFICES ASSUME NEW n \in DOMAIN stack
                 PROVE  /\ stack[n].el \in Elements \cup {Process}
                        /\ stack[n].index \in DOMAIN def.kids[stack[n].el]
                        /\ n > 1 => ElementOf(stack[n - 1]) = stack[n].el
        OBVIOUS
    <3>1. n \in 1 .. Len(stack) /\ stack \in Seq(Frames(def))
        BY DEF PlacesOK, IsPath
    <3>2. /\ stack[n].el \in Elements \cup {Process}
          /\ def.kids[stack[n].el] \in Seq(Elements)
          /\ stack[n].index \in 1 .. Len(def.kids[stack[n].el])
        BY <3>1, PathPlaces DEF PlacesOK
    <3>3. n > 1 => ElementOf(stack[n - 1]) = stack[n].el
        BY <3>1 DEF PlacesOK, IsPath, ElementOf, Kid
    <3> QED
        BY <3>2, <3>3
  <2>2. stack # <<>> => stack[1].el = Process
      BY DEF PlacesOK, IsPath
  <2>3. \A e \in DOMAIN waiting : waiting[e] \in Nat
      BY DEF IInv, WaitingOK
  <2>4. ghost.finished \in Nat /\ ghost.hung \in BOOLEAN /\ running \in BOOLEAN
      BY DEF IInv, GhostOK
  <2> QED
      BY <2>1, <2>2, <2>3, <2>4 DEF PlacesOK, TypeOK
<1> QED
    BY <1>1, IInvAlways, PlacesAlways, PTL

--------------------------------------------------------------------------------
\* The state of ProcessFlow that a state is mapped to
FlowAt == IF ghost.finished > 0 THEN End ELSE ghost.at
FlowThen == IF ghost.finished > 0 \/ ~Found.found THEN End ELSE Task

\* Where the process stands in its definition, and what follows
LEMMA FlowState ==
    ASSUME PlacesOK, TurnOK
    PROVE  /\ FlowThen = IF ghost.finished > 0 THEN End ELSE Due
           /\ FlowAt = End <=> ghost.finished > 0
<1>1. ghost.at # End
    BY Places, NamesAssumption DEF PlacesOK, Elements
<1> QED
    BY <1>1 DEF FlowThen, FlowAt, TurnOK

\* What may follow a task
LEMMA Follows ==
    ASSUME NEW e
    PROVE  /\ def.kind[e] # "gate" => Flow!Normal(def, e) \in Flow!Successors(def, e)
           /\ def.kind[e] = "gate" => \A x \in def.exits[e] :
                 (IF x = None THEN Flow!Normal(def, e) ELSE Flow!Designated(def, x))
                    \in Flow!Successors(def, e)
           /\ def.kind[e] = "user" => \A x \in def.exits[e] :
                 (IF x = None THEN Flow!Beginning(def) ELSE Flow!Designated(def, x))
                    \in Flow!Successors(def, e)
<1>1. CASE def.kind[e] = "gate"
    BY <1>1 DEF Flow!Successors
<1>2. CASE def.kind[e] = "user"
    BY <1>2 DEF Flow!Successors
<1>3. CASE def.kind[e] # "gate" /\ def.kind[e] # "user"
    BY <1>3 DEF Flow!Successors
<1> QED
    BY <1>1, <1>2, <1>3

\* Each action is a step of ProcessFlow, or none.
LEMMA FlowStep ==
    ASSUME IInv, PlacesOK, PlacesOK', TurnOK, TurnOK', Next
    PROVE  \/ /\ FlowThen # End
              /\ FlowAt' = FlowThen
              /\ FlowThen' \in Flow!Successors(def, FlowThen)
              /\ def' = def
           \/ /\ FlowAt # End
              /\ \E e \in Elements : def.kind[e] = "user" /\ FlowThen' \in Flow!Successors(def, e)
              /\ def' = def /\ FlowAt' = FlowAt
           \/ /\ FlowThen = End /\ FlowAt # End /\ FlowAt' = End /\ def' = def /\ FlowThen' = FlowThen
           \/ def' = def /\ FlowAt' = FlowAt /\ FlowThen' = FlowThen
<1>1. /\ FlowThen = IF ghost.finished > 0 THEN End ELSE Due
      /\ FlowAt = End <=> ghost.finished > 0
      /\ FlowThen' = IF ghost'.finished > 0 THEN End ELSE Due'
      /\ FlowAt' = IF ghost'.finished > 0 THEN End ELSE ghost'.at
      /\ FlowAt = IF ghost.finished > 0 THEN End ELSE ghost.at
  <2>1. FlowThen' = IF ghost'.finished > 0 THEN End ELSE Due'
    <3>1. ~Found.found' => Due' = End
        BY DEF TurnOK
    <3>2. Found.found' => Task' = Due'
        BY DEF TurnOK
    <3> QED
        BY <3>1, <3>2 DEF FlowThen
  <2> QED
      BY <2>1, FlowState DEF FlowAt
<1>2. def' = def /\ GhostOK
    BY DEF Next, Start, ExecuteNow, ExecuteGate, ExecuteLater, ExecuteInVain, Finish, Complete,
           CancelEditing, IInv
<1>3. Due' = IF stack' # <<>> THEN Flow!Normal(def, Top(stack)')
             ELSE IF start' # None THEN Flow!Designated(def, start')
             ELSE Flow!Beginning(def)
    BY <1>2 DEF Due
<1>4. ASSUME stack' = stack, start' = start PROVE Due' = Due
    BY <1>2, <1>4 DEF Due, Top, ElementOf
<1>5. ASSUME Found.found, stack' = Reached PROVE Due' = Flow!Normal(def, Task)
  <2>1. stack' # <<>>
      BY <1>5 DEF TurnOK
  <2>2. Top(stack)' = Task
      BY <1>2, <1>5 DEF Top, ElementOf, Task
  <2> QED
      BY <1>3, <2>1, <2>2
<1>6. CASE ghost.finished > 0
  <2>1. ghost'.finished > 0
      BY <1>2, <1>6, GhostSteps, NextCases DEF GhostOK
  <2> QED
      BY <1>1, <1>2, <1>6, <2>1
<1>7. CASE ghost.finished = 0
  <2>1. FlowThen = Due /\ FlowAt = ghost.at /\ FlowAt # End
      BY <1>1, <1>7
  <2>2. CASE Start \/ \E e \in DOMAIN waiting : Complete(e)
    <3>1. stack' = stack /\ start' = start /\ ghost'.finished = 0 /\ ghost'.at = ghost.at
        BY <1>2, <1>7, <2>2, GhostSteps DEF Start, Complete
    <3> QED
        BY <1>1, <1>2, <1>4, <2>1, <3>1
  <2>3. CASE Finish
    <3>1. ghost'.finished = 1 /\ ~Found.found
        BY <1>2, <1>7, <2>3, GhostSteps DEF Finish
    <3>2. FlowThen = End /\ FlowAt' = End /\ FlowThen' = End
        BY <1>1, <2>1, <3>1 DEF TurnOK
    <3> QED
        BY <1>2, <2>1, <3>2
  <2>4. CASE Executes
    <3>1. Found.found /\ ghost'.at = Task /\ ghost'.finished = 0 /\ Task = Due /\ Due # End
        BY <1>2, <1>7, <2>4, GhostSteps DEF TurnOK
    <3>2. FlowThen # End /\ FlowAt' = FlowThen /\ FlowThen' = Due' /\ FlowThen = Task
        BY <1>1, <2>1, <3>1
    <3>3. Due' \in Flow!Successors(def, Task)
      <4>1. CASE ExecuteNow \/ ExecuteLater \/ ExecuteInVain
        <5>1. stack' = Reached /\ def.kind[Task] # "gate"
            BY <4>1 DEF ExecuteNow, ExecuteLater, ExecuteInVain
        <5> QED
            BY <1>5, <3>1, <5>1, Follows
      <4>2. ASSUME NEW exit, ExecuteGate(exit) PROVE Due' \in Flow!Successors(def, Task)
        <5>1. def.kind[Task] = "gate" /\ exit \in def.exits[Task]
            BY <4>2 DEF ExecuteGate
        <5>2. Due' = IF exit = None THEN Flow!Normal(def, Task) ELSE Flow!Designated(def, exit)
          <6>1. CASE exit = None
            <7>1. stack' = Reached
                BY <4>2, <6>1 DEF ExecuteGate
            <7> QED
                BY <1>5, <3>1, <6>1, <7>1
          <6>2. CASE exit # None
            <7>1. stack' = <<>> /\ start' = exit
                BY <4>2, <6>2 DEF ExecuteGate
            <7> QED
                BY <1>3, <6>2, <7>1
          <6> QED
              BY <6>1, <6>2
        <5> QED
            BY <5>1, <5>2, Follows
      <4> QED
          BY <2>4, <4>1, <4>2 DEF Executes
    <3> QED
        BY <1>2, <3>2, <3>3
  <2>5. ASSUME NEW e \in DOMAIN waiting, NEW exit \in def.exits[e], CancelEditing(e, exit)
        PROVE  /\ FlowAt # End
               /\ \E x \in Elements : def.kind[x] = "user" /\ FlowThen' \in Flow!Successors(def, x)
               /\ def' = def /\ FlowAt' = FlowAt
    <3>1. ghost' = ghost /\ def.kind[e] = "user" /\ stack' = <<>> /\ start' = exit
        BY <2>5 DEF CancelEditing
    <3>2. Due' = IF exit = None THEN Flow!Beginning(def) ELSE Flow!Designated(def, exit)
        BY <1>3, <3>1
    <3>3. FlowThen' = Due' /\ FlowAt' = FlowAt
        BY <1>1, <1>7, <3>1
    <3>4. FlowThen' \in Flow!Successors(def, e)
        BY <3>1, <3>2, <3>3, Follows
    <3>5. e \in Elements
        BY DEF PlacesOK
    <3> QED
        BY <1>2, <2>1, <3>1, <3>3, <3>4, <3>5
  <2>6. \/ Start \/ \E e \in DOMAIN waiting : Complete(e)
        \/ Finish
        \/ Executes
        \/ \E e \in DOMAIN waiting : \E exit \in def.exits[e] : CancelEditing(e, exit)
      BY NextCases DEF Resumes
  <2> QED
      BY <2>2, <2>3, <2>4, <2>5, <2>6
<1> QED
    BY <1>2, <1>6, <1>7 DEF GhostOK

\* The stack executes the tasks in the order the definition says, whatever the definition
\* is: start, $677, $70a, $698 and setNextElement implement ProcessFlow.
THEOREM ImplementsProcessFlow == Spec => FollowsDefinition
<1>1. Init => Flow!Init
  <2> SUFFICES ASSUME Init PROVE Flow!Init
      OBVIOUS
  <2>1. /\ def \in Definitions /\ ghost.finished = 0 /\ ghost.at = None
        /\ stack = <<>> /\ start = None
      BY DEF Init
  <2>2. TurnOK /\ PlacesOK
      BY InitPlaces, Turns DEF PlacesOK
  <2>3. FlowThen = Flow!Beginning(def) /\ FlowAt = None
      BY <2>1, <2>2, FlowState DEF Due, FlowAt
  <2> QED
      BY <2>1, <2>3 DEF Flow!Init, FlowThen, FlowAt
<1>2. IInv /\ PlacesOK /\ TurnOK /\ (PlacesOK /\ TurnOK)' /\ [Next]_vars => [Flow!Next]_(Flow!vars)
  <2> SUFFICES ASSUME IInv, PlacesOK, TurnOK, PlacesOK', TurnOK', [Next]_vars
               PROVE  [Flow!Next]_(Flow!vars)
      OBVIOUS
  <2>1. CASE Next
    <3>1. CASE FlowThen # End /\ FlowAt' = FlowThen
               /\ FlowThen' \in Flow!Successors(def, FlowThen) /\ def' = def
        BY <3>1 DEF Flow!Next, Flow!Execute, FlowAt, FlowThen
    <3>2. CASE /\ FlowAt # End
               /\ \E e \in Elements : def.kind[e] = "user" /\ FlowThen' \in Flow!Successors(def, e)
               /\ def' = def /\ FlowAt' = FlowAt
        BY <3>2 DEF Flow!Next, Flow!Cancel, Flow!Elements, Elements, FlowAt, FlowThen
    <3>3. CASE FlowThen = End /\ FlowAt # End /\ FlowAt' = End /\ def' = def /\ FlowThen' = FlowThen
        BY <3>3 DEF Flow!Next, Flow!Finish, FlowAt, FlowThen
    <3>4. CASE def' = def /\ FlowAt' = FlowAt /\ FlowThen' = FlowThen
        BY <3>4 DEF Flow!vars, FlowAt, FlowThen
    <3> QED
        BY <2>1, <3>1, <3>2, <3>3, <3>4, FlowStep
  <2>2. CASE UNCHANGED vars
    <3>1. def' = def /\ stack' = stack /\ start' = start /\ ghost' = ghost
        BY <2>2 DEF vars
    <3>2. Due' = Due
        BY <3>1 DEF Due, Top, ElementOf
    <3>3. FlowThen = IF ghost.finished > 0 THEN End ELSE Due
        BY FlowState
    <3>4. FlowThen' = IF ghost'.finished > 0 THEN End ELSE Due'
        BY DEF FlowThen, TurnOK
    <3>5. FlowThen' = FlowThen /\ FlowAt' = FlowAt
        BY <3>1, <3>2, <3>3, <3>4 DEF FlowAt
    <3> QED
        BY <3>1, <3>5 DEF Flow!vars, FlowAt, FlowThen
  <2> QED
      BY <2>1, <2>2
<1> QED
    BY <1>1, <1>2, IInvAlways, PlacesAlways, PTL DEF Spec, FollowsDefinition, Flow!Spec
================================================================================
