------------------------ MODULE SearchExplain_proofs ------------------------
(***************************************************************************)
(* Proofs about SearchExplain: the mapper reads the scores of a hit back   *)
(* out of its explanation, for every text, every list of functions and     *)
(* every chain of rescores.                                                *)
(*                                                                         *)
(* The argument: the tree of a hit is made of trees that stand inside each *)
(* other (Holds), the unwrapping of a level depends on that level and on   *)
(* the result for the level inside only, and a level is met in two ways:   *)
(* as it is, and below the "original" node of a normalizer.                *)
(***************************************************************************)
EXTENDS SearchExplain, SequenceTheorems, FiniteSetTheorems, WellFoundedInduction, TLAPS

-----------------------------------------------------------------------------
(* Induction, and first positions.                                           *)

Less == {ss \in Nat \X Nat : ss[1] < ss[2]}

(* A set of natural numbers that is not empty has a least element. *)
LEMMA LeastExists ==
  ASSUME NEW S, S \subseteq Nat, S # {}
  PROVE  \E i \in S : \A j \in S : i <= j
<1>1. IsWellFoundedOn(Less, Nat)
  BY NatLessThanWellFounded DEF OpToRel, Less
<1>2. PICK x \in S : \A y \in S : ~ (<<y, x>> \in Less)
  BY <1>1, WFMin
<1>3. ASSUME NEW y \in S PROVE x <= y
  <2>1. x \in Nat /\ y \in Nat
    OBVIOUS
  <2>2. <<y, x>> \in Less <=> y < x
    BY <2>1 DEF Less
  <2>3. QED
    BY <1>2, <2>1, <2>2
<1>4. QED
  BY <1>3

(* Induction up to a number, for a set. *)
LEMMA InductionTo ==
  ASSUME NEW n \in Nat, NEW G, 0 \in G, \A i \in 0 .. n : i \in G /\ i < n => i + 1 \in G
  PROVE  0 .. n \subseteq G
<1> DEFINE S == (0 .. n) \ G
<1>1. SUFFICES ASSUME S # {} PROVE FALSE
  OBVIOUS
<1>2. PICK m \in S : \A j \in S : m <= j
  <2>1. S \subseteq Nat
    OBVIOUS
  <2> HIDE DEF S
  <2>2. QED
    BY <1>1, <2>1, LeastExists
<1>3. m # 0 /\ m - 1 \in 0 .. n /\ m - 1 < n /\ m - 1 + 1 = m
  OBVIOUS
<1>4. m - 1 \notin S
  BY <1>2, <1>3
<1>5. QED
  BY <1>3, <1>4

LEMMA FirstIn ==
  ASSUME NEW S, S \subseteq Nat, S # {}
  PROVE  First(S) \in S /\ First(S) = Min(S)
<1>1. \E i \in S : \A j \in S : i <= j
  BY LeastExists
<1>2. Min(S) \in S
  BY <1>1 DEF Min
<1>3. QED
  BY <1>2 DEF First

LEMMA FirstIs ==
  ASSUME NEW S, S \subseteq Int, NEW m \in S, \A j \in S : m <= j
  PROVE  First(S) = m
<1>1. \A x \in S : (\A j \in S : x <= j) => x = m
  OBVIOUS
<1>2. Min(S) = m
  BY <1>1 DEF Min
<1>3. QED
  BY <1>2 DEF First

LEMMA FirstOfNone == First({}) = None
BY DEF First

LEMMA ListedOne ==
  ASSUME NEW x \in Int PROVE Listed({x}) = <<x>>
<1>1. Cardinality({x}) = 1
  BY FS_Singleton
<1>2. {y \in {x} : y <= x} = {x}
  OBVIOUS
<1>3. Listed({x}) = [k \in 1 .. 1 |-> CHOOSE z \in {x} : Cardinality({y \in {x} : y <= z}) = k]
  BY <1>1 DEF Listed
<1>4. (CHOOSE z \in {x} : Cardinality({y \in {x} : y <= z}) = 1) = x
  BY <1>1, <1>2
<1>5. ASSUME NEW k \in 1 .. 1
      PROVE  (CHOOSE z \in {x} : Cardinality({y \in {x} : y <= z}) = k) = x
  <2>1. k = 1
    OBVIOUS
  <2>2. QED
    BY <1>4, <2>1
<1>6. Listed({x}) = [k \in 1 .. 1 |-> x]
  BY <1>3, <1>5
<1>7. QED
  BY <1>6

-----------------------------------------------------------------------------
(* Trees as sequences.                                                       *)

IsNode(n) == DOMAIN n = {"kind", "about", "value", "depth"} /\ n.depth \in Nat

(* Several trees, one after the other. *)
Forest(u) ==
  /\ u \in Seq(ToSet(u)) /\ \A i \in DOMAIN u : IsNode(u[i])
  /\ u # <<>> => u[1].depth = 0

Tree(u) == Forest(u) /\ u # <<>> /\ \A i \in DOMAIN u : i # 1 => u[i].depth >= 1

(* The same description and score, at another depth. *)
SameNode(n, m) == n.kind = m.kind /\ n.about = m.about /\ n.value = m.value

(* The trees u stand in t from position x on, d levels down. *)
Holds(t, x, d, u) ==
  /\ x \in Nat \ {0} /\ d \in Nat /\ x + Len(u) <= Len(t) + 1
  /\ \A k \in 1 .. Len(u) : /\ SameNode(t[x + k - 1], u[k])
                            /\ t[x + k - 1].depth = u[k].depth + d
  /\ x + Len(u) <= Len(t) => t[x + Len(u)].depth <= d

LEMMA ForestShape ==
  ASSUME NEW u, Forest(u)
  PROVE  /\ Len(u) \in Nat /\ DOMAIN u = 1 .. Len(u)
         /\ \A i \in 1 .. Len(u) : IsNode(u[i])
BY DEF Forest

LEMMA NodeShape ==
  ASSUME NEW kind, NEW about, NEW value, NEW u, Forest(u)
  PROVE  /\ Tree(Node(kind, about, value, u)) /\ Len(Node(kind, about, value, u)) = Len(u) + 1
         /\ Node(kind, about, value, u)[1]
              = [kind |-> kind, about |-> about, value |-> value, depth |-> 0]
         /\ \A k \in 1 .. Len(u) :
              /\ SameNode(Node(kind, about, value, u)[k + 1], u[k])
              /\ Node(kind, about, value, u)[k + 1].depth = u[k].depth + 1
<1> DEFINE root == [kind |-> kind, about |-> about, value |-> value, depth |-> 0]
           down == [i \in DOMAIN u |-> [u[i] EXCEPT !.depth = @ + 1]]
           n == Node(kind, about, value, u)
<1>1. Len(u) \in Nat /\ DOMAIN u = 1 .. Len(u) /\ \A i \in 1 .. Len(u) : IsNode(u[i])
  BY ForestShape
<1>2. ASSUME NEW k \in 1 .. Len(u)
      PROVE  IsNode(down[k]) /\ SameNode(down[k], u[k]) /\ down[k].depth = u[k].depth + 1
  <2>1. down[k] = [u[k] EXCEPT !.depth = @ + 1]
    BY <1>1
  <2>2. DOMAIN u[k] = {"kind", "about", "value", "depth"} /\ u[k].depth \in Nat
    BY <1>1 DEF IsNode
  <2>3. QED
    BY <2>1, <2>2 DEF IsNode, SameNode
<1>3. IsNode(root)
  BY DEF IsNode
<1>4. /\ n = <<root>> \o down
      /\ <<root>> \in Seq({root} \cup ToSet(down)) /\ Len(<<root>>) = 1 /\ <<root>>[1] = root
  BY DEF Node
<1>5. down \in Seq({root} \cup ToSet(down)) /\ Len(down) = Len(u)
  <2>1. down \in [1 .. Len(u) -> {root} \cup ToSet(down)]
    <3>1. DOMAIN down = 1 .. Len(u)
      BY <1>1
    <3>2. ASSUME NEW i \in 1 .. Len(u) PROVE down[i] \in ToSet(down)
      BY <3>1 DEF ToSet
    <3> HIDE DEF down, root
    <3>3. down = [i \in 1 .. Len(u) |-> down[i]]
      BY <1>1 DEF down
    <3>4. QED
      BY <3>2, <3>3
  <2> HIDE DEF down, root
  <2>2. QED
    BY <1>1, <2>1
<1> HIDE DEF root, down, n
<1>6. /\ n \in Seq({root} \cup ToSet(down)) /\ Len(n) = Len(u) + 1
      /\ n[1] = root /\ \A k \in 1 .. Len(u) : n[k + 1] = down[k]
  <2>1. /\ n \in Seq({root} \cup ToSet(down)) /\ Len(n) = 1 + Len(down)
        /\ \A i \in 1 .. 1 + Len(down) : n[i] = IF i <= 1 THEN <<root>>[i] ELSE down[i - 1]
    BY <1>4, <1>5, ConcatProperties
  <2>2. QED
    BY <1>1, <1>4, <1>5, <2>1
<1>7. Tree(n)
  <2>1. n \in Seq(ToSet(n))
    <3>1. n \in [1 .. Len(n) -> ToSet(n)]
      BY <1>6 DEF ToSet
    <3>2. QED
      BY <1>1, <1>6, <3>1
  <2>2. ASSUME NEW i \in 1 .. Len(n) PROVE IsNode(n[i]) /\ (i # 1 => n[i].depth >= 1)
    <3>1. CASE i = 1
      BY <1>3, <1>6, <3>1
    <3>2. CASE i # 1
      <4>1. i - 1 \in 1 .. Len(u) /\ i = (i - 1) + 1
        BY <1>1, <1>6, <3>2
      <4>2. n[i] = down[i - 1] /\ IsNode(down[i - 1]) /\ down[i - 1].depth = u[i - 1].depth + 1
        BY <1>2, <1>6, <4>1
      <4>3. u[i - 1].depth \in Nat
        BY <1>1, <4>1 DEF IsNode
      <4>4. QED
        BY <4>2, <4>3
    <3>3. QED
      BY <3>1, <3>2
  <2>3. DOMAIN n = 1 .. Len(n) /\ n # <<>> /\ n[1].depth = 0
    BY <1>1, <1>6 DEF root
  <2>4. QED
    BY <2>1, <2>2, <2>3 DEF Tree, Forest
<1>8. QED
  BY <1>2, <1>6, <1>7 DEF root, n

LEMMA SeqWidened ==
  ASSUME NEW S, NEW T, NEW a \in Seq(S) PROVE a \in Seq(S \cup T) /\ a \in Seq(T \cup S)
<1>1. Len(a) \in Nat /\ a \in [1 .. Len(a) -> S]
  BY LenProperties
<1>2. a \in [1 .. Len(a) -> S \cup T] /\ a \in [1 .. Len(a) -> T \cup S]
  BY <1>1
<1>3. QED
  BY <1>1, <1>2

LEMMA OwnSeq ==
  ASSUME NEW S, NEW a \in Seq(S) PROVE a \in Seq(ToSet(a))
<1>1. Len(a) \in Nat /\ a \in [1 .. Len(a) -> S]
  BY LenProperties
<1>2. a \in [1 .. Len(a) -> ToSet(a)]
  BY <1>1 DEF ToSet
<1>3. QED
  BY <1>1, <1>2

LEMMA ForestConcat ==
  ASSUME NEW a, NEW b, Forest(a), Forest(b)
  PROVE  /\ Forest(a \o b) /\ Len(a \o b) = Len(a) + Len(b)
         /\ \A k \in 1 .. Len(a) : (a \o b)[k] = a[k]
         /\ \A k \in 1 .. Len(b) : (a \o b)[Len(a) + k] = b[k]
<1> DEFINE S == ToSet(a) \cup ToSet(b)
           c == a \o b
<1>1. a \in Seq(S) /\ b \in Seq(S)
  BY SeqWidened DEF Forest
<1>2. Len(a) \in Nat /\ Len(b) \in Nat
  BY ForestShape
<1>3. /\ c \in Seq(S) /\ Len(c) = Len(a) + Len(b)
      /\ \A i \in 1 .. Len(a) + Len(b) : c[i] = IF i <= Len(a) THEN a[i] ELSE b[i - Len(a)]
  BY <1>1, ConcatProperties
<1> HIDE DEF S, c
<1>4. \A k \in 1 .. Len(a) : c[k] = a[k]
  BY <1>2, <1>3
<1>5. ASSUME NEW k \in 1 .. Len(b) PROVE c[Len(a) + k] = b[k]
  <2>1. Len(a) + k \in 1 .. Len(a) + Len(b) /\ ~(Len(a) + k <= Len(a)) /\ Len(a) + k - Len(a) = k
    BY <1>2
  <2>2. QED
    BY <1>3, <2>1
<1>6. Forest(c)
  <2>1. c \in Seq(ToSet(c)) /\ DOMAIN c = 1 .. Len(c)
    BY <1>3, OwnSeq
  <2>2. ASSUME NEW i \in 1 .. Len(c) PROVE IsNode(c[i])
    <3>1. CASE i <= Len(a)
      BY <1>2, <1>3, <1>4, <3>1, ForestShape
    <3>2. CASE ~(i <= Len(a))
      <4>1. i - Len(a) \in 1 .. Len(b) /\ c[i] = b[i - Len(a)]
        BY <1>2, <1>3, <3>2
      <4>2. QED
        BY <4>1, ForestShape
    <3>3. QED
      BY <3>1, <3>2
  <2>3. ASSUME c # <<>> PROVE c[1].depth = 0
    <3>1. CASE a # <<>>
      <4>1. Len(a) >= 1 /\ a[1].depth = 0
        BY <1>1, <1>2, <3>1 DEF Forest
      <4>2. QED
        BY <1>2, <1>4, <4>1
    <3>2. CASE a = <<>>
      <4>1. Len(a) = 0 /\ Len(b) >= 1
        BY <1>1, <1>2, <1>3, <2>3, <3>2
      <4>2. b # <<>> /\ c[1] = b[1]
        BY <1>1, <1>2, <1>5, <4>1
      <4>3. QED
        BY <4>2 DEF Forest
    <3>3. QED
      BY <3>1, <3>2
  <2>4. QED
    BY <2>1, <2>2, <2>3 DEF Forest
<1>7. QED
  BY <1>3, <1>4, <1>5, <1>6 DEF c

LEMMA TreeShape ==
  ASSUME NEW u, Tree(u)
  PROVE  /\ Forest(u) /\ Len(u) \in Nat /\ Len(u) >= 1 /\ DOMAIN u = 1 .. Len(u)
         /\ u[1].depth = 0
         /\ \A i \in 2 .. Len(u) : u[i].depth \in Nat /\ u[i].depth >= 1
<1>1. Forest(u) /\ u # <<>> /\ u \in Seq(ToSet(u))
  BY DEF Tree, Forest
<1>2. Len(u) \in Nat /\ Len(u) >= 1 /\ DOMAIN u = 1 .. Len(u) /\ u[1].depth = 0
  BY <1>1, ForestShape DEF Forest
<1>3. QED
  BY <1>1, <1>2, ForestShape DEF Tree, IsNode

-----------------------------------------------------------------------------
(* Where trees stand.                                                        *)

LEMMA HoldsSelf ==
  ASSUME NEW t, Tree(t) PROVE Holds(t, 1, 0, t)
<1>1. Len(t) \in Nat /\ Len(t) >= 1 /\ \A k \in 1 .. Len(t) : t[k].depth \in Nat
  BY TreeShape
<1>2. \A k \in 1 .. Len(t) : 1 + k - 1 = k /\ t[k].depth + 0 = t[k].depth
  BY <1>1
<1>3. QED
  BY <1>1, <1>2 DEF Holds, SameNode

LEMMA HoldsDetails ==
  ASSUME NEW t, NEW x, NEW d, NEW kind, NEW about, NEW value, NEW u, Forest(t), Forest(u),
         Holds(t, x, d, Node(kind, about, value, u))
  PROVE  /\ Holds(t, x + 1, d + 1, u)
         /\ t[x].kind = kind /\ t[x].about = about /\ t[x].value = value /\ t[x].depth = d
<1> DEFINE n == Node(kind, about, value, u)
<1>1. /\ Len(n) = Len(u) + 1
      /\ n[1].kind = kind /\ n[1].about = about /\ n[1].value = value /\ n[1].depth = 0
      /\ \A k \in 1 .. Len(u) : SameNode(n[k + 1], u[k]) /\ n[k + 1].depth = u[k].depth + 1
  <2>1. /\ Len(n) = Len(u) + 1
        /\ n[1] = [kind |-> kind, about |-> about, value |-> value, depth |-> 0]
        /\ \A k \in 1 .. Len(u) : SameNode(n[k + 1], u[k]) /\ n[k + 1].depth = u[k].depth + 1
    BY NodeShape
  <2> HIDE DEF n
  <2>2. QED
    BY <2>1
<1>2. /\ Len(t) \in Nat /\ Len(u) \in Nat
      /\ \A k \in 1 .. Len(u) : u[k].depth \in Nat
  BY ForestShape DEF IsNode
<1> HIDE DEF n
<1>3. /\ x \in Nat \ {0} /\ d \in Nat /\ x + Len(n) <= Len(t) + 1
      /\ \A k \in 1 .. Len(n) : /\ SameNode(t[x + k - 1], n[k])
                                /\ t[x + k - 1].depth = n[k].depth + d
      /\ x + Len(n) <= Len(t) => t[x + Len(n)].depth <= d
  BY DEF Holds, n
<1>4. SameNode(t[x], n[1]) /\ t[x].depth = d
  <2>1. 1 \in 1 .. Len(n) /\ x + 1 - 1 = x
    BY <1>1, <1>2, <1>3
  <2>2. QED
    BY <1>1, <1>3, <2>1
<1>5. ASSUME NEW k \in 1 .. Len(u)
      PROVE  SameNode(t[x + 1 + k - 1], u[k]) /\ t[x + 1 + k - 1].depth = u[k].depth + (d + 1)
  <2>1. k + 1 \in 1 .. Len(n) /\ x + (k + 1) - 1 = x + 1 + k - 1
    BY <1>1, <1>2, <1>3
  <2>2. SameNode(t[x + 1 + k - 1], n[k + 1]) /\ t[x + 1 + k - 1].depth = n[k + 1].depth + d
    BY <1>3, <2>1
  <2>3. SameNode(n[k + 1], u[k]) /\ n[k + 1].depth = u[k].depth + 1 /\ u[k].depth \in Nat
    BY <1>1, <1>2
  <2>4. t[x + 1 + k - 1].depth = u[k].depth + (d + 1)
    <3>1. d \in Int /\ u[k].depth \in Int
      BY <1>3, <2>3
    <3>2. (u[k].depth + 1) + d = u[k].depth + (d + 1)
      BY <3>1
    <3>3. QED
      BY <2>2, <2>3, <3>2
  <2>5. QED
    BY <2>2, <2>3, <2>4 DEF SameNode
<1>6. x + 1 + Len(u) <= Len(t) => t[x + 1 + Len(u)].depth <= d + 1
  <2>1. ASSUME x + 1 + Len(u) <= Len(t) PROVE t[x + 1 + Len(u)].depth <= d + 1
    <3>1. x + 1 + Len(u) = x + Len(n)
      BY <1>1, <1>2, <1>3
    <3>2. t[x + Len(n)].depth <= d
      BY <1>3, <2>1, <3>1
    <3>3. t[x + Len(n)].depth \in Nat
      BY <1>1, <1>2, <1>3, <2>1, <3>1, ForestShape DEF IsNode
    <3>4. QED
      BY <1>3, <3>1, <3>2, <3>3
  <2>2. QED
    BY <2>1
<1>7. x + 1 \in Nat \ {0} /\ d + 1 \in Nat /\ x + 1 + Len(u) <= Len(t) + 1
  BY <1>1, <1>2, <1>3
<1>8. Holds(t, x + 1, d + 1, u)
  BY <1>5, <1>6, <1>7 DEF Holds
<1>9. QED
  BY <1>1, <1>4, <1>8 DEF SameNode

LEMMA HoldsConcat ==
  ASSUME NEW t, NEW x, NEW d, NEW a, NEW b, Forest(t), Forest(a), Forest(b),
         Holds(t, x, d, a \o b)
  PROVE  Holds(t, x, d, a) /\ Holds(t, x + Len(a), d, b)
<1> DEFINE c == a \o b
<1>1. /\ Len(c) = Len(a) + Len(b)
      /\ \A k \in 1 .. Len(a) : c[k] = a[k]
      /\ \A k \in 1 .. Len(b) : c[Len(a) + k] = b[k]
  BY ForestConcat
<1>2. Len(t) \in Nat /\ Len(a) \in Nat /\ Len(b) \in Nat
  BY ForestShape
<1> HIDE DEF c
<1>3. /\ x \in Nat \ {0} /\ d \in Nat /\ x + Len(c) <= Len(t) + 1
      /\ \A k \in 1 .. Len(c) : /\ SameNode(t[x + k - 1], c[k])
                                /\ t[x + k - 1].depth = c[k].depth + d
      /\ x + Len(c) <= Len(t) => t[x + Len(c)].depth <= d
  BY DEF Holds, c
<1>4. ASSUME NEW k \in 1 .. Len(b)
      PROVE  /\ SameNode(t[x + Len(a) + k - 1], b[k])
             /\ t[x + Len(a) + k - 1].depth = b[k].depth + d
  <2>1. Len(a) + k \in 1 .. Len(c) /\ x + (Len(a) + k) - 1 = x + Len(a) + k - 1
    BY <1>1, <1>2, <1>3
  <2>2. /\ SameNode(t[x + (Len(a) + k) - 1], c[Len(a) + k])
        /\ t[x + (Len(a) + k) - 1].depth = c[Len(a) + k].depth + d
    BY <1>3, <2>1
  <2>3. QED
    BY <1>1, <2>1, <2>2
<1>5. Holds(t, x + Len(a), d, b)
  <2>1. x + Len(a) + Len(b) = x + Len(c) /\ x + Len(a) \in Nat \ {0}
    BY <1>1, <1>2, <1>3
  <2>2. QED
    BY <1>3, <1>4, <2>1 DEF Holds
<1>6. ASSUME NEW k \in 1 .. Len(a)
      PROVE  SameNode(t[x + k - 1], a[k]) /\ t[x + k - 1].depth = a[k].depth + d
  <2>1. k \in 1 .. Len(c)
    BY <1>1, <1>2
  <2>2. QED
    BY <1>1, <1>3, <2>1
<1>7. ASSUME x + Len(a) <= Len(t) PROVE t[x + Len(a)].depth <= d
  <2>1. CASE Len(b) = 0
    BY <1>1, <1>2, <1>3, <1>7, <2>1
  <2>2. CASE Len(b) # 0
    <3>1. b # <<>> /\ 1 \in 1 .. Len(b) /\ x + Len(a) + 1 - 1 = x + Len(a)
      BY <1>2, <1>3, <2>2
    <3>2. b[1].depth = 0
      BY <3>1 DEF Forest
    <3>3. QED
      BY <1>3, <1>4, <3>1, <3>2
  <2>3. QED
    BY <2>1, <2>2
<1>8. x + Len(a) <= Len(t) + 1
  BY <1>1, <1>2, <1>3
<1>9. Holds(t, x, d, a)
  BY <1>3, <1>6, <1>7, <1>8 DEF Holds
<1>10. QED
  BY <1>5, <1>9

(* The positions of a tree are those of the node at which it stands. *)
LEMMA HeldPart ==
  ASSUME NEW t, NEW x, NEW d, NEW u, Forest(t), Tree(u), Holds(t, x, d, u)
  PROVE  /\ EndOf(t, x) = x + Len(u) - 1 /\ Part(t, x) = x .. x + Len(u) - 1
         /\ x \in 1 .. Len(t) /\ t[x].depth = d
         /\ Details(t, x) = {x + k - 1 : k \in {l \in 1 .. Len(u) : u[l].depth = 1}}
<1>1. /\ Len(t) \in Nat /\ Len(u) \in Nat /\ Len(u) >= 1 /\ u[1].depth = 0
      /\ \A i \in 2 .. Len(u) : u[i].depth \in Nat /\ u[i].depth >= 1
      /\ \A j \in 1 .. Len(t) : t[j].depth \in Nat
  BY TreeShape, ForestShape DEF IsNode
<1>2. /\ x \in Nat \ {0} /\ d \in Nat /\ x + Len(u) <= Len(t) + 1
      /\ \A k \in 1 .. Len(u) : t[x + k - 1].depth = u[k].depth + d
      /\ x + Len(u) <= Len(t) => t[x + Len(u)].depth <= d
  BY DEF Holds
<1>3. x \in 1 .. Len(t) /\ t[x].depth = d
  <2>1. 1 \in 1 .. Len(u) /\ x + 1 - 1 = x
    BY <1>1, <1>2
  <2>2. QED
    BY <1>1, <1>2, <2>1
<1> DEFINE after == {j \in x + 1 .. Len(t) : t[j].depth <= t[x].depth}
<1>4. ASSUME NEW j \in after PROVE j >= x + Len(u)
  <2>1. SUFFICES ASSUME j < x + Len(u) PROVE FALSE
    BY <1>1, <1>2
  <2>2. j - x + 1 \in 2 .. Len(u) /\ x + (j - x + 1) - 1 = j
    BY <1>1, <1>2, <2>1
  <2>3. t[j].depth = u[j - x + 1].depth + d
    BY <1>1, <1>2, <2>2
  <2>4. u[j - x + 1].depth \in Nat /\ u[j - x + 1].depth >= 1
    BY <1>1, <2>2
  <2>5. t[j].depth <= d
    BY <1>3
  <2>6. QED
    BY <1>2, <2>3, <2>4, <2>5
<1>5. EndOf(t, x) = x + Len(u) - 1
  <2>1. CASE x + Len(u) <= Len(t)
    <3>1. x + Len(u) \in after
      BY <1>1, <1>2, <1>3, <2>1
    <3>2. after \subseteq Int /\ \A j \in after : x + Len(u) <= j
      BY <1>1, <1>2, <1>4
    <3>3. after # {} /\ First(after) = x + Len(u)
      <4> HIDE DEF after
      <4>1. QED
        BY <3>1, <3>2, FirstIs
    <3>4. Min(after) = x + Len(u)
      BY <3>3 DEF First
    <3>5. EndOf(t, x) = Min(after) - 1
      BY <3>3 DEF EndOf
    <3>6. QED
      BY <1>1, <1>2, <3>4, <3>5
  <2>2. CASE ~(x + Len(u) <= Len(t))
    <3>1. after = {}
      BY <1>1, <1>2, <1>4, <2>2
    <3>2. Len(t) = x + Len(u) - 1
      BY <1>1, <1>2, <2>2
    <3>3. QED
      BY <3>1, <3>2 DEF EndOf
  <2>3. QED
    BY <2>1, <2>2
<1>6. Part(t, x) = x .. x + Len(u) - 1
  BY <1>5 DEF Part
<1>7. Details(t, x) = {x + k - 1 : k \in {l \in 1 .. Len(u) : u[l].depth = 1}}
  <2>1. ASSUME NEW j \in Details(t, x)
        PROVE  j - x + 1 \in 1 .. Len(u) /\ u[j - x + 1].depth = 1 /\ j = x + (j - x + 1) - 1
    <3>1. j \in x .. x + Len(u) - 1 /\ t[j].depth = d + 1
      BY <1>3, <1>6 DEF Details
    <3>2. j - x + 1 \in 1 .. Len(u) /\ j = x + (j - x + 1) - 1
      <4>1. j \in Int /\ x <= j /\ j <= x + Len(u) - 1 /\ x \in Int /\ Len(u) \in Int
        BY <1>1, <1>2, <3>1
      <4>2. QED
        BY <4>1
    <3>3. t[j].depth = u[j - x + 1].depth + d
      BY <1>2, <3>2
    <3>4. u[j - x + 1].depth \in Nat
      BY <3>2, TreeShape, ForestShape DEF IsNode
    <3>5. QED
      BY <1>2, <3>1, <3>2, <3>3, <3>4
  <2>2. ASSUME NEW k \in 1 .. Len(u), u[k].depth = 1
        PROVE  x + k - 1 \in Details(t, x)
    <3>1. x + k - 1 \in x .. x + Len(u) - 1 /\ t[x + k - 1].depth = d + 1
      BY <1>1, <1>2, <2>2
    <3>2. QED
      BY <1>3, <1>6, <3>1 DEF Details
  <2>3. QED
    BY <2>1, <2>2
<1>8. QED
  BY <1>3, <1>5, <1>6, <1>7

-----------------------------------------------------------------------------
(* The functions defined by recursion: the results of the levels, and the    *)
(* trees of a hit.                                                           *)

LEMMA PartBounds ==
  ASSUME NEW t, Forest(t), NEW i \in 1 .. Len(t)
  PROVE  /\ i \in Part(t, i) /\ Part(t, i) \subseteq i .. Len(t)
         /\ Details(t, i) \subseteq i + 1 .. Len(t)
<1> DEFINE after == {j \in i + 1 .. Len(t) : t[j].depth <= t[i].depth}
<1>1. Len(t) \in Nat /\ i \in Nat /\ t[i].depth \in Nat
  BY ForestShape DEF IsNode
<1>2. EndOf(t, i) \in i .. Len(t)
  <2>1. CASE after = {}
    BY <1>1, <2>1 DEF EndOf
  <2>2. CASE after # {}
    <3>1. after \subseteq Nat
      BY <1>1
    <3>2. Min(after) \in after
      <4> HIDE DEF after
      <4>1. QED
        BY <2>2, <3>1, FirstIn
    <3>3. EndOf(t, i) = Min(after) - 1
      BY <2>2 DEF EndOf
    <3>4. QED
      BY <1>1, <3>2, <3>3
  <2>3. QED
    BY <2>1, <2>2
<1>3. i \in Part(t, i) /\ Part(t, i) \subseteq i .. Len(t)
  BY <1>1, <1>2 DEF Part
<1>4. ASSUME NEW j \in Details(t, i) PROVE j \in i + 1 .. Len(t)
  <2>1. j \in i .. Len(t) /\ t[j].depth = t[i].depth + 1
    BY <1>3 DEF Details
  <2>2. QED
    BY <1>1, <2>1
<1>5. QED
  BY <1>3, <1>4

LEMMA PreviousBelow ==
  ASSUME NEW t, Forest(t), NEW i \in 1 .. Len(t), PreviousScore(t, i) # None
  PROVE  PreviousScore(t, i) \in i + 1 .. Len(t)
<1>1. Len(t) \in Nat
  BY ForestShape
<1>2. ASSUME NEW K, FirstDetail(t, i, K) # None PROVE FirstDetail(t, i, K) \in i + 1 .. Len(t)
  <2> DEFINE S == {j \in Details(t, i) : t[j].kind \in K}
  <2>1. S \subseteq i + 1 .. Len(t) /\ S \subseteq Nat
    BY <1>1, PartBounds
  <2>2. S # {} /\ FirstDetail(t, i, K) = First(S)
    BY <1>2, FirstOfNone DEF FirstDetail
  <2> HIDE DEF S
  <2>3. QED
    BY <2>1, <2>2, FirstIn
<1>3. ASSUME ShallowestOriginal(t, i) # None
      PROVE  ShallowestOriginal(t, i) \in i + 1 .. Len(t)
  <2> DEFINE S == {j \in Part(t, i) \ {i} : t[j].kind = "original"}
             D == {j \in S : \A k \in S : t[j].depth <= t[k].depth}
  <2>1. D \subseteq i + 1 .. Len(t) /\ D \subseteq Nat
    BY <1>1, PartBounds
  <2>2. ShallowestOriginal(t, i) = First(D)
    BY DEF ShallowestOriginal
  <2> HIDE DEF D
  <2>3. QED
    BY <1>3, <2>1, <2>2, FirstIn, FirstOfNone
<1>4. QED
  BY <1>2, <1>3 DEF PreviousScore

(* What a level says depends on the levels below it only. *)
LEMMA UnwrappedBelow ==
  ASSUME NEW t, Forest(t), NEW i \in 1 .. Len(t), NEW f, NEW g,
         \A j \in i + 1 .. Len(t) : f[j] = g[j]
  PROVE  Unwrapped(t, i, f) = Unwrapped(t, i, g)
<1> DEFINE prev == PreviousScore(t, i)
<1>1. CASE prev = None
  BY <1>1 DEF Unwrapped
<1>2. CASE prev # None
  <2>1. prev \in i + 1 .. Len(t) /\ Len(t) \in Nat
    BY <1>2, PreviousBelow, ForestShape
  <2>2. prev \in 1 .. Len(t)
    BY <2>1
  <2>3. Details(t, prev) # {} => f[prev + 1] = g[prev + 1]
    <3>1. Details(t, prev) \subseteq prev + 1 .. Len(t)
      BY <2>2, PartBounds
    <3>2. Details(t, prev) # {} => prev + 1 \in i + 1 .. Len(t)
      BY <2>1, <3>1
    <3>3. QED
      BY <3>2
  <2> DEFINE inner(at) == IF Details(t, prev) = {} THEN [query |-> prev, steps |-> <<>>]
                          ELSE at[prev + 1]
  <2>4. inner(f) = inner(g)
    BY <2>3
  <2>5. QED
    BY <2>3, Zenon DEF Unwrapped
<1>3. QED
  BY <1>1, <1>2

LEMMA LevelsChosen ==
  ASSUME NEW t
  PROVE  Levels(t) = CHOOSE at : at = [i \in DOMAIN t |-> Unwrapped(t, i, at)]
BY DEF Levels

LEMMA LevelsDefined ==
  ASSUME NEW t, Forest(t)
  PROVE  \A i \in 1 .. Len(t) : Levels(t)[i] = Unwrapped(t, i, Levels(t))
<1> DEFINE L == Len(t)
           From(n) == L - n + 1 .. L
           Is(f, n) == f = [i \in From(n) |-> Unwrapped(t, i, f)]
           G == {n \in 0 .. L : \E f : Is(f, n)}
<1>1. L \in Nat /\ DOMAIN t = 1 .. L
  BY ForestShape
<1>2. 0 \in G
  <2>1. From(0) = {}
    BY <1>1
  <2>2. Is(<<>>, 0)
    BY <2>1
  <2>3. 0 \in 0 .. L
    BY <1>1
  <2> HIDE DEF Is
  <2>4. QED
    BY <2>2, <2>3
<1>3. ASSUME NEW n \in 0 .. L, n \in G, n < L PROVE n + 1 \in G
  <2>1. PICK f : Is(f, n)
    BY <1>3
  <2>2. PICK m : m \in 1 .. L /\ From(n + 1) = m .. L /\ From(n) = m + 1 .. L
    <3>1. L - n \in 1 .. L /\ L - (n + 1) + 1 = L - n
      BY <1>1, <1>3
    <3>2. QED
      BY <3>1
  <2> DEFINE g == [i \in m .. L |-> IF i = m THEN Unwrapped(t, m, f) ELSE f[i]]
  <2>3. \A j \in m + 1 .. L : g[j] = f[j] /\ f[j] = Unwrapped(t, j, f)
    <3>1. f = [i \in m + 1 .. L |-> Unwrapped(t, i, f)]
      BY <2>1, <2>2
    <3>2. ASSUME NEW j \in m + 1 .. L PROVE j \in m .. L /\ j # m
      BY <1>1, <2>2
    <3>3. ASSUME NEW j \in m + 1 .. L PROVE f[j] = Unwrapped(t, j, f)
      BY <3>1, Zenon
    <3>4. QED
      BY <3>2, <3>3
  <2>4. ASSUME NEW i \in m .. L PROVE Unwrapped(t, i, g) = Unwrapped(t, i, f)
    <3>1. i \in 1 .. Len(t) /\ \A j \in i + 1 .. Len(t) : g[j] = f[j]
      BY <1>1, <2>2, <2>3
    <3> HIDE DEF g
    <3>2. QED
      BY <3>1, UnwrappedBelow
  <2>5. ASSUME NEW i \in m .. L PROVE g[i] = Unwrapped(t, i, g)
    <3>1. CASE i = m
      BY <2>2, <2>4, <3>1
    <3>2. CASE i # m
      <4>1. i \in m + 1 .. L
        BY <1>1, <2>2, <3>2
      <4>2. QED
        BY <2>3, <2>4, <4>1
    <3>3. QED
      BY <3>1, <3>2
  <2>6. g = [i \in m .. L |-> g[i]]
    BY <2>2
  <2>7. Is(g, n + 1)
    <3> HIDE DEF g
    <3>1. QED
      BY <2>2, <2>5, <2>6
  <2>8. n + 1 \in 0 .. L
    BY <1>1, <1>3
  <2> HIDE DEF g, Is
  <2>9. QED
    BY <2>7, <2>8
<1>4. L \in G
  <2> HIDE DEF G
  <2>1. 0 .. L \subseteq G
    BY <1>1, <1>2, <1>3, InductionTo
  <2>2. QED
    BY <1>1, <2>1
<1>5. From(L) = 1 .. L
  BY <1>1
<1>6. \E f : f = [i \in 1 .. L |-> Unwrapped(t, i, f)]
  BY <1>4, <1>5
<1>7. Levels(t) = [i \in 1 .. L |-> Unwrapped(t, i, Levels(t))]
  <2>1. Levels(t) = CHOOSE at : at = [i \in 1 .. L |-> Unwrapped(t, i, at)]
    BY <1>1, LevelsChosen
  <2>2. QED
    BY <1>6, <2>1
<1> HIDE DEF L
<1>8. QED
  BY <1>7 DEF L

-----------------------------------------------------------------------------
(* The positions of a set in their order.                                    *)

Rank(S, x) == Cardinality({y \in S : y <= x})

LEMMA RankShape ==
  ASSUME NEW S, S \subseteq Int, IsFiniteSet(S), NEW x \in S
  PROVE  /\ Rank(S, x) \in 1 .. Cardinality(S)
         /\ \A z \in S : x < z => Rank(S, x) < Rank(S, z)
<1> DEFINE U(z) == {y \in S : y <= z}
<1>1. ASSUME NEW z \in S
      PROVE  IsFiniteSet(U(z)) /\ Cardinality(U(z)) \in Nat /\ Cardinality(U(z)) <= Cardinality(S)
  BY FS_Subset, FS_CardinalityType
<1>2. Cardinality(U(x)) # 0
  <2>1. x \in U(x)
    OBVIOUS
  <2>2. QED
    BY <1>1, <2>1, FS_EmptySet
<1>3. Cardinality(S) \in Nat
  BY FS_CardinalityType
<1>4. ASSUME NEW z \in S, x < z PROVE Cardinality(U(x)) < Cardinality(U(z))
  <2>1. U(x) \subseteq U(z) /\ U(x) # U(z)
    <3>1. x \in Int /\ z \in Int /\ z \in U(z) /\ z \notin U(x)
      BY <1>4
    <3>2. ASSUME NEW y \in S, y <= x PROVE y <= z
      <4>1. y \in Int
        OBVIOUS
      <4>2. QED
        BY <1>4, <3>1, <3>2, <4>1
    <3>3. QED
      BY <3>1, <3>2
  <2>2. Cardinality(U(x)) <= Cardinality(U(z)) /\ Cardinality(U(x)) # Cardinality(U(z))
    BY <1>1, <2>1, FS_Subset
  <2>3. QED
    BY <1>1, <2>2
<1>5. Cardinality(U(x)) \in 1 .. Cardinality(S)
  BY <1>1, <1>2, <1>3
<1>6. \A z : Rank(S, z) = Cardinality(U(z))
  BY DEF Rank
<1> HIDE DEF U
<1>7. QED
  BY <1>4, <1>5, <1>6

LEMMA ListedShape ==
  ASSUME NEW S, S \subseteq Int, IsFiniteSet(S)
  PROVE  /\ Cardinality(S) \in Nat /\ DOMAIN Listed(S) = 1 .. Cardinality(S)
         /\ Listed(S) \in Seq(S) /\ Len(Listed(S)) = Cardinality(S)
         /\ \A k \in 1 .. Cardinality(S) : Listed(S)[k] \in S /\ Rank(S, Listed(S)[k]) = k
<1> DEFINE n == Cardinality(S)
           r == [x \in S |-> Rank(S, x)]
<1>1. n \in Nat
  BY FS_CardinalityType
<1>2. \A x \in S : /\ x \in Int /\ Rank(S, x) \in 1 .. n
                   /\ \A z \in S : x < z => Rank(S, x) < Rank(S, z)
  BY RankShape
<1>3. r \in Injection(S, 1 .. n)
  <2>1. r \in [S -> 1 .. n]
    BY <1>2
  <2>2. ASSUME NEW x \in S, NEW z \in S, x # z PROVE r[x] # r[z]
    <3>1. x < z \/ z < x
      BY <1>2, <2>2
    <3>2. Rank(S, x) < Rank(S, z) \/ Rank(S, z) < Rank(S, x)
      BY <1>2, <3>1
    <3>3. QED
      BY <1>1, <1>2, <3>2
  <2> HIDE DEF r, n
  <2>3. QED
    BY <2>1, <2>2 DEF Injection, IsInjective
<1>4. r \in Surjection(S, 1 .. n)
  <2>1. IsFiniteSet(1 .. n) /\ Cardinality(1 .. n) = Cardinality(S)
    BY <1>1, FS_Interval
  <2> HIDE DEF r
  <2>2. QED
    BY <1>3, <2>1, FS_Injection DEF n
<1>5. ASSUME NEW k \in 1 .. n PROVE \E x \in S : Rank(S, x) = k
  <2>1. \E x \in S : r[x] = k
    BY <1>4 DEF Surjection
  <2>2. QED
    BY <2>1
<1> DEFINE l(k) == CHOOSE x \in S : Rank(S, x) = k
<1>6. \A k \in 1 .. n : l(k) \in S /\ Rank(S, l(k)) = k
  BY <1>5
<1>7. Listed(S) = [k \in 1 .. n |-> l(k)]
  BY DEF Listed, Rank
<1>8. Listed(S) \in [1 .. n -> S] /\ \A k \in 1 .. n : Listed(S)[k] = l(k)
  <2> HIDE DEF l, n
  <2>1. QED
    BY <1>6, <1>7
<1> HIDE DEF l, r
<1>9. QED
  BY <1>1, <1>6, <1>8

(* The order is that of the numbers, and a list in order is the list. *)
LEMMA RankIs ==
  ASSUME NEW S, S \subseteq Int, IsFiniteSet(S), NEW x \in S, NEW z \in S,
         Rank(S, x) = Rank(S, z)
  PROVE  x = z
<1>1. x \in Int /\ z \in Int
  OBVIOUS
<1>2. x < z => Rank(S, x) < Rank(S, z)
  BY RankShape
<1>3. z < x => Rank(S, z) < Rank(S, x)
  BY RankShape
<1>4. Rank(S, x) \in Int
  <2>1. Rank(S, x) \in 1 .. Cardinality(S)
    BY RankShape
  <2>2. QED
    BY <2>1
<1>5. QED
  BY <1>1, <1>2, <1>3, <1>4

LEMMA ListedTwo ==
  ASSUME NEW x \in Int, NEW y \in Int, x < y PROVE Listed({x, y}) = <<x, y>>
<1> DEFINE S == {x, y}
<1>1. S \subseteq Int /\ IsFiniteSet(S) /\ Cardinality(S) = 2
  <2>1. IsFiniteSet({x}) /\ Cardinality({x}) = 1
    BY FS_Singleton
  <2>2. {x} \cup {y} = S /\ y \notin {x} /\ S \subseteq Int
    OBVIOUS
  <2>3. IsFiniteSet({x} \cup {y}) /\ Cardinality({x} \cup {y}) = 1 + 1
    BY <2>1, <2>2, FS_AddElement
  <2>4. QED
    BY <2>2, <2>3
<1>2. Rank(S, x) = 1
  <2>1. {z \in S : z <= x} = {x}
    OBVIOUS
  <2>2. QED
    BY <2>1, FS_Singleton DEF Rank
<1>3. Rank(S, y) = 2
  <2>1. {z \in S : z <= y} = S
    OBVIOUS
  <2>2. QED
    BY <1>1, <2>1 DEF Rank
<1> HIDE DEF S
<1>4. /\ Listed(S) \in Seq(S) /\ Len(Listed(S)) = 2
      /\ \A k \in 1 .. 2 : Listed(S)[k] \in S /\ Rank(S, Listed(S)[k]) = k
  BY <1>1, ListedShape
<1>5. x \in S /\ y \in S
  BY DEF S
<1>6. Listed(S)[1] = x /\ Listed(S)[2] = y
  <2>1. 1 \in 1 .. 2 /\ 2 \in 1 .. 2
    OBVIOUS
  <2>2. QED
    <3>1. /\ Listed(S)[1] \in S /\ Rank(S, Listed(S)[1]) = Rank(S, x)
          /\ Listed(S)[2] \in S /\ Rank(S, Listed(S)[2]) = Rank(S, y)
      BY <1>2, <1>3, <1>4, <2>1
    <3>2. QED
      BY <1>1, <1>5, <3>1, RankIs
<1>7. QED
  BY <1>4, <1>6 DEF S

LEMMA ExplainedChosen ==
  ASSUME NEW q
  PROVE  Explained(q) = CHOOSE tree : tree = [i \in 0 .. Len(Reached(q)) |->
           IF i = 0 THEN Boosted(q.text, q.functions, q.boost)
           ELSE Level(tree[i - 1], Reached(q)[i])]
BY DEF Explained

LEMMA ExplainedDefined ==
  ASSUME NEW q, Len(Reached(q)) \in Nat
  PROVE  /\ Explained(q)[0] = Boosted(q.text, q.functions, q.boost)
         /\ \A i \in 1 .. Len(Reached(q)) :
              Explained(q)[i] = Level(Explained(q)[i - 1], Reached(q)[i])
<1> DEFINE n == Len(Reached(q))
           first == Boosted(q.text, q.functions, q.boost)
           Step(f, i) == Level(f[i - 1], Reached(q)[i])
           Is(f, m) == f = [i \in 0 .. m |-> IF i = 0 THEN first ELSE Step(f, i)]
           G == {m \in 0 .. n : \E f : Is(f, m)}
<1>1. n \in Nat
  OBVIOUS
<1>2. 0 \in G
  <2>1. Is([i \in 0 .. 0 |-> first], 0)
    <3>1. \A i \in 0 .. 0 : i = 0
      OBVIOUS
    <3> HIDE DEF first
    <3>2. QED
      BY <3>1
  <2> HIDE DEF Is
  <2>2. QED
    BY <1>1, <2>1
<1>3. ASSUME NEW m \in 0 .. n, m \in G, m < n PROVE m + 1 \in G
  <2>1. PICK f : Is(f, m)
    BY <1>3
  <2> DEFINE g == [i \in 0 .. m + 1 |-> IF i = m + 1 THEN Step(f, i) ELSE f[i]]
  <2>2. \A i \in 0 .. m : i \in 0 .. m + 1 /\ i # m + 1 /\ g[i] = f[i]
    BY <1>1
  <2>3. ASSUME NEW i \in 0 .. m + 1 PROVE g[i] = IF i = 0 THEN first ELSE Step(g, i)
    <3>1. CASE i = m + 1
      <4>1. i # 0 /\ i - 1 \in 0 .. m /\ m + 1 \in 0 .. m + 1
        BY <1>1, <3>1
      <4>2. g[i] = Step(f, i) /\ g[i - 1] = f[i - 1]
        BY <2>2, <3>1, <4>1
      <4> HIDE DEF g
      <4>3. QED
        BY <4>1, <4>2
    <3>2. CASE i # m + 1
      <4>1. i \in 0 .. m
        BY <1>1, <3>2
      <4>2. f[i] = IF i = 0 THEN first ELSE Step(f, i)
        <5> HIDE DEF Step, first
        <5>1. f = [j \in 0 .. m |-> IF j = 0 THEN first ELSE Step(f, j)]
          BY <2>1
        <5>2. QED
          BY <4>1, <5>1, Zenon
      <4>3. i # 0 => g[i - 1] = f[i - 1]
        <5>1. i # 0 => i - 1 \in 0 .. m
          BY <4>1
        <5>2. QED
          BY <2>2, <5>1
      <4>4. g[i] = f[i]
        BY <2>2, <4>1
      <4> HIDE DEF g
      <4>5. QED
        BY <4>2, <4>3, <4>4
    <3>3. QED
      BY <3>1, <3>2
  <2>4. Is(g, m + 1)
    <3>1. g = [i \in 0 .. m + 1 |-> g[i]]
      OBVIOUS
    <3> HIDE DEF g, first, Step
    <3>2. QED
      BY <2>3, <3>1
  <2>5. m + 1 \in 0 .. n
    BY <1>1, <1>3
  <2> HIDE DEF g, Is
  <2>6. QED
    BY <2>4, <2>5
<1>4. \E f : Is(f, n)
  <2>1. n \in G
    <3> HIDE DEF G
    <3>1. 0 .. n \subseteq G
      BY <1>1, <1>2, <1>3, InductionTo
    <3>2. QED
      BY <1>1, <3>1
  <2>2. QED
    BY <2>1
<1>5. Is(Explained(q), n)
  <2>1. Explained(q) = CHOOSE f : Is(f, n)
    BY ExplainedChosen
  <2> HIDE DEF Is
  <2>2. QED
    BY <1>4, <2>1
<1> DEFINE E == Explained(q)
<1>6. \A i \in 0 .. n : E[i] = IF i = 0 THEN first ELSE Step(E, i)
  <2> HIDE DEF Step, first
  <2>1. E = [j \in 0 .. n |-> IF j = 0 THEN first ELSE Step(E, j)]
    BY <1>5
  <2>2. QED
    BY <2>1, Zenon
<1>7. 0 \in 0 .. n /\ \A i \in 1 .. n : i \in 0 .. n /\ i # 0
  BY <1>1
<1> HIDE DEF E, first, Step
<1>8. E[0] = first /\ \A i \in 1 .. n : E[i] = Step(E, i)
  BY <1>6, <1>7
<1>9. QED
  BY <1>8 DEF E, first, Step

LEMMA FlattenChosen ==
  ASSUME NEW s, Len(s) # 0
  PROVE  FlattenSeq(s) = (CHOOSE f : f = [i \in 1 .. Len(s) |->
           IF i = 1 THEN s[i] ELSE f[i - 1] \o s[i]])[Len(s)]
BY DEF FlattenSeq

LEMMA FlattenDefined ==
  ASSUME NEW s, Len(s) \in Nat, Len(s) # 0
  PROVE  \E f : /\ FlattenSeq(s) = f[Len(s)] /\ f[1] = s[1]
                /\ \A i \in 2 .. Len(s) : f[i] = f[i - 1] \o s[i]
<1> DEFINE n == Len(s)
           Step(f, i) == f[i - 1] \o s[i]
           Is(f, m) == f = [i \in 1 .. m |-> IF i = 1 THEN s[i] ELSE Step(f, i)]
           G == {m \in 0 .. n : \E f : Is(f, m)}
<1>1. n \in Nat /\ n # 0
  OBVIOUS
<1>2. 0 \in G
  <2>1. Is(<<>>, 0)
    <3>1. 1 .. 0 = {}
      OBVIOUS
    <3>2. QED
      BY <3>1
  <2> HIDE DEF Is
  <2>2. QED
    BY <1>1, <2>1
<1>3. ASSUME NEW m \in 0 .. n, m \in G, m < n PROVE m + 1 \in G
  <2>1. PICK f : Is(f, m)
    BY <1>3
  <2> DEFINE g == [i \in 1 .. m + 1 |-> IF i = m + 1 THEN IF i = 1 THEN s[i] ELSE Step(f, i)
                                         ELSE f[i]]
  <2>2. \A i \in 1 .. m : i \in 1 .. m + 1 /\ i # m + 1 /\ g[i] = f[i]
    BY <1>1
  <2>3. ASSUME NEW i \in 1 .. m + 1 PROVE g[i] = IF i = 1 THEN s[i] ELSE Step(g, i)
    <3>1. CASE i = m + 1
      <4>1. i # 1 => i - 1 \in 1 .. m
        BY <1>1, <3>1
      <4>2. g[i] = (IF i = 1 THEN s[i] ELSE Step(f, i)) /\ (i # 1 => g[i - 1] = f[i - 1])
        BY <2>2, <3>1, <4>1
      <4> HIDE DEF g
      <4>3. QED
        BY <4>2
    <3>2. CASE i # m + 1
      <4>1. i \in 1 .. m
        BY <1>1, <3>2
      <4>2. f[i] = IF i = 1 THEN s[i] ELSE Step(f, i)
        <5> HIDE DEF Step
        <5>1. f = [j \in 1 .. m |-> IF j = 1 THEN s[j] ELSE Step(f, j)]
          BY <2>1
        <5>2. QED
          BY <4>1, <5>1, Zenon
      <4>3. i # 1 => g[i - 1] = f[i - 1]
        <5>1. i # 1 => i - 1 \in 1 .. m
          BY <4>1
        <5>2. QED
          BY <2>2, <5>1
      <4>4. g[i] = f[i]
        BY <2>2, <4>1
      <4> HIDE DEF g
      <4>5. QED
        BY <4>2, <4>3, <4>4
    <3>3. QED
      BY <3>1, <3>2
  <2>4. Is(g, m + 1)
    <3>1. g = [i \in 1 .. m + 1 |-> g[i]]
      OBVIOUS
    <3> HIDE DEF g, Step
    <3>2. QED
      BY <2>3, <3>1
  <2>5. m + 1 \in 0 .. n
    BY <1>1, <1>3
  <2> HIDE DEF g, Is
  <2>6. QED
    BY <2>4, <2>5
<1>4. \E f : Is(f, n)
  <2>1. n \in G
    <3> HIDE DEF G
    <3>1. 0 .. n \subseteq G
      BY <1>1, <1>2, <1>3, InductionTo
    <3>2. QED
      BY <1>1, <3>1
  <2>2. QED
    BY <2>1
<1> DEFINE F == CHOOSE f : Is(f, n)
<1>5. Is(F, n) /\ FlattenSeq(s) = F[n]
  <2>1. FlattenSeq(s) = F[n]
    BY FlattenChosen
  <2> HIDE DEF Is
  <2>2. QED
    BY <1>4, <2>1
<1> HIDE DEF F
<1>6. \A i \in 1 .. n : F[i] = IF i = 1 THEN s[i] ELSE Step(F, i)
  <2> HIDE DEF Step
  <2>1. F = [j \in 1 .. n |-> IF j = 1 THEN s[j] ELSE Step(F, j)]
    BY <1>5
  <2>2. QED
    BY <2>1, Zenon
<1>7. 1 \in 1 .. n /\ \A i \in 2 .. n : i \in 1 .. n /\ i # 1
  BY <1>1
<1>8. F[1] = s[1] /\ \A i \in 2 .. n : F[i] = F[i - 1] \o s[i]
  BY <1>6, <1>7
<1>9. QED
  BY <1>5, <1>8

-----------------------------------------------------------------------------
(* The kinds of the nodes, and the trees a hit is explained with.            *)

Of(u, K) == \A k \in 1 .. Len(u) : u[k].kind \in K

PlainKinds == TextKinds \cup FunctionScores \cup FunctionKinds \cup {"match", "number"}

LEMMA NodeTree ==
  ASSUME NEW kind, NEW about, NEW value, NEW u, Forest(u)
  PROVE  Tree(Node(kind, about, value, u)) /\ Len(Node(kind, about, value, u)) = Len(u) + 1
<1> DEFINE n == Node(kind, about, value, u)
<1>1. Tree(n) /\ Len(n) = Len(u) + 1
      /\ n[1] = [kind |-> kind, about |-> about, value |-> value, depth |-> 0]
  BY NodeShape
<1>2. QED
  BY <1>1

LEMMA NodeDetails ==
  ASSUME NEW kind, NEW about, NEW value, NEW u, Forest(u)
  PROVE  \A k \in 1 .. Len(u) : SameNode(Node(kind, about, value, u)[k + 1], u[k])
<1> DEFINE n == Node(kind, about, value, u)
<1>1. /\ Len(n) = Len(u) + 1
      /\ n[1] = [kind |-> kind, about |-> about, value |-> value, depth |-> 0]
      /\ \A k \in 1 .. Len(u) : SameNode(n[k + 1], u[k])
  BY NodeShape
<1> HIDE DEF n
<1>2. QED
  BY <1>1 DEF n

LEMMA NodeOf ==
  ASSUME NEW K, NEW kind \in K, NEW about, NEW value, NEW u, Forest(u), Of(u, K)
  PROVE  Of(Node(kind, about, value, u), K)
<1> DEFINE n == Node(kind, about, value, u)
<1>1. Len(n) = Len(u) + 1 /\ n[1].kind = kind /\ \A k \in 1 .. Len(u) : n[k + 1].kind = u[k].kind
  <2>1. /\ Len(n) = Len(u) + 1
        /\ n[1] = [kind |-> kind, about |-> about, value |-> value, depth |-> 0]
        /\ \A k \in 1 .. Len(u) : SameNode(n[k + 1], u[k])
    BY NodeShape
  <2> HIDE DEF n
  <2>2. QED
    BY <2>1 DEF SameNode
<1> HIDE DEF n
<1>2. Len(u) \in Nat
  BY ForestShape
<1>3. ASSUME NEW k \in 1 .. Len(n) PROVE n[k].kind \in K
  <2>1. CASE k = 1
    BY <1>1, <2>1
  <2>2. CASE k # 1
    <3>1. k - 1 \in 1 .. Len(u) /\ (k - 1) + 1 = k
      BY <1>1, <1>2, <2>2
    <3>2. QED
      BY <1>1, <3>1 DEF Of
  <2>3. QED
    BY <2>1, <2>2
<1>4. QED
  BY <1>3 DEF Of, n

LEMMA ConcatOf ==
  ASSUME NEW K, NEW a, NEW b, Forest(a), Forest(b), Of(a, K), Of(b, K)
  PROVE  Of(a \o b, K)
<1> DEFINE c == a \o b
<1>1. /\ Len(c) = Len(a) + Len(b)
      /\ \A k \in 1 .. Len(a) : c[k] = a[k]
      /\ \A k \in 1 .. Len(b) : c[Len(a) + k] = b[k]
  BY ForestConcat
<1>2. Len(a) \in Nat /\ Len(b) \in Nat
  BY ForestShape
<1> HIDE DEF c
<1>3. ASSUME NEW k \in 1 .. Len(c) PROVE c[k].kind \in K
  <2>1. CASE k <= Len(a)
    <3>1. k \in 1 .. Len(a)
      BY <1>1, <1>2, <2>1
    <3>2. QED
      BY <1>1, <3>1 DEF Of
  <2>2. CASE ~(k <= Len(a))
    <3>1. k - Len(a) \in 1 .. Len(b) /\ Len(a) + (k - Len(a)) = k
      BY <1>1, <1>2, <2>2
    <3>2. QED
      BY <1>1, <3>1 DEF Of
  <2>3. QED
    BY <2>1, <2>2
<1>4. QED
  BY <1>3 DEF Of, c

LEMMA OfMore ==
  ASSUME NEW K, NEW M, K \subseteq M, NEW u, Of(u, K) PROVE Of(u, M)
BY DEF Of

LEMMA LeafTree ==
  ASSUME NEW K, NEW kind \in K, NEW about, NEW value
  PROVE  /\ Tree(Node(kind, about, value, <<>>)) /\ Of(Node(kind, about, value, <<>>), K)
         /\ Len(Node(kind, about, value, <<>>)) = 1
<1>1. PICK e : e = <<>>
  OBVIOUS
<1>2. Forest(e) /\ Of(e, K) /\ Len(e) + 1 = 1
  BY <1>1 DEF Forest, Of
<1>3. Of(Node(kind, about, value, e), K)
  BY <1>2, NodeOf
<1>4. Tree(Node(kind, about, value, e)) /\ Len(Node(kind, about, value, e)) = Len(e) + 1
  BY <1>2, NodeTree
<1>5. QED
  BY <1>1, <1>2, <1>3, <1>4

LEMMA FlattenOf ==
  ASSUME NEW K, NEW s, Len(s) \in Nat, Len(s) # 0,
         \A i \in 1 .. Len(s) : Forest(s[i]) /\ Of(s[i], K)
  PROVE  Forest(FlattenSeq(s)) /\ Of(FlattenSeq(s), K)
<1> DEFINE n == Len(s)
<1>1. PICK f : /\ FlattenSeq(s) = f[n] /\ f[1] = s[1]
               /\ \A i \in 2 .. n : f[i] = f[i - 1] \o s[i]
  BY FlattenDefined
<1> DEFINE G == {m \in 0 .. n : m # 0 => Forest(f[m]) /\ Of(f[m], K)}
<1>2. 0 \in G
  OBVIOUS
<1>3. ASSUME NEW m \in 0 .. n, m \in G, m < n PROVE m + 1 \in G
  <2>1. m + 1 \in 1 .. n /\ m + 1 \in 0 .. n /\ m + 1 - 1 = m
    BY <1>3
  <2>2. CASE m = 0
    BY <1>1, <2>1, <2>2
  <2>3. CASE m # 0
    <3>1. f[m + 1] = f[m] \o s[m + 1]
      <4>1. m + 1 \in 2 .. n
        BY <1>3, <2>3
      <4>2. \A i \in 2 .. n : f[i] = f[i - 1] \o s[i]
        <5> HIDE DEF n, G
        <5>1. QED
          BY <1>1
      <4>3. PICK j \in 2 .. n : j = m + 1
        BY <4>1
      <4>4. f[j] = f[j - 1] \o s[j]
        BY <4>2, <4>3, Zenon
      <4>5. j - 1 = m
        BY <4>3
      <4>6. f[m + 1] = f[m] \o s[m + 1]
        BY <4>3, <4>4, <4>5, Zenon
      <4>7. QED
        BY <4>6
    <3>2. Forest(f[m]) /\ Of(f[m], K) /\ Forest(s[m + 1]) /\ Of(s[m + 1], K)
      BY <1>3, <2>1, <2>3
    <3>3. Forest(f[m + 1]) /\ Of(f[m + 1], K)
      BY <3>1, <3>2, ForestConcat, ConcatOf
    <3>4. QED
      BY <2>1, <3>3
  <2>4. QED
    BY <2>2, <2>3
<1>4. n \in G
  <2> HIDE DEF G
  <2>1. 0 .. n \subseteq G
    BY <1>2, <1>3, InductionTo
  <2>2. QED
    BY <2>1
<1>5. QED
  BY <1>1, <1>4

LEMMA TextTree ==
  ASSUME NEW t, IsText(t)
  PROVE  Tree(t) /\ Of(t, TextKinds) /\ Value(t) \in Int
<1>1. t \in Seq(ToSet(t)) /\ t # <<>>
  BY DEF IsText, IsSequence
<1>2. Len(t) \in Nat /\ Len(t) >= 1 /\ DOMAIN t = 1 .. Len(t)
  BY <1>1
<1>3. ASSUME NEW i \in 1 .. Len(t)
      PROVE  IsNode(t[i]) /\ t[i].kind \in TextKinds /\ t[i].value \in Int
             /\ (i # 1 => t[i].depth >= 1)
  <2> DEFINE G == {m \in 0 .. Len(t) : m # 0 => t[m].depth \in Nat /\ (m # 1 => t[m].depth >= 1)}
  <2>1. \A m \in 0 .. Len(t) : m \in G /\ m < Len(t) => m + 1 \in G
    <3>1. ASSUME NEW m \in 0 .. Len(t), m \in G, m < Len(t) PROVE m + 1 \in G
      <4>1. CASE m = 0
        BY <1>2, <3>1, <4>1 DEF IsText
      <4>2. CASE m # 0
        <5>1. m + 1 \in 2 .. Len(t) /\ m + 1 - 1 = m
          BY <1>2, <3>1, <4>2
        <5>2. t[m + 1].depth \in 1 .. t[m].depth + 1 /\ t[m].depth \in Nat
          <6>1. \A j \in 2 .. Len(t) : t[j].depth \in 1 .. t[j - 1].depth + 1
            BY DEF IsText
          <6>2. QED
            BY <3>1, <4>2, <5>1, <6>1
        <5>3. QED
          BY <1>2, <3>1, <5>2
      <4>3. QED
        BY <4>1, <4>2
    <3>2. QED
      BY <3>1
  <2>2. 0 \in G
    BY <1>2
  <2>3. i \in G
    <3> HIDE DEF G
    <3>1. 0 .. Len(t) \subseteq G
      BY <1>2, <2>1, <2>2, InductionTo
    <3>2. QED
      BY <1>2, <3>1
  <2>4. QED
    BY <1>2, <2>3 DEF IsText, IsNode
<1>4. t[1].depth = 0
  BY DEF IsText
<1>5. QED
  BY <1>1, <1>2, <1>3, <1>4 DEF Tree, Forest, Of, Value

(* The members of a sequence at some of its positions, in their order. *)
LEMMA ChosenShape ==
  ASSUME NEW s, IsSequence(s), NEW S, S \subseteq DOMAIN s
  PROVE  LET r == [k \in DOMAIN Listed(S) |-> s[Listed(S)[k]]]
         IN  r \in Seq(ToSet(s)) /\ Len(r) \in Nat /\ (r = <<>> => S = {})
             /\ \A k \in 1 .. Len(r) : r[k] \in ToSet(s)
<1>1. DOMAIN s = 1 .. Len(s) /\ Len(s) \in Nat
  BY DEF IsSequence
<1>2. S \subseteq Int /\ IsFiniteSet(S)
  <2>1. IsFiniteSet(1 .. Len(s))
    BY <1>1, FS_Interval
  <2>2. QED
    BY <1>1, <2>1, FS_Subset
<1> DEFINE n == Cardinality(S)
           r == [k \in DOMAIN Listed(S) |-> s[Listed(S)[k]]]
<1>3. n \in Nat /\ DOMAIN Listed(S) = 1 .. n /\ \A k \in 1 .. n : Listed(S)[k] \in S
  BY <1>2, ListedShape
<1>4. r \in [1 .. n -> ToSet(s)]
  BY <1>3 DEF ToSet
<1>5. n = 0 => S = {}
  BY <1>2, FS_EmptySet
<1> HIDE DEF r, n
<1>6. Len(r) = n /\ r \in Seq(ToSet(s))
  BY <1>3, <1>4
<1>7. r = <<>> => n = 0
  BY <1>6
<1>8. QED
  BY <1>3, <1>4, <1>5, <1>6, <1>7 DEF r

LEMMA FunctionNodeTree ==
  ASSUME NEW fn, fn.kind \in FunctionKinds
  PROVE  Tree(FunctionNode(fn)) /\ Of(FunctionNode(fn), PlainKinds)
<1> DEFINE own   == IF fn.kind = "weight" THEN Leaf("constant", 1)
                    ELSE Node(fn.kind, fn.about, fn.value, <<>>)
           both  == own \o Leaf("number", fn.weight)
           made  == IF fn.weight = None THEN own ELSE Node("product", None, fn.score, both)
           match == Node("match", Written(fn), 1, <<>>)
<1>1. FunctionNode(fn) = Node("function_product", None, fn.score, match \o made)
  BY DEF FunctionNode
<1>2. /\ fn.kind \in PlainKinds /\ "constant" \in PlainKinds /\ "number" \in PlainKinds
      /\ "product" \in PlainKinds /\ "match" \in PlainKinds /\ "function_product" \in PlainKinds
  BY DEF PlainKinds, FunctionKinds, TextKinds, FunctionScores
<1>3. Forest(own) /\ Of(own, PlainKinds)
  <2>1. CASE fn.kind = "weight"
    <3>1. own = Node("constant", None, 1, <<>>)
      BY <2>1 DEF Leaf
    <3> HIDE DEF own
    <3>2. QED
      BY <1>2, <3>1, LeafTree DEF Tree
  <2>2. CASE fn.kind # "weight"
    <3>1. own = Node(fn.kind, fn.about, fn.value, <<>>)
      BY <2>2
    <3> HIDE DEF own
    <3>2. QED
      BY <1>2, <3>1, LeafTree DEF Tree
  <2>3. QED
    BY <2>1, <2>2
<1> HIDE DEF own
<1>4. Forest(Leaf("number", fn.weight)) /\ Of(Leaf("number", fn.weight), PlainKinds)
  BY <1>2, LeafTree DEF Leaf, Tree
<1>5. Forest(both) /\ Of(both, PlainKinds)
  BY <1>3, <1>4, ForestConcat, ConcatOf
<1> HIDE DEF both
<1>6. Forest(made) /\ Of(made, PlainKinds)
  <2>1. /\ Tree(Node("product", None, fn.score, both))
        /\ Of(Node("product", None, fn.score, both), PlainKinds)
    BY <1>2, <1>5, NodeTree, NodeOf
  <2>2. QED
    BY <1>3, <2>1 DEF Tree
<1>7. Forest(match) /\ Of(match, PlainKinds)
  BY <1>2, LeafTree DEF Tree
<1> HIDE DEF made, match
<1>8. Forest(match \o made) /\ Of(match \o made, PlainKinds)
  BY <1>6, <1>7, ForestConcat, ConcatOf
<1>9. QED
  BY <1>1, <1>2, <1>8, NodeTree, NodeOf

LEMMA ApplyingShape ==
  ASSUME NEW fns, AreFunctions(fns)
  PROVE  /\ Applying(fns) \in Seq(ToSet(fns)) /\ Len(Applying(fns)) \in Nat
         /\ \A k \in 1 .. Len(Applying(fns)) :
              /\ Applying(fns)[k] \in ToSet(fns) /\ Applying(fns)[k].kind \in FunctionKinds
              /\ Applying(fns)[k].score \in Int
<1> DEFINE S == {i \in DOMAIN fns : fns[i].applies}
           a == [k \in DOMAIN Listed(S) |-> fns[Listed(S)[k]]]
<1>1. IsSequence(fns) /\ S \subseteq DOMAIN fns
  BY DEF AreFunctions
<1>2. Applying(fns) = a
  BY DEF Applying
<1>3. ASSUME NEW x \in ToSet(fns) PROVE x.kind \in FunctionKinds /\ x.score \in Int
  BY DEF AreFunctions, ToSet
<1> HIDE DEF S
<1>4. a \in Seq(ToSet(fns)) /\ Len(a) \in Nat /\ \A k \in 1 .. Len(a) : a[k] \in ToSet(fns)
  BY <1>1, ChosenShape
<1> HIDE DEF a
<1>5. QED
  BY <1>2, <1>3, <1>4

LEMMA FunctionsNodeTree ==
  ASSUME NEW fns, AreFunctions(fns)
  PROVE  Tree(FunctionsNode(fns)) /\ Of(FunctionsNode(fns), PlainKinds)
<1> DEFINE a == Applying(fns)
           s == [i \in DOMAIN a |-> FunctionNode(a[i])]
           u == FlattenSeq(s)
<1>1. a \in Seq(ToSet(fns)) /\ Len(a) \in Nat /\ \A k \in 1 .. Len(a) : a[k].kind \in FunctionKinds
  BY ApplyingShape
<1>2. "constant" \in PlainKinds /\ "function_mode" \in PlainKinds
  BY DEF PlainKinds, TextKinds, FunctionScores
<1>3. FunctionsNode(fns) = IF a = <<>> THEN Leaf("constant", 1)
                           ELSE Node("function_mode", None, ProductOf(a), u)
  BY DEF FunctionsNode
<1> HIDE DEF a
<1>4. CASE a = <<>>
  <2>1. FunctionsNode(fns) = Node("constant", None, 1, <<>>)
    BY <1>3, <1>4 DEF Leaf
  <2>2. QED
    BY <1>2, <2>1, LeafTree
<1>5. CASE a # <<>>
  <2>1. DOMAIN a = 1 .. Len(a) /\ Len(a) # 0
    BY <1>1, <1>5
  <2>2. Len(s) = Len(a) /\ \A i \in 1 .. Len(a) : s[i] = FunctionNode(a[i])
    BY <1>1, <2>1
  <2>3. \A i \in 1 .. Len(s) : Forest(s[i]) /\ Of(s[i], PlainKinds)
    <3> HIDE DEF s
    <3>1. QED
      BY <1>1, <2>2, FunctionNodeTree DEF Tree
  <2> HIDE DEF s
  <2>4. Forest(u) /\ Of(u, PlainKinds)
    BY <1>1, <2>1, <2>2, <2>3, FlattenOf
  <2> HIDE DEF u
  <2>5. QED
    BY <1>2, <1>3, <1>5, <2>4, NodeTree, NodeOf
<1>6. QED
  BY <1>4, <1>5

LEMMA BoostedTree ==
  ASSUME NEW text, NEW fns, NEW kind, IsText(text), AreFunctions(fns), kind \in FunctionScores
  PROVE  Tree(Boosted(text, fns, kind)) /\ Of(Boosted(text, fns, kind), PlainKinds)
<1>1. Tree(text) /\ Forest(text) /\ Of(text, PlainKinds)
  BY TextTree, OfMore DEF Tree, PlainKinds
<1> DEFINE f == FunctionsNode(fns)
           u == text \o f
<1>2. Forest(f) /\ Of(f, PlainKinds)
  BY FunctionsNodeTree DEF Tree
<1>3. kind \in PlainKinds
  BY DEF PlainKinds
<1>4. Boosted(text, fns, kind)
        = IF fns = <<>> THEN text
          ELSE Node(kind, None, BoostedValue(kind, Value(text), Value(f)), u)
  BY DEF Boosted
<1> HIDE DEF f
<1>5. Forest(u) /\ Of(u, PlainKinds)
  BY <1>1, <1>2, ForestConcat, ConcatOf
<1> HIDE DEF u
<1>6. QED
  BY <1>1, <1>3, <1>4, <1>5, NodeTree, NodeOf

LEMMA RescoreQueryTree ==
  ASSUME NEW r, IsText(r.text), AreFunctions(r.functions)
  PROVE  Tree(RescoreQuery(r)) /\ Of(RescoreQuery(r), PlainKinds)
<1>1. "function_product" \in FunctionScores
  BY DEF FunctionScores
<1>2. QED
  BY <1>1, BoostedTree DEF RescoreQuery

LEMMA OriginalTree ==
  ASSUME NEW t, Tree(t)
  PROVE  Tree(Original(t)) /\ Len(Original(t)) = Len(t) + 1 /\ Forest(Original(t))
<1>1. Forest(t)
  BY DEF Tree
<1>2. Tree(Original(t)) /\ Len(Original(t)) = Len(t) + 1
  BY <1>1, NodeTree DEF Original
<1>3. QED
  BY <1>2 DEF Tree

LEMMA RescoredTree ==
  ASSUME NEW t, NEW r, Tree(t), IsText(r.text), AreFunctions(r.functions)
  PROVE  /\ Forest(Original(t) \o RescoreQuery(r)) /\ Tree(Rescored(t, r))
<1>1. Forest(Original(t)) /\ Forest(RescoreQuery(r))
  BY OriginalTree, RescoreQueryTree DEF Tree
<1>2. Forest(Original(t) \o RescoreQuery(r))
  BY <1>1, ForestConcat
<1>3. QED
  BY <1>2, NodeTree DEF Rescored

LEMMA FactorNodesTree ==
  ASSUME NEW v
  PROVE  /\ Tree(Leaf("factor", v)) /\ Tree(Node("factor_mode", "multiply", v, <<>>))
         /\ Forest(FactorNodes(v)) /\ Len(Leaf("factor", v)) = 1
<1> DEFINE a == Leaf("factor", v)
           b == Node("factor_mode", "multiply", v, <<>>)
<1>1. Tree(a) /\ Tree(b) /\ Len(a) = 1
  BY LeafTree DEF Leaf
<1> HIDE DEF a, b
<1>2. Forest(a \o b)
  BY <1>1, ForestConcat DEF Tree
<1>3. QED
  BY <1>1, <1>2 DEF a, b, FactorNodes

LEMMA NormalizedTree ==
  ASSUME NEW t, Tree(t), NEW v
  PROVE  /\ Forest(Original(t) \o FactorNodes(v)) /\ Tree(NormalizerNode(t, v))
         /\ Forest(NormalizerNode(t, v)) /\ Tree(Normalized(t))
<1>1. Forest(Original(t) \o FactorNodes(v)) /\ Tree(NormalizerNode(t, v))
  <2>1. Forest(Original(t) \o FactorNodes(v))
    BY FactorNodesTree, OriginalTree, ForestConcat
  <2>2. QED
    BY <2>1, NodeTree DEF NormalizerNode
<1>2. PICK w : w = Value(t) \div 2 + 1
  OBVIOUS
<1>3. Forest(NormalizerNode(t, w))
  <2>1. Forest(Original(t) \o FactorNodes(w))
    BY FactorNodesTree, OriginalTree, ForestConcat
  <2>2. Tree(NormalizerNode(t, w))
    BY <2>1, NodeTree DEF NormalizerNode
  <2>3. QED
    BY <2>2 DEF Tree
<1>4. Normalized(t) = Node("sum", None, w, NormalizerNode(t, w))
  BY <1>2 DEF Normalized
<1>5. QED
  BY <1>1, <1>3, <1>4, NodeTree DEF Tree

LEMMA ReachedShape ==
  ASSUME NEW q \in Searches
  PROVE  /\ Len(Reached(q)) \in Nat /\ Reached(q) \in Seq(ToSet(q.rescores))
         /\ \A k \in 1 .. Len(Reached(q)) :
              /\ Reached(q)[k].kind \in RescoreKinds
              /\ IsText(Reached(q)[k].text) /\ AreFunctions(Reached(q)[k].functions)
<1> DEFINE S == {i \in DOMAIN q.rescores : q.rescores[i].reached}
           r == [k \in DOMAIN Listed(S) |-> q.rescores[Listed(S)[k]]]
<1>1. /\ IsSequence(q.rescores) /\ S \subseteq DOMAIN q.rescores
      /\ \A x \in ToSet(q.rescores) :
           x.kind \in RescoreKinds /\ IsText(x.text) /\ AreFunctions(x.functions)
  BY SearchesAssumption
<1>2. Reached(q) = r
  BY DEF Reached
<1> HIDE DEF S
<1>3. /\ r \in Seq(ToSet(q.rescores)) /\ Len(r) \in Nat
      /\ \A k \in 1 .. Len(r) : r[k] \in ToSet(q.rescores)
  BY <1>1, ChosenShape
<1> HIDE DEF r
<1>4. QED
  BY <1>1, <1>2, <1>3

LEMMA LevelTree ==
  ASSUME NEW t, NEW r, Tree(t), IsText(r.text), AreFunctions(r.functions)
  PROVE  Tree(Level(t, r))
<1>1. Tree(Rescored(t, r))
  BY RescoredTree
<1>2. Tree(Normalized(t))
  BY NormalizedTree
<1>3. QED
  BY <1>1, <1>2 DEF Level

LEMMA QueryTree ==
  ASSUME NEW q \in Searches
  PROVE  Tree(Explained(q)[0]) /\ Of(Explained(q)[0], PlainKinds)
<1>1. IsText(q.text) /\ AreFunctions(q.functions) /\ q.boost \in FunctionScores
  BY SearchesAssumption
<1>2. Explained(q)[0] = Boosted(q.text, q.functions, q.boost)
  BY ReachedShape, ExplainedDefined
<1>3. QED
  BY <1>1, <1>2, BoostedTree

LEMMA ExplainedTrees ==
  ASSUME NEW q \in Searches
  PROVE  \A i \in 0 .. Len(Reached(q)) : Tree(Explained(q)[i])
<1> DEFINE n == Len(Reached(q))
           E == Explained(q)
           G == {i \in 0 .. n : Tree(E[i])}
<1>1. /\ n \in Nat
      /\ \A k \in 1 .. n : IsText(Reached(q)[k].text) /\ AreFunctions(Reached(q)[k].functions)
  BY ReachedShape
<1>2. \A i \in 1 .. n : E[i] = Level(E[i - 1], Reached(q)[i])
  BY <1>1, ExplainedDefined
<1> HIDE DEF E, n
<1>3. 0 \in G
  BY <1>1, QueryTree DEF E
<1>4. ASSUME NEW i \in 0 .. n, i \in G, i < n PROVE i + 1 \in G
  <2>1. PICK j \in 1 .. n : j = i + 1
    BY <1>1, <1>4
  <2>2. j - 1 = i
    BY <2>1
  <2>3. E[j] = Level(E[i], Reached(q)[j])
    BY <1>2, <2>1, <2>2
  <2>4. Tree(E[j])
    BY <1>1, <1>4, <2>1, <2>3, LevelTree
  <2>5. j \in 0 .. n
    BY <1>1, <2>1
  <2>6. QED
    BY <2>1, <2>4, <2>5
<1>5. 0 .. n \subseteq G
  <2> HIDE DEF G
  <2>1. QED
    BY <1>1, <1>3, <1>4, InductionTo
<1>6. QED
  BY <1>5 DEF E, n

-----------------------------------------------------------------------------
(* What the unwrapping of a level reads.                                     *)

LEMMA NodeValue ==
  ASSUME NEW kind, NEW about, NEW value, NEW u, Forest(u)
  PROVE  Value(Node(kind, about, value, u)) = value
<1> DEFINE n == Node(kind, about, value, u)
<1>1. n[1] = [kind |-> kind, about |-> about, value |-> value, depth |-> 0] /\ Len(n) = Len(u) + 1
  BY NodeShape
<1> HIDE DEF n
<1>2. n[1].value = value
  BY <1>1
<1>3. QED
  BY <1>2 DEF Value, n

(* The nodes of a tree where it stands: only the root is that high. *)
LEMMA HeldBelow ==
  ASSUME NEW t, NEW x, NEW d, NEW u, Forest(t), Tree(u), Holds(t, x, d, u)
  PROVE  \A j \in x .. x + Len(u) - 1 :
           /\ j - x + 1 \in 1 .. Len(u) /\ SameNode(t[j], u[j - x + 1])
           /\ t[j].depth \in Nat /\ (j # x => t[j].depth >= d + 1)
<1>1. /\ Len(u) \in Nat /\ Len(u) >= 1 /\ u[1].depth = 0
      /\ \A i \in 2 .. Len(u) : u[i].depth \in Nat /\ u[i].depth >= 1
  BY TreeShape
<1>2. /\ x \in Nat \ {0} /\ d \in Nat
      /\ \A k \in 1 .. Len(u) : SameNode(t[x + k - 1], u[k]) /\ t[x + k - 1].depth = u[k].depth + d
  BY DEF Holds
<1>3. ASSUME NEW j \in x .. x + Len(u) - 1
      PROVE  /\ j - x + 1 \in 1 .. Len(u) /\ SameNode(t[j], u[j - x + 1])
             /\ t[j].depth \in Nat /\ (j # x => t[j].depth >= d + 1)
  <2>1. PICK k \in 1 .. Len(u) : k = j - x + 1 /\ x + k - 1 = j
    <3>1. j - x + 1 \in 1 .. Len(u) /\ x + (j - x + 1) - 1 = j
      BY <1>1, <1>2
    <3>2. QED
      BY <3>1
  <2>2. SameNode(t[j], u[k]) /\ t[j].depth = u[k].depth + d
    BY <1>2, <2>1
  <2>3. u[k].depth \in Nat /\ (j # x => u[k].depth >= 1)
    <3>1. CASE k = 1
      BY <1>1, <1>2, <2>1, <3>1
    <3>2. CASE k # 1
      <4>1. k \in 2 .. Len(u)
        BY <1>1, <3>2
      <4>2. QED
        BY <1>1, <4>1
    <3>3. QED
      BY <3>1, <3>2
  <2>4. t[j].depth \in Nat /\ (j # x => t[j].depth >= d + 1)
    <3>1. u[k].depth \in Int /\ d \in Nat
      BY <1>2, <2>3
    <3>2. QED
      BY <2>2, <2>3, <3>1
  <2>5. QED
    BY <2>1, <2>2, <2>4
<1>4. QED
  BY <1>3

LEMMA DetailsOfOne ==
  ASSUME NEW t, NEW x, NEW d, NEW kind, NEW about, NEW value, NEW a, Forest(t), Tree(a),
         Holds(t, x, d, Node(kind, about, value, a))
  PROVE  /\ Details(t, x) = {x + 1} /\ Holds(t, x + 1, d + 1, a)
         /\ Part(t, x) = x .. x + Len(a) /\ x \in Nat \ {0} /\ d \in Nat /\ x \in 1 .. Len(t)
         /\ t[x].kind = kind /\ t[x].about = about /\ t[x].value = value /\ t[x].depth = d
<1> DEFINE n == Node(kind, about, value, a)
<1>1. Forest(a) /\ Len(a) \in Nat /\ Len(a) >= 1
  BY TreeShape
<1>2. Tree(n) /\ Len(n) = Len(a) + 1
  BY <1>1, NodeTree
<1>3. /\ Holds(t, x + 1, d + 1, a)
      /\ t[x].kind = kind /\ t[x].about = about /\ t[x].value = value /\ t[x].depth = d
  BY <1>1, HoldsDetails
<1> HIDE DEF n
<1>4. x \in Nat \ {0} /\ d \in Nat
  BY DEF Holds, n
<1>5. Part(t, x) = x .. x + Len(a) /\ x \in 1 .. Len(t)
  <2>1. Part(t, x) = x .. x + Len(n) - 1 /\ x \in 1 .. Len(t)
    BY <1>2, HeldPart DEF n
  <2>2. x + Len(n) - 1 = x + Len(a)
    BY <1>1, <1>2, <1>4
  <2>3. QED
    BY <2>1, <2>2
<1>6. /\ t[x + 1].depth = d + 1
      /\ \A j \in x + 1 .. x + 1 + Len(a) - 1 :
           t[j].depth \in Nat /\ (j # x + 1 => t[j].depth >= d + 1 + 1)
  BY <1>3, HeldBelow, HeldPart
<1>7. ASSUME NEW j \in Details(t, x) PROVE j = x + 1
  <2>1. j \in x .. x + Len(a) /\ t[j].depth = d + 1
    BY <1>3, <1>5 DEF Details
  <2>2. j # x
    BY <1>3, <1>4, <2>1
  <2>3. j \in x + 1 .. x + 1 + Len(a) - 1
    BY <1>1, <1>4, <2>1, <2>2
  <2>4. QED
    BY <1>4, <1>6, <2>1, <2>3
<1>8. x + 1 \in Details(t, x)
  <2>1. x + 1 \in x .. x + Len(a)
    BY <1>1, <1>4
  <2>2. QED
    BY <1>3, <1>5, <1>6, <2>1 DEF Details
<1>9. QED
  BY <1>3, <1>4, <1>5, <1>7, <1>8

LEMMA DetailsOfTwo ==
  ASSUME NEW t, NEW x, NEW d, NEW kind, NEW about, NEW value, NEW a, NEW b, Forest(t),
         Tree(a), Tree(b), Holds(t, x, d, Node(kind, about, value, a \o b))
  PROVE  /\ Details(t, x) = {x + 1, x + 1 + Len(a)}
         /\ Holds(t, x + 1, d + 1, a) /\ Holds(t, x + 1 + Len(a), d + 1, b)
         /\ Part(t, x) = x .. x + Len(a) + Len(b)
         /\ x \in Nat \ {0} /\ d \in Nat /\ x \in 1 .. Len(t)
         /\ t[x].kind = kind /\ t[x].about = about /\ t[x].value = value /\ t[x].depth = d
<1> DEFINE c == a \o b
           n == Node(kind, about, value, c)
<1>1. Forest(a) /\ Len(a) \in Nat /\ Len(a) >= 1 /\ Forest(b) /\ Len(b) \in Nat /\ Len(b) >= 1
  BY TreeShape
<1>2. Forest(c) /\ Len(c) = Len(a) + Len(b)
  BY <1>1, ForestConcat
<1>3. /\ Holds(t, x + 1, d + 1, c)
      /\ t[x].kind = kind /\ t[x].about = about /\ t[x].value = value /\ t[x].depth = d
  <2> HIDE DEF c
  <2>1. QED
    BY <1>2, HoldsDetails DEF c
<1>4. Tree(n) /\ Len(n) = Len(c) + 1
  <2> HIDE DEF c
  <2>1. QED
    BY <1>2, NodeTree
<1>5. Holds(t, x + 1, d + 1, a) /\ Holds(t, x + 1 + Len(a), d + 1, b)
  BY <1>1, <1>3, HoldsConcat
<1> HIDE DEF c, n
<1>6. x \in Nat \ {0} /\ d \in Nat
  BY DEF Holds, n
<1>7. Part(t, x) = x .. x + Len(a) + Len(b) /\ x \in 1 .. Len(t)
  <2>1. Part(t, x) = x .. x + Len(n) - 1 /\ x \in 1 .. Len(t)
    BY <1>4, HeldPart DEF n, c
  <2>2. x + Len(n) - 1 = x + Len(a) + Len(b)
    BY <1>1, <1>2, <1>4, <1>6
  <2>3. QED
    BY <2>1, <2>2
<1>8. /\ t[x + 1].depth = d + 1
      /\ \A j \in x + 1 .. x + 1 + Len(a) - 1 :
           t[j].depth \in Nat /\ (j # x + 1 => t[j].depth >= d + 1 + 1)
  BY <1>5, HeldBelow, HeldPart
<1> DEFINE y == x + 1 + Len(a)
<1>9. /\ t[y].depth = d + 1
      /\ \A j \in y .. y + Len(b) - 1 :
           t[j].depth \in Nat /\ (j # y => t[j].depth >= d + 1 + 1)
  BY <1>5, HeldBelow, HeldPart
<1>10. ASSUME NEW j \in Details(t, x) PROVE j = x + 1 \/ j = y
  <2>1. j \in x .. x + Len(a) + Len(b) /\ t[j].depth = d + 1
    BY <1>3, <1>7 DEF Details
  <2>2. j # x
    BY <1>3, <1>6, <2>1
  <2>3. j \in x + 1 .. x + 1 + Len(a) - 1 \/ j \in y .. y + Len(b) - 1
    BY <1>1, <1>6, <2>1, <2>2
  <2>4. ~(d + 1 >= d + 1 + 1)
    BY <1>6
  <2> HIDE DEF y
  <2>5. QED
    BY <1>8, <1>9, <2>1, <2>3, <2>4
<1>11. x + 1 \in Details(t, x) /\ y \in Details(t, x)
  <2>1. x + 1 \in x .. x + Len(a) + Len(b) /\ y \in x .. x + Len(a) + Len(b)
    BY <1>1, <1>6
  <2>2. t[y].depth = d + 1
    BY <1>9
  <2> HIDE DEF y
  <2>3. QED
    BY <1>3, <1>7, <1>8, <2>1, <2>2 DEF Details
<1>12. Details(t, x) = {x + 1, y}
  <2> HIDE DEF y
  <2>1. QED
    BY <1>10, <1>11
<1>13. QED
  BY <1>3, <1>5, <1>6, <1>7, <1>12

LEMMA RootOfTwo ==
  ASSUME NEW t, NEW x, NEW d, NEW kind, NEW about, NEW value, NEW a, NEW b, Forest(t),
         Tree(a), Tree(b), Holds(t, x, d, Node(kind, about, value, a \o b))
  PROVE  t[x].kind = kind /\ t[x].value = value
BY DetailsOfTwo

LEMMA FirstDetailOfNone ==
  ASSUME NEW t, NEW x, NEW K, \A j \in Details(t, x) : t[j].kind \notin K
  PROVE  FirstDetail(t, x, K) = None
<1>1. {j \in Details(t, x) : t[j].kind \in K} = {}
  OBVIOUS
<1>2. QED
  BY <1>1, FirstOfNone DEF FirstDetail

LEMMA FirstDetailIs ==
  ASSUME NEW t, NEW x, NEW K, Details(t, x) \subseteq Int, NEW z \in Details(t, x),
         t[z].kind \in K, \A j \in Details(t, x) : z <= j
  PROVE  FirstDetail(t, x, K) = z
<1> DEFINE S == {j \in Details(t, x) : t[j].kind \in K}
<1>1. S \subseteq Int /\ z \in S /\ \A j \in S : z <= j
  OBVIOUS
<1> HIDE DEF S
<1>2. First(S) = z
  BY <1>1, FirstIs
<1>3. QED
  BY <1>2 DEF FirstDetail, S

LEMMA ShallowestIs ==
  ASSUME NEW t, NEW x, Part(t, x) \subseteq Int, NEW z \in Part(t, x) \ {x},
         t[z].kind = "original", t[z].depth \in Int,
         \A j \in Part(t, x) \ {x} :
           t[j].kind = "original" => z <= j /\ t[z].depth <= t[j].depth
  PROVE  ShallowestOriginal(t, x) = z
<1> DEFINE S == {j \in Part(t, x) \ {x} : t[j].kind = "original"}
           D == {j \in S : \A k \in S : t[j].depth <= t[k].depth}
<1>1. D \subseteq Int /\ z \in D /\ \A j \in D : z <= j
  OBVIOUS
<1>2. ShallowestOriginal(t, x) = First(D)
  BY DEF ShallowestOriginal
<1> HIDE DEF D
<1>3. QED
  BY <1>1, <1>2, FirstIs

(* No score inside: the node is the query. *)
LEMMA PlainLevel ==
  ASSUME NEW t, NEW x, NEW d, NEW u, Forest(t), Tree(u), Holds(t, x, d, u),
         \A k \in 2 .. Len(u) : u[k].kind \in PlainKinds, NEW at
  PROVE  Unwrapped(t, x, at) = [query |-> x, steps |-> <<>>]
<1>1. Len(u) \in Nat /\ Len(u) >= 1 /\ x \in Nat \ {0} /\ d \in Nat
  BY TreeShape DEF Holds
<1>2. Part(t, x) = x .. x + Len(u) - 1 /\ t[x].depth = d
  BY HeldPart
<1>3. ASSUME NEW j \in Part(t, x) \ {x} PROVE t[j].kind \in PlainKinds
  <2>1. j \in x .. x + Len(u) - 1 /\ j # x
    BY <1>2
  <2>2. j - x + 1 \in 2 .. Len(u)
    BY <1>1, <2>1
  <2>3. SameNode(t[j], u[j - x + 1])
    BY <2>1, HeldBelow
  <2>4. QED
    BY <2>2, <2>3 DEF SameNode
<1>4. PlainKinds \cap Normalizers = {} /\ "original" \notin PlainKinds
  BY DEF PlainKinds, TextKinds, FunctionScores, FunctionKinds, Normalizers
<1>5. \A j \in Details(t, x) : j \in Part(t, x) \ {x}
  BY <1>1, <1>2 DEF Details
<1>6. FirstDetail(t, x, {"original"}) = None /\ FirstDetail(t, x, Normalizers) = None
  BY <1>3, <1>4, <1>5, FirstDetailOfNone
<1>7. ShallowestOriginal(t, x) = None
  <2> DEFINE S == {j \in Part(t, x) \ {x} : t[j].kind = "original"}
             D == {j \in S : \A k \in S : t[j].depth <= t[k].depth}
  <2>1. D = {}
    BY <1>3, <1>4
  <2>2. ShallowestOriginal(t, x) = First(D)
    BY DEF ShallowestOriginal
  <2>3. QED
    BY <2>1, <2>2, FirstOfNone
<1>8. PreviousScore(t, x) = None
  BY <1>6, <1>7 DEF PreviousScore
<1>9. QED
  BY <1>8 DEF Unwrapped

StepOf(node, kind, total) == [node |-> node, kind |-> kind, total |-> total]

Around(found, s) == [query |-> found.query, steps |-> found.steps \o <<s>>]

StepAt(t, x, node) == StepOf(node, t[x].kind, t[x].value)

(* A score inside: the steps inside and one more. *)
LEMMA LevelAround ==
  ASSUME NEW t, NEW x, NEW prev, NEW node \in Int, NEW at,
         PreviousScore(t, x) = prev, prev # None, Details(t, prev) # {},
         \/ prev \notin Details(t, x) /\ node = x
         \/ prev \in Details(t, x) /\ t[prev].kind \in Normalizers /\ node = prev
         \/ /\ prev \in Details(t, x) /\ t[prev].kind \notin Normalizers
            /\ Details(t, x) \ {prev} = {node}
  PROVE  Unwrapped(t, x, at)
           = Around(at[prev + 1], StepAt(t, x, node))
<1> DEFINE own == IF prev \notin Details(t, x) THEN <<x>>
                  ELSE IF t[prev].kind \in Normalizers THEN <<prev>>
                  ELSE Listed(Details(t, x) \ {prev})
           steps == [k \in DOMAIN own |-> StepAt(t, x, own[k])]
<1>1. own = <<node>>
  BY ListedOne
<1>2. Unwrapped(t, x, at) = [query |-> at[prev + 1].query, steps |-> at[prev + 1].steps \o steps]
  <2>1. steps = [k \in DOMAIN own |-> [node |-> own[k], kind |-> t[x].kind, total |-> t[x].value]]
    BY DEF StepAt, StepOf
  <2> HIDE DEF steps
  <2>2. QED
    BY <2>1 DEF Unwrapped, InOrder, Around
<1>3. steps = <<StepAt(t, x, node)>>
  <2> HIDE DEF own
  <2>1. DOMAIN own = 1 .. 1 /\ own[1] = node
    BY <1>1
  <2>2. \A k \in 1 .. 1 : k = 1
    OBVIOUS
  <2>3. steps = [k \in 1 .. 1 |-> StepAt(t, x, node)]
    BY <2>1, <2>2
  <2> HIDE DEF steps
  <2>4. QED
    BY <2>3
<1>4. QED
  BY <1>2, <1>3 DEF Around

-----------------------------------------------------------------------------
(* The levels of the rescores, as they are and below a normalizer.           *)

LEMMA InPosition ==
  ASSUME NEW x \in Nat PROVE x # None
BY SearchesAssumption

LEMMA RescoredLevel ==
  ASSUME NEW t, NEW x, NEW d, NEW e, NEW r, NEW at, Forest(t), Tree(e), r.kind \in RescoreKinds,
         IsText(r.text), AreFunctions(r.functions), Holds(t, x, d, Rescored(e, r))
  PROVE  /\ Holds(t, x + 2, d + 2, e)
         /\ \E node \in Nat :
              /\ Holds(t, node, d + 1, RescoreQuery(r)) /\ t[x].kind = r.kind
              /\ Unwrapped(t, x, at)
                   = Around(at[x + 2], StepOf(node, r.kind, Value(Rescored(e, r))))
<1> DEFINE a == Original(e)
           b == RescoreQuery(r)
           y == x + 1 + Len(a)
<1>1. Tree(a) /\ Tree(b) /\ Len(a) \in Nat /\ Len(a) >= 1 /\ Forest(e)
  BY OriginalTree, RescoreQueryTree, TreeShape
<1>2. PICK v : Rescored(e, r) = Node(r.kind, None, v, a \o b)
  BY DEF Rescored
<1>3. Value(Rescored(e, r)) = v
  BY <1>1, <1>2, RescoredTree, NodeValue
<1> HIDE DEF a, b
<1>4. /\ Details(t, x) = {x + 1, y}
      /\ Holds(t, x + 1, d + 1, a) /\ Holds(t, y, d + 1, b) /\ x \in Nat \ {0} /\ d \in Nat
      /\ t[x].kind = r.kind /\ t[x].value = v
  <2>1. t[x].kind = r.kind /\ t[x].value = v
    BY <1>1, <1>2, RootOfTwo
  <2>2. /\ Details(t, x) = {x + 1, y}
        /\ Holds(t, x + 1, d + 1, a) /\ Holds(t, y, d + 1, b) /\ x \in Nat \ {0} /\ d \in Nat
    BY <1>1, <1>2, DetailsOfTwo
  <2>3. QED
    BY <2>1, <2>2
<1>5. /\ Details(t, x + 1) = {x + 1 + 1} /\ Holds(t, x + 1 + 1, d + 1 + 1, e)
      /\ t[x + 1].kind = "original"
  <2>1. Holds(t, x + 1, d + 1, Node("original", None, Value(e), e))
    BY <1>4 DEF a, Original
  <2>2. QED
    BY <2>1, DetailsOfOne
<1>6. x + 1 + 1 = x + 2 /\ d + 1 + 1 = d + 2 /\ x + 1 \in Nat /\ y \in Nat /\ x + 1 < y
  BY <1>1, <1>4
<1> HIDE DEF y
<1>7. FirstDetail(t, x, {"original"}) = x + 1
  <2>1. /\ Details(t, x) \subseteq Int /\ x + 1 \in Details(t, x)
        /\ \A j \in Details(t, x) : x + 1 <= j
    BY <1>4, <1>6
  <2>2. t[x + 1].kind \in {"original"}
    BY <1>5
  <2>3. QED
    BY <2>1, <2>2, FirstDetailIs
<1>8. PreviousScore(t, x) = x + 1
  BY <1>6, <1>7, InPosition DEF PreviousScore
<1>9. /\ x + 1 \in Details(t, x) /\ t[x + 1].kind \notin Normalizers
      /\ Details(t, x) \ {x + 1} = {y}
  BY <1>4, <1>5, <1>6 DEF Normalizers
<1>10. Unwrapped(t, x, at)
         = Around(at[x + 1 + 1], StepAt(t, x, y))
  <2>1. x + 1 # None /\ y \in Int
    BY <1>6, InPosition
  <2>2. Details(t, x + 1) # {}
    BY <1>5
  <2>3. QED
    BY <1>8, <1>9, <2>1, <2>2, LevelAround
<1>11. StepAt(t, x, y) = StepOf(y, r.kind, Value(Rescored(e, r)))
  BY <1>3, <1>4 DEF StepAt
<1>12. Holds(t, x + 2, d + 2, e)
  BY <1>5, <1>6
<1>13. Unwrapped(t, x, at)
         = Around(at[x + 2], StepOf(y, r.kind, Value(Rescored(e, r))))
  BY <1>6, <1>10, <1>11
<1>14. Holds(t, y, d + 1, RescoreQuery(r))
  BY <1>4 DEF b
<1>15. QED
  BY <1>4, <1>6, <1>12, <1>13, <1>14

LEMMA NormalizedLevel ==
  ASSUME NEW t, NEW x, NEW d, NEW e, NEW at, Forest(t), Tree(e),
         Holds(t, x, d, Normalized(e))
  PROVE  /\ Holds(t, x + 2, d + 2, Original(e))
         /\ \E node \in Nat :
              /\ Holds(t, node, d + 1, NormalizerNode(e, Value(Normalized(e))))
              /\ Unwrapped(t, x, at)
                   = Around(at[x + 2], StepOf(node, "sum", Value(Normalized(e))))
<1>1. PICK v : Normalized(e) = Node("sum", None, v, NormalizerNode(e, v))
  BY DEF Normalized
<1> DEFINE a == NormalizerNode(e, v)
           c == Original(e) \o FactorNodes(v)
<1>2. Tree(a) /\ Forest(a) /\ Forest(c) /\ a = Node("normalizer", "min_max", v, c)
  BY NormalizedTree DEF NormalizerNode
<1>3. Value(Normalized(e)) = v
  BY <1>1, <1>2, NodeValue
<1> HIDE DEF a, c
<1>4. /\ Details(t, x) = {x + 1} /\ Holds(t, x + 1, d + 1, a) /\ x \in Nat \ {0} /\ d \in Nat
      /\ t[x].kind = "sum" /\ t[x].value = v
  BY <1>1, <1>2, DetailsOfOne DEF a
<1>5. Holds(t, x + 1 + 1, d + 1 + 1, c) /\ t[x + 1].kind = "normalizer" /\ t[x + 1].depth = d + 1
  BY <1>2, <1>4, HoldsDetails
<1>6. x + 1 + 1 = x + 2 /\ d + 1 + 1 = d + 2 /\ x + 1 \in Nat
  BY <1>4
<1>7. Holds(t, x + 2, d + 2, Original(e))
  <2>1. Forest(FactorNodes(v)) /\ Forest(Original(e))
    BY FactorNodesTree, OriginalTree
  <2>2. Holds(t, x + 2, d + 2, Original(e) \o FactorNodes(v))
    BY <1>5, <1>6 DEF c
  <2>3. QED
    BY <2>1, <2>2, HoldsConcat
<1>8. Details(t, x + 1) # {}
  <2>1. t[x + 2].depth = d + 2
    BY <1>7, OriginalTree, HeldPart
  <2>2. x + 2 \in Part(t, x + 1)
    <3>1. Part(t, x + 1) = x + 1 .. x + 1 + Len(a) - 1 /\ Len(a) = Len(c) + 1
      BY <1>2, <1>4, HeldPart, NodeTree
    <3>2. Len(c) \in Nat /\ Len(c) >= 1
      <4>1. Len(c) = Len(Original(e)) + Len(FactorNodes(v))
        BY OriginalTree, FactorNodesTree, ForestConcat DEF c
      <4>2. Len(Original(e)) \in Nat /\ Len(Original(e)) >= 1 /\ Len(FactorNodes(v)) \in Nat
        BY OriginalTree, FactorNodesTree, TreeShape, ForestShape
      <4>3. QED
        BY <4>1, <4>2
    <3>3. QED
      BY <1>4, <3>1, <3>2
  <2>3. t[x + 2].depth = t[x + 1].depth + 1
    BY <1>5, <1>6, <2>1
  <2>4. QED
    BY <2>2, <2>3 DEF Details
<1>9. FirstDetail(t, x, {"original"}) = None
  BY <1>4, <1>5, FirstDetailOfNone
<1>10. FirstDetail(t, x, Normalizers) = x + 1
  <2>1. /\ Details(t, x) \subseteq Int /\ x + 1 \in Details(t, x)
        /\ \A j \in Details(t, x) : x + 1 <= j
    BY <1>4, <1>6
  <2>2. t[x + 1].kind \in Normalizers
    BY <1>5 DEF Normalizers
  <2>3. QED
    BY <2>1, <2>2, FirstDetailIs
<1>11. PreviousScore(t, x) = x + 1
  BY <1>6, <1>9, <1>10, InPosition DEF PreviousScore
<1>12. x + 1 \in Details(t, x) /\ t[x + 1].kind \in Normalizers
  BY <1>4, <1>5 DEF Normalizers
<1>13. Unwrapped(t, x, at)
         = Around(at[x + 1 + 1], StepAt(t, x, x + 1))
  <2>1. x + 1 # None /\ x + 1 \in Int
    BY <1>6, InPosition
  <2>2. QED
    BY <1>8, <1>11, <1>12, <2>1, LevelAround
<1>14. StepAt(t, x, x + 1) = StepOf(x + 1, "sum", Value(Normalized(e)))
  BY <1>3, <1>4 DEF StepAt
<1>15. Unwrapped(t, x, at)
         = Around(at[x + 2], StepOf(x + 1, "sum", Value(Normalized(e))))
  BY <1>6, <1>13, <1>14
<1>16. Holds(t, x + 1, d + 1, NormalizerNode(e, Value(Normalized(e))))
  BY <1>3, <1>4 DEF a
<1>17. QED
  BY <1>6, <1>7, <1>15, <1>16

LEMMA OriginalRescoredLevel ==
  ASSUME NEW t, NEW x, NEW d, NEW e, NEW r, NEW at, Forest(t), Tree(e), r.kind \in RescoreKinds,
         r.kind # "normalizer", IsText(r.text), AreFunctions(r.functions),
         Holds(t, x, d, Original(Rescored(e, r)))
  PROVE  /\ Holds(t, x + 3, d + 3, e)
         /\ Unwrapped(t, x, at)
              = Around(at[x + 3], StepOf(x, "original", Value(Rescored(e, r))))
<1> DEFINE a == Rescored(e, r)
           b == Original(e)
           c == RescoreQuery(r)
           z == x + 1 + 1
<1>1. /\ Tree(a) /\ Len(a) \in Nat /\ Tree(b) /\ Tree(c) /\ Len(b) \in Nat /\ Len(b) >= 1
      /\ Len(c) \in Nat
  BY RescoredTree, OriginalTree, RescoreQueryTree, TreeShape
<1>2. PICK v : a = Node(r.kind, None, v, b \o c)
  BY DEF Rescored
<1> HIDE DEF a, b, c
<1>3. /\ Details(t, x) = {x + 1} /\ Holds(t, x + 1, d + 1, a) /\ x \in Nat \ {0} /\ d \in Nat
      /\ Part(t, x) = x .. x + Len(a) /\ t[x].kind = "original" /\ t[x].value = Value(a)
  BY <1>1, DetailsOfOne DEF a, Original
<1>4. Holds(t, z, d + 1 + 1, b) /\ t[x + 1].kind = r.kind
  <2>1. Holds(t, x + 1, d + 1, Node(r.kind, None, v, b \o c))
    BY <1>2, <1>3
  <2>2. Holds(t, x + 1 + 1, d + 1 + 1, b) /\ t[x + 1].kind = r.kind
    BY <1>1, <2>1, DetailsOfTwo
  <2>3. QED
    BY <2>2
<1>5. Details(t, z) = {z + 1} /\ Holds(t, z + 1, d + 1 + 1 + 1, e) /\ t[z].kind = "original"
      /\ t[z].depth = d + 1 + 1
  BY <1>4, DetailsOfOne DEF b, Original
<1>6. /\ z + 1 = x + 3 /\ d + 1 + 1 + 1 = d + 3 /\ z \in Nat /\ x + 1 < z /\ x + 1 \in Nat
      /\ x < x + 1
  BY <1>3
<1>7. r.kind \notin Normalizers /\ r.kind # "original"
  BY DEF RescoreKinds, Normalizers
<1>8. /\ FirstDetail(t, x, {"original"}) = None /\ FirstDetail(t, x, Normalizers) = None
  BY <1>3, <1>4, <1>7, FirstDetailOfNone
<1>9. Len(a) >= 2
  <2>1. Forest(b \o c) /\ Len(b \o c) = Len(b) + Len(c)
    BY <1>1, ForestConcat DEF Tree
  <2>2. PICK u : u = b \o c
    OBVIOUS
  <2>3. Forest(u) /\ Len(u) = Len(b) + Len(c) /\ a = Node(r.kind, None, v, u)
    BY <1>2, <2>1, <2>2
  <2>4. Len(a) = Len(u) + 1
    BY <2>3, NodeTree
  <2>5. QED
    BY <1>1, <2>3, <2>4
<1>10. ASSUME NEW j \in Part(t, x) \ {x}, t[j].kind = "original"
       PROVE  z <= j /\ t[z].depth <= t[j].depth
  <2>1. j \in x + 1 .. x + 1 + Len(a) - 1
    BY <1>1, <1>3
  <2>2. j # x + 1
    BY <1>4, <1>7, <1>10
  <2>3. t[j].depth \in Nat /\ t[j].depth >= d + 1 + 1
    BY <1>1, <1>3, <2>1, <2>2, HeldBelow
  <2>4. z <= j
    BY <1>3, <2>1, <2>2
  <2>5. QED
    BY <1>5, <2>3, <2>4
<1>11. z \in Part(t, x) \ {x} /\ Part(t, x) \subseteq Int /\ t[z].depth \in Int
  BY <1>1, <1>3, <1>5, <1>9
<1> HIDE DEF z
<1>12. ShallowestOriginal(t, x) = z
  BY <1>5, <1>10, <1>11, ShallowestIs
<1>13. PreviousScore(t, x) = z
  BY <1>8, <1>12 DEF PreviousScore
<1>14. z \notin Details(t, x)
  BY <1>3, <1>6
<1>15. Unwrapped(t, x, at)
         = Around(at[z + 1], StepAt(t, x, x))
  <2>1. z # None /\ x \in Int
    BY <1>3, <1>6, InPosition
  <2>2. Details(t, z) # {}
    BY <1>5
  <2>3. QED
    BY <1>13, <1>14, <2>1, <2>2, LevelAround
<1>16. StepAt(t, x, x) = StepOf(x, "original", Value(a))
  BY <1>3 DEF StepAt
<1>17. Holds(t, x + 3, d + 3, e)
  BY <1>5, <1>6
<1>18. Unwrapped(t, x, at)
         = Around(at[x + 3], StepOf(x, "original", Value(a)))
  BY <1>6, <1>15, <1>16
<1>19. QED
  BY <1>17, <1>18 DEF a

LEMMA OriginalNormalizedLevel ==
  ASSUME NEW t, NEW x, NEW d, NEW e, NEW at, Forest(t), Tree(e),
         Holds(t, x, d, Original(Normalized(e)))
  PROVE  /\ Holds(t, x + 4, d + 4, e)
         /\ Unwrapped(t, x, at)
              = Around(at[x + 4], StepOf(x, "original", Value(Normalized(e))))
<1> DEFINE a == Normalized(e)
           c == Original(e)
<1>1. PICK v : a = Node("sum", None, v, NormalizerNode(e, v))
  BY DEF Normalized
<1> DEFINE b == NormalizerNode(e, v)
           f == c \o FactorNodes(v)
           y == x + 1 + 1
           z == y + 1
<1>2. /\ Tree(a) /\ Len(a) \in Nat /\ Tree(b) /\ Len(b) \in Nat /\ Forest(f)
      /\ Tree(c) /\ Forest(c) /\ Len(c) \in Nat /\ Len(c) >= 1
      /\ Forest(FactorNodes(v)) /\ Len(FactorNodes(v)) \in Nat
      /\ b = Node("normalizer", "min_max", v, f)
  BY NormalizedTree, OriginalTree, FactorNodesTree, TreeShape, ForestShape DEF NormalizerNode
<1> HIDE DEF a, b, c, f
<1>3. /\ Details(t, x) = {x + 1} /\ Holds(t, x + 1, d + 1, a) /\ x \in Nat \ {0} /\ d \in Nat
      /\ Part(t, x) = x .. x + Len(a) /\ t[x].kind = "original" /\ t[x].value = Value(a)
  BY <1>2, DetailsOfOne DEF a, Original
<1>4. Holds(t, y, d + 1 + 1, b) /\ t[x + 1].kind = "sum"
  <2>1. Holds(t, x + 1, d + 1, Node("sum", None, v, b)) /\ Tree(b)
    BY <1>1, <1>2, <1>3 DEF b
  <2>2. Holds(t, x + 1 + 1, d + 1 + 1, b) /\ t[x + 1].kind = "sum"
    BY <2>1, DetailsOfOne
  <2>3. QED
    BY <2>2
<1>5. Holds(t, z, d + 1 + 1 + 1, f) /\ t[y].kind = "normalizer"
  BY <1>2, <1>4, HoldsDetails
<1>6. Holds(t, z, d + 1 + 1 + 1, c)
  <2>1. Holds(t, z, d + 1 + 1 + 1, c \o FactorNodes(v))
    BY <1>5 DEF f
  <2>2. QED
    BY <1>2, <2>1, HoldsConcat
<1>7. Details(t, z) = {z + 1} /\ Holds(t, z + 1, d + 1 + 1 + 1 + 1, e)
      /\ t[z].kind = "original" /\ t[z].depth = d + 1 + 1 + 1
  BY <1>6, DetailsOfOne DEF c, Original
<1>8. /\ z + 1 = x + 4 /\ d + 1 + 1 + 1 + 1 = d + 4 /\ z \in Nat /\ y \in Nat /\ x + 1 \in Nat
      /\ x + 1 < z /\ x < x + 1
  BY <1>3
<1>9. /\ FirstDetail(t, x, {"original"}) = None /\ FirstDetail(t, x, Normalizers) = None
  <2>1. t[x + 1].kind \notin {"original"} /\ t[x + 1].kind \notin Normalizers
    BY <1>4 DEF Normalizers
  <2>2. QED
    BY <1>3, <2>1, FirstDetailOfNone
<1>10. Len(a) = Len(b) + 1 /\ Len(b) = Len(f) + 1 /\ Len(f) = Len(c) + Len(FactorNodes(v))
  <2>1. Len(f) = Len(c) + Len(FactorNodes(v))
    BY <1>2, ForestConcat DEF f
  <2>2. Len(b) = Len(f) + 1
    BY <1>2, NodeTree
  <2>3. Len(a) = Len(b) + 1
    BY <1>1, <1>2, NodeTree DEF Tree, b
  <2>4. QED
    BY <2>1, <2>2, <2>3
<1>11. ASSUME NEW j \in Part(t, x) \ {x}, t[j].kind = "original"
       PROVE  z <= j /\ t[z].depth <= t[j].depth
  <2>1. j \in Int /\ j # x /\ x <= j /\ j <= x + Len(a)
    BY <1>3
  <2>2. j # x + 1 /\ j # y
    BY <1>4, <1>5, <1>11
  <2>3. j \in y .. y + Len(b) - 1
    BY <1>2, <1>3, <1>10, <2>1, <2>2
  <2>4. t[j].depth \in Nat /\ t[j].depth >= d + 1 + 1 + 1
    <3> HIDE DEF y
    <3>1. QED
      BY <1>2, <1>4, <2>2, <2>3, HeldBelow
  <2>5. z <= j
    BY <1>3, <2>1, <2>2
  <2>6. QED
    BY <1>7, <2>4, <2>5
<1>12. z \in Part(t, x) \ {x} /\ Part(t, x) \subseteq Int /\ t[z].depth \in Int
  <2>1. t[z].depth \in Int
    BY <1>3, <1>7
  <2>2. QED
    BY <1>2, <1>3, <1>10, <2>1
<1> HIDE DEF y, z
<1>13. ShallowestOriginal(t, x) = z
  BY <1>7, <1>11, <1>12, ShallowestIs
<1>14. PreviousScore(t, x) = z
  BY <1>9, <1>13 DEF PreviousScore
<1>15. z \notin Details(t, x)
  BY <1>3, <1>8
<1>16. Unwrapped(t, x, at)
         = Around(at[z + 1], StepAt(t, x, x))
  <2>1. z # None /\ x \in Int
    BY <1>3, <1>8, InPosition
  <2>2. Details(t, z) # {}
    BY <1>7
  <2>3. QED
    BY <1>14, <1>15, <2>1, <2>2, LevelAround
<1>17. StepAt(t, x, x) = StepOf(x, "original", Value(a))
  BY <1>3 DEF StepAt
<1>18. Holds(t, x + 4, d + 4, e)
  BY <1>7, <1>8
<1>19. Unwrapped(t, x, at)
         = Around(at[x + 4], StepOf(x, "original", Value(a)))
  BY <1>8, <1>16, <1>17
<1>20. QED
  BY <1>18, <1>19 DEF a

-----------------------------------------------------------------------------
(* The steps read from the tree of a hit are its rescores, in their order.   *)

(* The node says how the query was scored. *)
QueryAt(t, x, q) ==
  \E d \in Nat : Holds(t, x, d, Explained(q)[0]) \/ Holds(t, x, d, Original(Explained(q)[0]))

Totals(t, q, m, found) ==
  /\ QueryAt(t, found.query, q)
  /\ IsSequence(found.steps) /\ Len(found.steps) = m
  /\ \A j \in 1 .. m : found.steps[j].total = Value(Explained(q)[j])

(* The step has the node that says what the rescore added. *)
OfRescore(t, q, j, s) ==
  IF Reached(q)[j].kind = "normalizer"
  THEN \E d \in Nat :
         Holds(t, s.node, d, NormalizerNode(Explained(q)[j - 1], Value(Explained(q)[j])))
  ELSE /\ s.kind = Reached(q)[j].kind
       /\ \E d \in Nat : Holds(t, s.node, d, RescoreQuery(Reached(q)[j]))

Straight(q, m) == \A i \in 2 .. m : Reached(q)[i].kind # "normalizer"

StepNodes(t, q, m, found) ==
  Straight(q, m) => \A j \in 1 .. m : OfRescore(t, q, j, found.steps[j])

LEMMA TotalsMore ==
  ASSUME NEW t, NEW q, NEW m \in Nat, NEW k, k = m + 1, NEW found, NEW s,
         Totals(t, q, m, found), s.total = Value(Explained(q)[k]),
         NEW more, more = Around(found, s)
  PROVE  /\ Totals(t, q, k, more) /\ more.steps[k] = s
         /\ \A j \in 1 .. m : more.steps[j] = found.steps[j]
<1> DEFINE a == found.steps
           b == a \o <<s>>
           S == ToSet(a) \cup {s}
<1>1. a \in Seq(ToSet(a)) /\ Len(a) = m
  BY DEF Totals, IsSequence
<1>2. a \in Seq(S) /\ <<s>> \in Seq(S) /\ Len(<<s>>) = 1 /\ <<s>>[1] = s
  <2>1. a \in Seq(S)
    BY <1>1, SeqWidened
  <2>2. s \in S
    OBVIOUS
  <2>3. <<s>> \in Seq(S)
    <3> HIDE DEF S
    <3>1. QED
      BY <2>2
  <2>4. QED
    BY <2>1, <2>3
<1> HIDE DEF S, a
<1>3. /\ b \in Seq(S) /\ Len(b) = k
      /\ \A i \in 1 .. m + 1 : b[i] = IF i <= m THEN a[i] ELSE <<s>>[i - m]
  <2>1. /\ b \in Seq(S) /\ Len(b) = Len(a) + Len(<<s>>)
        /\ \A i \in 1 .. Len(a) + Len(<<s>>) :
             b[i] = IF i <= Len(a) THEN a[i] ELSE <<s>>[i - Len(a)]
    BY <1>2, ConcatProperties
  <2>2. QED
    BY <1>1, <1>2, <2>1
<1> HIDE DEF b
<1>4. \A j \in 1 .. m : b[j] = a[j]
  BY <1>3
<1>5. b[k] = s
  <2>1. k \in 1 .. m + 1 /\ ~(k <= m) /\ k - m = 1
    OBVIOUS
  <2>2. b[k] = <<s>>[k - m]
    BY <1>3, <2>1
  <2>3. QED
    BY <1>2, <2>1, <2>2
<1>6. IsSequence(b)
  BY <1>3, OwnSeq DEF IsSequence
<1>7. \A j \in 1 .. k : b[j].total = Value(Explained(q)[j])
  <2>1. ASSUME NEW j \in 1 .. k PROVE b[j].total = Value(Explained(q)[j])
    <3>1. CASE j = k
      BY <1>5, <3>1
    <3>2. CASE j # k
      <4>1. j \in 1 .. m
        BY <3>2
      <4>2. a[j].total = Value(Explained(q)[j])
        BY <4>1 DEF Totals, a
      <4>3. QED
        BY <1>4, <4>1, <4>2
    <3>3. QED
      BY <3>1, <3>2
  <2>2. QED
    BY <2>1
<1>8. QueryAt(t, more.query, q) /\ more.steps = b
  BY DEF Totals, Around, a, b
<1>9. Totals(t, q, k, more)
  BY <1>3, <1>6, <1>7, <1>8 DEF Totals
<1>10. \A j \in 1 .. m : more.steps[j] = found.steps[j]
  BY <1>4, <1>8 DEF a
<1>11. more.steps[k] = s
  BY <1>5, <1>8
<1>12. QED
  BY <1>9, <1>10, <1>11

(* A position at which a tree stands is one of the tree around it. *)
LEMMA HeldLevel ==
  ASSUME NEW t, Forest(t), NEW x, NEW d, NEW u, Tree(u), Holds(t, x, d, u)
  PROVE  x \in Nat /\ d \in Nat /\ x \in 1 .. Len(t) /\ Levels(t)[x] = Unwrapped(t, x, Levels(t))
BY HeldPart, LevelsDefined DEF Holds

LEMMA UnwrapsQuery ==
  ASSUME NEW q \in Searches, NEW t, Forest(t), NEW x, NEW d,
         \/ Holds(t, x, d, Explained(q)[0])
         \/ Holds(t, x, d, Original(Explained(q)[0]))
  PROVE  Totals(t, q, 0, Levels(t)[x])
<1> DEFINE e == Explained(q)[0]
<1>1. Tree(e) /\ Of(e, PlainKinds) /\ Len(e) \in Nat /\ Forest(e)
  BY QueryTree, TreeShape
<1>2. PICK u : (u = e \/ u = Original(e)) /\ Holds(t, x, d, u)
  OBVIOUS
<1> HIDE DEF e
<1>3. Tree(u) /\ \A k \in 2 .. Len(u) : u[k].kind \in PlainKinds
  <2>1. CASE u = e
    <3>1. \A k \in 2 .. Len(e) : k \in 1 .. Len(e)
      BY <1>1
    <3>2. QED
      BY <1>1, <2>1, <3>1 DEF Of
  <2>2. CASE u = Original(e)
    <3>1. Tree(u) /\ Len(u) = Len(e) + 1 /\ \A k \in 1 .. Len(e) : SameNode(u[k + 1], e[k])
      <4>1. PICK v : u = Node("original", None, v, e)
        BY <2>2 DEF Original
      <4>2. Tree(u) /\ Len(u) = Len(e) + 1
        BY <1>1, <4>1, NodeTree
      <4>3. \A k \in 1 .. Len(e) : SameNode(Node("original", None, v, e)[k + 1], e[k])
        BY <1>1, NodeDetails
      <4>4. QED
        BY <4>1, <4>2, <4>3
    <3>2. ASSUME NEW k \in 2 .. Len(u) PROVE u[k].kind \in PlainKinds
      <4>1. PICK i \in 1 .. Len(e) : i + 1 = k
        <5>1. k - 1 \in 1 .. Len(e) /\ (k - 1) + 1 = k
          BY <1>1, <3>1
        <5>2. QED
          BY <5>1
      <4>2. u[k].kind = e[i].kind
        BY <3>1, <4>1 DEF SameNode
      <4>3. QED
        BY <1>1, <4>2 DEF Of
    <3>3. QED
      BY <3>1, <3>2
  <2>3. QED
    BY <1>2, <2>1, <2>2
<1>4. Levels(t)[x] = Unwrapped(t, x, Levels(t)) /\ d \in Nat
  BY <1>2, <1>3, HeldLevel
<1>5. Levels(t)[x] = [query |-> x, steps |-> <<>>]
  BY <1>2, <1>3, <1>4, PlainLevel
<1>6. QueryAt(t, x, q)
  BY <1>4 DEF QueryAt
<1>7. IsSequence(<<>>) /\ Len(<<>>) = 0
  BY DEF IsSequence
<1>8. \A j \in 1 .. 0 : FALSE
  OBVIOUS
<1>9. Levels(t)[x].query = x /\ Levels(t)[x].steps = <<>>
  BY <1>5
<1>10. QED
  BY <1>6, <1>7, <1>8, <1>9 DEF Totals

(* One more rescore, around the levels as they are. *)
LEMMA UnwrapsRescored ==
  ASSUME NEW q \in Searches, NEW t, Forest(t), NEW m \in Nat, NEW k, k = m + 1,
         k \in 1 .. Len(Reached(q)), Reached(q)[k].kind # "normalizer",
         \A x, d : Holds(t, x, d, Explained(q)[m]) =>
           Totals(t, q, m, Levels(t)[x]) /\ StepNodes(t, q, m, Levels(t)[x]),
         NEW x, NEW d
  PROVE  /\ Holds(t, x, d, Explained(q)[k]) =>
              Totals(t, q, k, Levels(t)[x]) /\ StepNodes(t, q, k, Levels(t)[x])
         /\ Holds(t, x, d, Original(Explained(q)[k])) => Totals(t, q, k, Levels(t)[x])
<1> DEFINE e == Explained(q)[m]
           f == Explained(q)[k]
           r == Reached(q)[k]
           at == Levels(t)
<1>1. /\ r.kind \in RescoreKinds /\ IsText(r.text) /\ AreFunctions(r.functions)
      /\ Len(Reached(q)) \in Nat
  BY ReachedShape
<1>2. m \in 0 .. Len(Reached(q)) /\ k - 1 = m /\ k \in 0 .. Len(Reached(q))
  BY <1>1
<1>3. Tree(e) /\ Tree(f)
  BY <1>2, ExplainedTrees
<1>4. f = Rescored(e, r)
  <2>1. f = Level(Explained(q)[k - 1], r)
    BY <1>1, ExplainedDefined
  <2>2. QED
    BY <1>2, <2>1 DEF Level
<1>5. Value(f) = Value(Explained(q)[k])
  OBVIOUS
<1> HIDE DEF e, f, at
<1>6. ASSUME Holds(t, x, d, f) PROVE Totals(t, q, k, at[x]) /\ StepNodes(t, q, k, at[x])
  <2> DEFINE inner == at[x + 2]
  <2>1. at[x] = Unwrapped(t, x, at) /\ d \in Nat
    BY <1>3, <1>6, HeldLevel DEF at
  <2>2. /\ Holds(t, x + 2, d + 2, e)
        /\ \E node \in Nat :
             /\ Holds(t, node, d + 1, RescoreQuery(r)) /\ t[x].kind = r.kind
             /\ Unwrapped(t, x, at)
                  = Around(inner, StepOf(node, r.kind, Value(f)))
    <3> HIDE DEF r
    <3>1. Holds(t, x, d, Rescored(e, r))
      BY <1>4, <1>6
    <3>2. /\ Holds(t, x + 2, d + 2, e)
          /\ \E node \in Nat :
               /\ Holds(t, node, d + 1, RescoreQuery(r)) /\ t[x].kind = r.kind
               /\ Unwrapped(t, x, at)
                    = Around(at[x + 2], StepOf(node, r.kind, Value(Rescored(e, r))))
      BY <1>1, <1>3, <2>1, <3>1, RescoredLevel
    <3>3. QED
      BY <1>4, <3>2
  <2>3. PICK node \in Nat :
          /\ Holds(t, node, d + 1, RescoreQuery(r))
          /\ at[x] = Around(inner, StepOf(node, r.kind, Value(f)))
    BY <2>1, <2>2
  <2>4. Totals(t, q, m, inner) /\ StepNodes(t, q, m, inner)
    BY <2>2 DEF e, at
  <2> DEFINE s == StepOf(node, r.kind, Value(f))
  <2>5. s.node = node /\ s.kind = r.kind /\ s.total = Value(Explained(q)[k])
    BY <1>5 DEF StepOf
  <2> HIDE DEF s, inner
  <2>6. /\ Totals(t, q, k, at[x]) /\ at[x].steps[k] = s
        /\ \A j \in 1 .. m : at[x].steps[j] = inner.steps[j]
    <3>1. at[x] = Around(inner, s)
      BY <2>3 DEF s
    <3>2. Totals(t, q, k, at[x]) /\ at[x].steps[k] = s
      BY <2>4, <2>5, <3>1, TotalsMore
    <3>3. ASSUME NEW j \in 1 .. m PROVE at[x].steps[j] = inner.steps[j]
      BY <2>4, <2>5, <3>1, <3>2, TotalsMore
    <3>4. QED
      BY <3>2, <3>3
  <2>7. ASSUME Straight(q, k), NEW j \in 1 .. k PROVE OfRescore(t, q, j, at[x].steps[j])
    <3>1. CASE j = k
      <4>1. d + 1 \in Nat
        BY <2>1
      <4>2. QED
        BY <2>3, <2>5, <2>6, <3>1, <4>1 DEF OfRescore
    <3>2. CASE j # k
      <4>1. j \in 1 .. m
        BY <3>2
      <4>2. Straight(q, m)
        BY <2>7 DEF Straight
      <4>3. QED
        BY <2>4, <2>6, <4>1, <4>2 DEF StepNodes
    <3>3. QED
      BY <3>1, <3>2
  <2>8. QED
    BY <2>6, <2>7 DEF StepNodes
<1>7. ASSUME Holds(t, x, d, Original(f)) PROVE Totals(t, q, k, at[x])
  <2> DEFINE inner == at[x + 3]
             s == StepOf(x, "original", Value(f))
  <2>1. at[x] = Unwrapped(t, x, at)
    BY <1>3, <1>7, OriginalTree, HeldLevel DEF at
  <2>2. /\ Holds(t, x + 3, d + 3, e)
        /\ Unwrapped(t, x, at) = Around(inner, s)
    <3>1. Holds(t, x, d, Original(Rescored(e, r)))
      BY <1>4, <1>7
    <3> HIDE DEF r
    <3>2. r.kind # "normalizer"
      BY DEF r
    <3>3. /\ Holds(t, x + 3, d + 3, e)
          /\ Unwrapped(t, x, at)
               = Around(at[x + 3], StepOf(x, "original", Value(Rescored(e, r))))
      BY <1>1, <1>3, <3>1, <3>2, OriginalRescoredLevel
    <3>4. QED
      BY <1>4, <3>3
  <2>3. Totals(t, q, m, inner)
    BY <2>2 DEF e, at
  <2>4. s.total = Value(Explained(q)[k])
    BY <1>5 DEF StepOf
  <2> HIDE DEF s, inner
  <2>5. QED
    <3>1. at[x] = Around(inner, s)
      BY <2>1, <2>2
    <3>2. QED
      BY <2>3, <2>4, <3>1, TotalsMore
<1>8. QED
  BY <1>6, <1>7 DEF f, at

(* One more normalizer, around the original of the level inside. *)
LEMMA UnwrapsNormalized ==
  ASSUME NEW q \in Searches, NEW t, Forest(t), NEW m \in Nat, NEW k, k = m + 1,
         k \in 1 .. Len(Reached(q)), Reached(q)[k].kind = "normalizer",
         \A x, d : /\ Holds(t, x, d, Explained(q)[m]) => Totals(t, q, m, Levels(t)[x])
                   /\ Holds(t, x, d, Original(Explained(q)[m])) => Totals(t, q, m, Levels(t)[x]),
         NEW x, NEW d
  PROVE  /\ Holds(t, x, d, Explained(q)[k]) =>
              Totals(t, q, k, Levels(t)[x]) /\ StepNodes(t, q, k, Levels(t)[x])
         /\ Holds(t, x, d, Original(Explained(q)[k])) => Totals(t, q, k, Levels(t)[x])
<1> DEFINE e == Explained(q)[m]
           f == Explained(q)[k]
           at == Levels(t)
<1>1. Len(Reached(q)) \in Nat
  BY ReachedShape
<1>2. m \in 0 .. Len(Reached(q)) /\ k - 1 = m /\ k \in 0 .. Len(Reached(q))
  BY <1>1
<1>3. Tree(e) /\ Tree(f)
  BY <1>2, ExplainedTrees
<1>4. f = Normalized(e)
  <2>1. f = Level(Explained(q)[k - 1], Reached(q)[k])
    BY <1>1, ExplainedDefined
  <2>2. QED
    BY <1>2, <2>1 DEF Level
<1>5. Value(f) = Value(Explained(q)[k])
  OBVIOUS
<1> HIDE DEF e, f, at
<1>6. ASSUME Holds(t, x, d, f) PROVE Totals(t, q, k, at[x]) /\ StepNodes(t, q, k, at[x])
  <2> DEFINE inner == at[x + 2]
  <2>1. at[x] = Unwrapped(t, x, at) /\ d \in Nat
    BY <1>3, <1>6, HeldLevel DEF at
  <2>2. /\ Holds(t, x + 2, d + 2, Original(e))
        /\ \E node \in Nat :
             /\ Holds(t, node, d + 1, NormalizerNode(e, Value(f)))
             /\ Unwrapped(t, x, at)
                  = Around(inner, StepOf(node, "sum", Value(f)))
    <3>1. Holds(t, x, d, Normalized(e))
      BY <1>4, <1>6
    <3>2. /\ Holds(t, x + 2, d + 2, Original(e))
          /\ \E node \in Nat :
               /\ Holds(t, node, d + 1, NormalizerNode(e, Value(Normalized(e))))
               /\ Unwrapped(t, x, at)
                    = Around(at[x + 2], StepOf(node, "sum", Value(Normalized(e))))
      BY <1>3, <3>1, NormalizedLevel
    <3>3. QED
      BY <1>4, <3>2
  <2>3. PICK node \in Nat :
          /\ Holds(t, node, d + 1, NormalizerNode(e, Value(f)))
          /\ at[x] = Around(inner, StepOf(node, "sum", Value(f)))
    BY <2>1, <2>2
  <2>4. Totals(t, q, m, inner)
    BY <2>2 DEF e, at
  <2> DEFINE s == StepOf(node, "sum", Value(f))
  <2>5. s.node = node /\ s.total = Value(Explained(q)[k])
    BY <1>5 DEF StepOf
  <2> HIDE DEF s, inner
  <2>6. Totals(t, q, k, at[x]) /\ at[x].steps[k] = s
    BY <2>3, <2>4, <2>5, TotalsMore DEF s
  <2>7. ASSUME Straight(q, k), NEW j \in 1 .. k PROVE OfRescore(t, q, j, at[x].steps[j])
    <3>1. k = 1
      <4>1. SUFFICES ASSUME k # 1 PROVE FALSE
        OBVIOUS
      <4>2. k \in 2 .. k
        BY <4>1
      <4>3. QED
        BY <2>7, <4>2 DEF Straight
    <3>2. j = k /\ d + 1 \in Nat
      BY <2>1, <3>1
    <3>3. Holds(t, s.node, d + 1, NormalizerNode(Explained(q)[j - 1], Value(Explained(q)[j])))
      BY <1>2, <1>5, <2>3, <2>5, <3>2 DEF e
    <3>4. QED
      BY <2>6, <3>2, <3>3 DEF OfRescore
  <2>8. QED
    BY <2>6, <2>7 DEF StepNodes
<1>7. ASSUME Holds(t, x, d, Original(f)) PROVE Totals(t, q, k, at[x])
  <2> DEFINE inner == at[x + 4]
             s == StepOf(x, "original", Value(f))
  <2>1. at[x] = Unwrapped(t, x, at)
    BY <1>3, <1>7, OriginalTree, HeldLevel DEF at
  <2>2. /\ Holds(t, x + 4, d + 4, e)
        /\ Unwrapped(t, x, at) = Around(inner, s)
    BY <1>3, <1>4, <1>7, OriginalNormalizedLevel
  <2>3. Totals(t, q, m, inner)
    BY <2>2 DEF e, at
  <2>4. s.total = Value(Explained(q)[k])
    BY <1>5 DEF StepOf
  <2> HIDE DEF s, inner
  <2>5. QED
    <3>1. at[x] = Around(inner, s)
      BY <2>1, <2>2
    <3>2. QED
      BY <2>3, <2>4, <3>1, TotalsMore
<1>8. QED
  BY <1>6, <1>7 DEF f, at

LEMMA UnwrapsBack ==
  ASSUME NEW q \in Searches, NEW t, Forest(t), NEW m \in 0 .. Len(Reached(q)), NEW x, NEW d,
         Holds(t, x, d, Explained(q)[m])
  PROVE  Totals(t, q, m, Levels(t)[x]) /\ StepNodes(t, q, m, Levels(t)[x])
<1> DEFINE n == Len(Reached(q))
           Inside(i) == \A y, c : Holds(t, y, c, Explained(q)[i]) =>
                          Totals(t, q, i, Levels(t)[y]) /\ StepNodes(t, q, i, Levels(t)[y])
           Below(i) == \A y, c : Holds(t, y, c, Original(Explained(q)[i])) =>
                         Totals(t, q, i, Levels(t)[y])
           G == {i \in 0 .. n : Inside(i) /\ Below(i)}
<1>1. n \in Nat
  BY ReachedShape
<1>2. 0 \in G
  <2>1. Below(0)
    BY UnwrapsQuery
  <2>2. ASSUME NEW y, NEW c, Holds(t, y, c, Explained(q)[0])
        PROVE  Totals(t, q, 0, Levels(t)[y]) /\ StepNodes(t, q, 0, Levels(t)[y])
    <3>1. Totals(t, q, 0, Levels(t)[y])
      BY <2>2, UnwrapsQuery
    <3>2. StepNodes(t, q, 0, Levels(t)[y])
      BY DEF StepNodes
    <3>3. QED
      BY <3>1, <3>2
  <2>3. Inside(0)
    BY <2>2
  <2>4. 0 \in 0 .. n
    BY <1>1
  <2> HIDE DEF Inside, Below
  <2>5. QED
    BY <2>1, <2>3, <2>4
<1>3. ASSUME NEW i \in 0 .. n, i \in G, i < n PROVE i + 1 \in G
  <2>1. PICK k \in 1 .. n : k = i + 1 /\ i \in Nat /\ k \in 0 .. n
    <3>1. i + 1 \in 1 .. n /\ i \in Nat /\ i + 1 \in 0 .. n
      BY <1>1, <1>3
    <3>2. QED
      BY <3>1
  <2>2. Inside(i) /\ Below(i)
    <3> HIDE DEF Inside, Below
    <3>1. QED
      BY <1>3
  <2>3. ASSUME NEW y, NEW c
        PROVE  /\ Holds(t, y, c, Explained(q)[k]) =>
                    Totals(t, q, k, Levels(t)[y]) /\ StepNodes(t, q, k, Levels(t)[y])
               /\ Holds(t, y, c, Original(Explained(q)[k])) => Totals(t, q, k, Levels(t)[y])
    <3>1. CASE Reached(q)[k].kind # "normalizer"
      BY <2>1, <2>2, <3>1, UnwrapsRescored
    <3>2. CASE Reached(q)[k].kind = "normalizer"
      BY <2>1, <2>2, <3>2, UnwrapsNormalized
    <3>3. QED
      BY <3>1, <3>2
  <2>4. Inside(k) /\ Below(k)
    BY <2>3
  <2> HIDE DEF Inside, Below
  <2>5. QED
    BY <2>1, <2>4
<1>4. m \in G
  <2> HIDE DEF G
  <2>1. 0 .. n \subseteq G
    BY <1>1, <1>2, <1>3, InductionTo
  <2>2. QED
    BY <2>1
<1>5. Inside(m)
  <2> HIDE DEF Inside, Below
  <2>1. QED
    BY <1>4
<1>6. QED
  BY <1>5

(* What the mapper reads from the tree of a hit. *)
LEMMA Traversed ==
  ASSUME NEW q \in Searches
  PROVE  /\ Tree(Explain(q)) /\ Totals(Explain(q), q, Len(Reached(q)), Traverse(Explain(q)))
         /\ StepNodes(Explain(q), q, Len(Reached(q)), Traverse(Explain(q)))
<1> DEFINE n == Len(Reached(q))
           t == Explain(q)
<1>1. n \in Nat
  BY ReachedShape
<1>2. n \in 0 .. n /\ t = Explained(q)[n]
  BY <1>1 DEF Explain
<1>3. Tree(t)
  BY <1>2, ExplainedTrees
<1>4. Holds(t, 1, 0, Explained(q)[n]) /\ Forest(t)
  BY <1>2, <1>3, HoldsSelf DEF Tree
<1>5. QED
  BY <1>2, <1>3, <1>4, UnwrapsBack DEF Traverse

-----------------------------------------------------------------------------
(* The score of the query.                                                   *)

LEMMA FindKindOfNone ==
  ASSUME NEW t, NEW x, NEW K, \A j \in Part(t, x) : t[j].kind \notin K
  PROVE  FindKind(t, x, K) = None
<1>1. {j \in Part(t, x) : t[j].kind \in K} = {}
  OBVIOUS
<1>2. QED
  BY <1>1, FirstOfNone DEF FindKind

LEMMA FindKindIs ==
  ASSUME NEW t, NEW x, NEW K, Part(t, x) \subseteq Int, NEW z \in Part(t, x),
         t[z].kind \in K, \A j \in Part(t, x) : t[j].kind \in K => z <= j
  PROVE  FindKind(t, x, K) = z
<1> DEFINE S == {j \in Part(t, x) : t[j].kind \in K}
<1>1. S \subseteq Int /\ z \in S /\ \A j \in S : z <= j
  OBVIOUS
<1> HIDE DEF S
<1>2. First(S) = z
  BY <1>1, FirstIs
<1>3. QED
  BY <1>2 DEF FindKind, S

(* The tree of the query, which may be below an "original" node. *)
LEMMA QueryInside ==
  ASSUME NEW q \in Searches, NEW t, Forest(t), NEW x, QueryAt(t, x, q)
  PROVE  \E y \in Nat \ {0}, d \in Nat :
           /\ Holds(t, y, d, Explained(q)[0]) /\ t[x].value = Value(Explained(q)[0])
           /\ x \in 1 .. Len(t)
           /\ Part(t, x) = x .. y + Len(Explained(q)[0]) - 1
           /\ y = x \/ (y = x + 1 /\ t[x].kind = "original")
<1> DEFINE e == Explained(q)[0]
           Goal == \E y \in Nat \ {0}, c \in Nat :
                     /\ Holds(t, y, c, e) /\ t[x].value = Value(e) /\ x \in 1 .. Len(t)
                     /\ Part(t, x) = x .. y + Len(e) - 1
                     /\ y = x \/ (y = x + 1 /\ t[x].kind = "original")
<1>1. Tree(e) /\ Len(e) \in Nat /\ Len(e) >= 1
  BY QueryTree, TreeShape
<1>2. PICK d \in Nat : Holds(t, x, d, e) \/ Holds(t, x, d, Original(e))
  BY DEF QueryAt
<1> HIDE DEF e
<1>3. ASSUME Holds(t, x, d, e) PROVE Goal
  <2>1. x \in Nat \ {0}
    BY <1>3 DEF Holds
  <2>2. Part(t, x) = x .. x + Len(e) - 1 /\ x \in 1 .. Len(t)
    BY <1>1, <1>3, HeldPart
  <2>3. SameNode(t[x], e[1])
    <3>1. x + 1 - 1 = x /\ 1 \in 1 .. Len(e)
      BY <1>1, <2>1
    <3>2. QED
      BY <1>3, <3>1 DEF Holds
  <2>4. t[x].value = Value(e)
    BY <2>3 DEF SameNode, Value
  <2>5. x = x \/ (x = x + 1 /\ t[x].kind = "original")
    OBVIOUS
  <2>6. QED
    BY <1>3, <2>1, <2>2, <2>4, <2>5
<1>4. ASSUME Holds(t, x, d, Original(e)) PROVE Goal
  <2>1. /\ Holds(t, x + 1, d + 1, e) /\ x \in Nat \ {0} /\ x \in 1 .. Len(t)
        /\ Part(t, x) = x .. x + Len(e) /\ t[x].kind = "original" /\ t[x].value = Value(e)
    BY <1>1, <1>4, DetailsOfOne DEF Original
  <2>2. x + Len(e) = x + 1 + Len(e) - 1 /\ x + 1 \in Nat \ {0} /\ d + 1 \in Nat
    BY <1>1, <2>1
  <2>3. QED
    BY <2>1, <2>2
<1>5. Goal
  BY <1>2, <1>3, <1>4
<1>6. QED
  BY <1>5 DEF Goal, e

(* The explanation of the query: the text, or the functions around it. *)
LEMMA QueryShape ==
  ASSUME NEW q \in Searches
  PROVE  /\ IsText(q.text) /\ AreFunctions(q.functions) /\ q.boost \in FunctionScores
         /\ q.boost # "function_mode"
         /\ q.functions = <<>> => Explained(q)[0] = q.text
         /\ q.functions # <<>> =>
              Explained(q)[0] = Node(q.boost, None,
                BoostedValue(q.boost, Value(q.text), Value(FunctionsNode(q.functions))),
                q.text \o FunctionsNode(q.functions))
<1>1. Explained(q)[0] = Boosted(q.text, q.functions, q.boost)
  BY ReachedShape, ExplainedDefined
<1>2. QED
  BY <1>1, SearchesAssumption DEF Boosted

LEMMA TextOfQuery ==
  ASSUME NEW q \in Searches, NEW t, Forest(t), NEW x, QueryAt(t, x, q), q.functions = <<>>
  PROVE  OriginalText(t, x) = None /\ t[x].value = Value(q.text)
<1> DEFINE e == Explained(q)[0]
<1>1. e = q.text /\ Tree(e) /\ Of(e, TextKinds) /\ Len(e) \in Nat
  BY QueryShape, TextTree, TreeShape
<1>2. PICK y \in Nat \ {0}, d \in Nat :
        /\ Holds(t, y, d, e) /\ t[x].value = Value(e) /\ x \in 1 .. Len(t)
        /\ Part(t, x) = x .. y + Len(e) - 1
        /\ y = x \/ (y = x + 1 /\ t[x].kind = "original")
  BY QueryInside
<1>3. "original" \notin FunctionScores /\ TextKinds \cap FunctionScores = {}
  BY DEF FunctionScores, TextKinds
<1> HIDE DEF e
<1>4. ASSUME NEW j \in Part(t, x) PROVE t[j].kind \notin FunctionScores
  <2>1. CASE j \in y .. y + Len(e) - 1
    <3>1. j - y + 1 \in 1 .. Len(e) /\ SameNode(t[j], e[j - y + 1])
      BY <1>1, <1>2, <2>1, HeldBelow
    <3>2. QED
      BY <1>1, <1>3, <3>1 DEF SameNode, Of
  <2>2. CASE j \notin y .. y + Len(e) - 1
    <3>1. j = x /\ t[x].kind = "original"
      BY <1>1, <1>2, <2>2
    <3>2. QED
      BY <1>3, <3>1
  <2>3. QED
    BY <2>1, <2>2
<1>5. FindKind(t, x, FunctionScores) = None
  BY <1>4, FindKindOfNone
<1>6. QED
  BY <1>1, <1>2, <1>5 DEF OriginalText

(* The functions of the query are at y, around its text. *)
FunctionsAt(t, x, q, y) ==
  /\ FindKind(t, x, FunctionScores) = y /\ t[y].kind = q.boost
  /\ t[y].value = Value(Explained(q)[0]) /\ t[x].value = Value(Explained(q)[0])
  /\ Details(t, y) = {y + 1, y + 1 + Len(q.text)}
  /\ \E d \in Nat : /\ Holds(t, y + 1, d, q.text)
                    /\ Holds(t, y + 1 + Len(q.text), d, FunctionsNode(q.functions))
  /\ Part(t, x) = x .. y + Len(q.text) + Len(FunctionsNode(q.functions))
  /\ y = x \/ (y = x + 1 /\ t[x].kind = "original")
  /\ OriginalText(t, x) = Value(q.text) /\ OriginalText(t, x) # None

LEMMA TextOfFunctions ==
  ASSUME NEW q \in Searches, NEW t, Forest(t), NEW x, QueryAt(t, x, q), q.functions # <<>>
  PROVE  \E y \in Nat \ {0} : FunctionsAt(t, x, q, y)
<1> DEFINE e == Explained(q)[0]
           a == q.text
           b == FunctionsNode(q.functions)
<1>1. /\ Tree(a) /\ Len(a) \in Nat /\ Len(a) >= 1 /\ Forest(a) /\ Value(a) \in Int
      /\ Tree(b) /\ Forest(b) /\ Len(b) \in Nat /\ q.boost \in FunctionScores
  BY QueryShape, TextTree, FunctionsNodeTree, TreeShape
<1>2. PICK v : e = Node(q.boost, None, v, a \o b)
  BY QueryShape
<1>3. PICK y \in Nat \ {0}, d \in Nat :
        /\ Holds(t, y, d, e) /\ t[x].value = Value(e) /\ x \in 1 .. Len(t)
        /\ Part(t, x) = x .. y + Len(e) - 1
        /\ y = x \/ (y = x + 1 /\ t[x].kind = "original")
  BY QueryInside
<1> HIDE DEF e, a, b
<1>4. Len(e) = Len(a) + Len(b) + 1 /\ Value(e) = v
  <2>1. Forest(a \o b) /\ Len(a \o b) = Len(a) + Len(b)
    BY <1>1, ForestConcat
  <2>2. PICK u : u = a \o b
    OBVIOUS
  <2>3. Forest(u) /\ Len(u) = Len(a) + Len(b) /\ e = Node(q.boost, None, v, u)
    BY <1>2, <2>1, <2>2
  <2>4. Len(e) = Len(u) + 1
    BY <2>3, NodeTree
  <2>5. Value(e) = v
    BY <2>3, NodeValue
  <2>6. QED
    BY <1>1, <2>3, <2>4, <2>5
<1>5. Part(t, x) = x .. y + Len(a) + Len(b)
  <2>1. y + Len(e) - 1 = y + Len(a) + Len(b)
    BY <1>1, <1>4
  <2>2. QED
    BY <1>3, <2>1
<1>6. /\ Details(t, y) = {y + 1, y + 1 + Len(a)}
      /\ Holds(t, y + 1, d + 1, a) /\ Holds(t, y + 1 + Len(a), d + 1, b)
      /\ t[y].kind = q.boost /\ t[y].value = v
  <2>1. Holds(t, y, d, Node(q.boost, None, v, a \o b))
    BY <1>2, <1>3
  <2>2. Tree(a) /\ Tree(b)
    BY <1>1
  <2>3. /\ Details(t, y) = {y + 1, y + 1 + Len(a)}
        /\ Holds(t, y + 1, d + 1, a) /\ Holds(t, y + 1 + Len(a), d + 1, b)
    BY <2>1, <2>2, DetailsOfTwo
  <2>4. t[y].kind = q.boost /\ t[y].value = v
    BY <2>1, <2>2, RootOfTwo
  <2>5. QED
    BY <2>3, <2>4
<1>7. FindKind(t, x, FunctionScores) = y
  <2>1. y \in Part(t, x) /\ Part(t, x) \subseteq Int
    BY <1>1, <1>3, <1>5
  <2>2. ASSUME NEW j \in Part(t, x), t[j].kind \in FunctionScores PROVE y <= j
    <3>1. "original" \notin FunctionScores
      BY DEF FunctionScores
    <3>2. QED
      BY <1>1, <1>3, <1>5, <2>2, <3>1
  <2>3. t[y].kind \in FunctionScores
    BY <1>1, <1>6
  <2>4. QED
    BY <2>1, <2>2, <2>3, FindKindIs
<1>8. First(Details(t, y)) = y + 1
  <2>1. /\ Details(t, y) \subseteq Int /\ y + 1 \in Details(t, y)
        /\ \A j \in Details(t, y) : y + 1 <= j
    BY <1>1, <1>6
  <2>2. QED
    BY <2>1, FirstIs
<1>9. t[y + 1].value = Value(a)
  <2>1. (y + 1) + 1 - 1 = y + 1 /\ 1 \in 1 .. Len(a)
    BY <1>1
  <2>2. SameNode(t[y + 1], a[1])
    BY <1>6, <2>1 DEF Holds
  <2>3. QED
    BY <2>2 DEF SameNode, Value
<1>10. OriginalText(t, x) = Value(a) /\ OriginalText(t, x) # None
  <2>1. y # None /\ y + 1 # None /\ Value(a) # None
    BY <1>1, SearchesAssumption
  <2>2. OriginalText(t, x) = ValueOf(t, y + 1)
    BY <1>7, <1>8, <2>1 DEF OriginalText
  <2>3. QED
    BY <1>9, <2>1, <2>2 DEF ValueOf
<1>11. d + 1 \in Nat
  OBVIOUS
<1>12. FunctionsAt(t, x, q, y)
  BY <1>3, <1>4, <1>5, <1>6, <1>7, <1>10, <1>11 DEF FunctionsAt, a, b, e
<1>13. QED
  BY <1>12

-----------------------------------------------------------------------------
(* The timeline.                                                             *)

(* A first part, steps and a last element. *)
ThreeParts(a, s, c) == a \o s \o <<c>>

LEMMA InThreeParts ==
  ASSUME NEW a, NEW s, NEW c, IsSequence(a), IsSequence(s)
  PROVE  /\ IsSequence(ThreeParts(a, s, c)) /\ Len(a) \in Nat /\ Len(s) \in Nat
         /\ Len(ThreeParts(a, s, c)) = Len(a) + Len(s) + 1
         /\ \A i \in 1 .. Len(a) : ThreeParts(a, s, c)[i] = a[i]
         /\ \A i \in 1 .. Len(s) : ThreeParts(a, s, c)[Len(a) + i] = s[i]
         /\ ThreeParts(a, s, c)[Len(a) + Len(s) + 1] = c
<1> DEFINE S == ToSet(a) \cup ToSet(s)
           T == S \cup {c}
           b == a \o s
           line == b \o <<c>>
<1>1. line = ThreeParts(a, s, c)
  BY DEF ThreeParts
<1>2. a \in Seq(S) /\ s \in Seq(S) /\ Len(a) \in Nat /\ Len(s) \in Nat
  BY SeqWidened DEF IsSequence
<1> HIDE DEF S
<1>3. /\ b \in Seq(S) /\ Len(b) = Len(a) + Len(s)
      /\ \A i \in 1 .. Len(a) + Len(s) : b[i] = IF i <= Len(a) THEN a[i] ELSE s[i - Len(a)]
  BY <1>2, ConcatProperties
<1> HIDE DEF b
<1>4. b \in Seq(T) /\ <<c>> \in Seq(T) /\ Len(<<c>>) = 1 /\ <<c>>[1] = c
  <2>1. b \in Seq(T)
    BY <1>3, SeqWidened
  <2>2. c \in T
    OBVIOUS
  <2>3. <<c>> \in Seq(T)
    <3> HIDE DEF T
    <3>1. QED
      BY <2>2
  <2>4. QED
    BY <2>1, <2>3
<1> HIDE DEF T
<1>5. /\ line \in Seq(T) /\ Len(line) = Len(b) + 1
      /\ \A i \in 1 .. Len(b) + 1 : line[i] = IF i <= Len(b) THEN b[i] ELSE <<c>>[i - Len(b)]
  <2>1. /\ line \in Seq(T) /\ Len(line) = Len(b) + Len(<<c>>)
        /\ \A i \in 1 .. Len(b) + Len(<<c>>) :
             line[i] = IF i <= Len(b) THEN b[i] ELSE <<c>>[i - Len(b)]
    BY <1>4, ConcatProperties
  <2>2. QED
    BY <1>4, <2>1
<1> HIDE DEF line
<1>6. \A i \in 1 .. Len(b) : line[i] = b[i]
  BY <1>2, <1>3, <1>5
<1>7. ASSUME NEW i \in 1 .. Len(a) PROVE line[i] = a[i]
  BY <1>2, <1>3, <1>6
<1>8. ASSUME NEW i \in 1 .. Len(s) PROVE line[Len(a) + i] = s[i]
  <2>1. Len(a) + i \in 1 .. Len(b) /\ ~(Len(a) + i <= Len(a)) /\ Len(a) + i - Len(a) = i
    BY <1>2, <1>3
  <2>2. b[Len(a) + i] = s[i]
    BY <1>3, <2>1
  <2>3. QED
    BY <1>6, <2>1, <2>2
<1>9. line[Len(a) + Len(s) + 1] = c
  <2>1. /\ Len(b) + 1 \in 1 .. Len(b) + 1 /\ ~(Len(b) + 1 <= Len(b)) /\ Len(b) + 1 - Len(b) = 1
        /\ Len(a) + Len(s) + 1 = Len(b) + 1
    BY <1>2, <1>3
  <2>2. line[Len(b) + 1] = <<c>>[Len(b) + 1 - Len(b)]
    BY <1>5, <2>1
  <2>3. QED
    BY <1>4, <2>1, <2>2
<1>10. Len(line) = Len(a) + Len(s) + 1 /\ IsSequence(line)
  BY <1>2, <1>3, <1>5, OwnSeq DEF IsSequence
<1>11. QED
  BY <1>1, <1>2, <1>7, <1>8, <1>9, <1>10

(* What the timeline shows before the steps of the rescores. *)
QueryCards(t, hit) ==
  LET text == OriginalText(t, hit.query)
  IN  IF text = None THEN <<Card(t[hit.query].value)>>
      ELSE <<Card(text), Boost(t, hit.query, text)>>

StepCards(t, hit) == [k \in DOMAIN hit.steps |-> TimelineStep(t, hit.steps[k])]

LEMMA TimelineParts ==
  ASSUME NEW t, NEW total
  PROVE  Timeline(t, total)
           = ThreeParts(QueryCards(t, Traverse(t)), StepCards(t, Traverse(t)), Card(total))
BY DEF Timeline, QueryCards, StepCards, ThreeParts

LEMMA QueryCardsShown ==
  ASSUME NEW q \in Searches, NEW t, Forest(t), NEW hit, QueryAt(t, hit.query, q)
  PROVE  /\ IsSequence(QueryCards(t, hit)) /\ Len(QueryCards(t, hit)) = Skipped(q)
         /\ QueryCards(t, hit)[1].value = Value(q.text)
         /\ QueryCards(t, hit)[Skipped(q)].value = Value(Explained(q)[0])
         /\ Skipped(q) = 2 => QueryCards(t, hit)[2] = Boost(t, hit.query, Value(q.text))
<1> DEFINE x == hit.query
           c == QueryCards(t, hit)
<1>1. \A v : Card(v).value = v
  BY DEF Card
<1>2. CASE q.functions = <<>>
  <2>1. OriginalText(t, x) = None /\ t[x].value = Value(q.text)
    BY <1>2, TextOfQuery
  <2>2. Explained(q)[0] = q.text
    BY <1>2, QueryShape
  <2>3. Skipped(q) = 1
    BY <1>2 DEF Skipped
  <2>4. c = <<Card(t[x].value)>>
    BY <2>1 DEF QueryCards
  <2>5. IsSequence(c) /\ Len(c) = 1 /\ c[1] = Card(t[x].value)
    <3>1. PICK z : z = Card(t[x].value)
      OBVIOUS
    <3>2. <<z>> \in Seq({z}) /\ Len(<<z>>) = 1 /\ <<z>>[1] = z
      OBVIOUS
    <3>3. IsSequence(<<z>>)
      BY <3>2, OwnSeq DEF IsSequence
    <3> HIDE DEF c
    <3>4. QED
      BY <2>4, <3>1, <3>2, <3>3
  <2> HIDE DEF c
  <2>6. QED
    BY <1>1, <2>1, <2>2, <2>3, <2>5 DEF c
<1>3. CASE q.functions # <<>>
  <2>1. /\ OriginalText(t, x) = Value(q.text) /\ OriginalText(t, x) # None
        /\ t[x].value = Value(Explained(q)[0])
    <3>1. QueryAt(t, x, q)
      OBVIOUS
    <3> HIDE DEF x
    <3>2. PICK y \in Nat \ {0} : FunctionsAt(t, x, q, y)
      BY <1>3, <3>1, TextOfFunctions
    <3>3. QED
      BY <3>2 DEF FunctionsAt
  <2>2. Skipped(q) = 2
    BY <1>3 DEF Skipped
  <2>3. PICK z, w : z = Card(Value(q.text)) /\ w = Boost(t, x, Value(q.text))
    OBVIOUS
  <2>4. c = <<z, w>>
    BY <2>1, <2>3 DEF QueryCards
  <2>5. w.value = Value(Explained(q)[0])
    BY <2>1, <2>3 DEF Boost
  <2>6. IsSequence(c) /\ Len(c) = 2 /\ c[1] = z /\ c[2] = w
    <3>1. <<z, w>> \in Seq({z, w}) /\ Len(<<z, w>>) = 2 /\ <<z, w>>[1] = z /\ <<z, w>>[2] = w
      OBVIOUS
    <3>2. IsSequence(<<z, w>>)
      BY <3>1, OwnSeq DEF IsSequence
    <3> HIDE DEF c
    <3>3. QED
      BY <2>4, <3>1, <3>2
  <2> HIDE DEF c
  <2>7. QED
    BY <1>1, <2>2, <2>3, <2>5, <2>6 DEF c
<1>4. QED
  BY <1>2, <1>3

LEMMA StepCardsShown ==
  ASSUME NEW q \in Searches, NEW t, NEW hit, NEW n, Totals(t, q, n, hit)
  PROVE  /\ IsSequence(StepCards(t, hit)) /\ Len(StepCards(t, hit)) = n /\ n \in Nat
         /\ \A k \in 1 .. n : /\ StepCards(t, hit)[k] = TimelineStep(t, hit.steps[k])
                              /\ StepCards(t, hit)[k].value = Value(Explained(q)[k])
<1> DEFINE c == StepCards(t, hit)
<1>1. n \in Nat /\ DOMAIN hit.steps = 1 .. n
  BY DEF Totals, IsSequence
<1>2. c = [k \in 1 .. n |-> TimelineStep(t, hit.steps[k])]
  BY <1>1 DEF StepCards
<1>3. c \in [1 .. n -> ToSet(c)] /\ \A k \in 1 .. n : c[k] = TimelineStep(t, hit.steps[k])
  <2> HIDE DEF c
  <2>1. QED
    BY <1>2 DEF ToSet
<1> HIDE DEF c
<1>4. IsSequence(c) /\ Len(c) = n
  BY <1>1, <1>3 DEF IsSequence
<1>5. ASSUME NEW k \in 1 .. n PROVE c[k].value = Value(Explained(q)[k])
  <2>1. hit.steps[k].total = Value(Explained(q)[k])
    BY DEF Totals
  <2>2. TimelineStep(t, hit.steps[k]).value = hit.steps[k].total
    BY DEF TimelineStep
  <2>3. QED
    BY <1>3, <2>1, <2>2
<1>6. QED
  BY <1>1, <1>3, <1>4, <1>5 DEF c

(* The scores of the timeline are those the hit went through. *)
LEMMA TimelineShown ==
  ASSUME NEW q \in Searches, NEW line, line = Timeline(Explain(q), Value(Explain(q))),
         NEW b, b = Skipped(q), NEW n, n = Len(Reached(q))
  PROVE  /\ Len(line) = b + n + 1
         /\ line[1].value = Value(q.text)
         /\ \A i \in 0 .. n : line[b + i].value = Value(Explained(q)[i])
         /\ line[b + n + 1].value = Value(Explain(q))
<1> DEFINE t == Explain(q)
           hit == Traverse(t)
           a == QueryCards(t, hit)
           s == StepCards(t, hit)
           c == Card(Value(t))
<1>1. Tree(t) /\ Forest(t) /\ Totals(t, q, n, hit) /\ QueryAt(t, hit.query, q)
  BY Traversed DEF Tree, Totals
<1>2. line = ThreeParts(a, s, c)
  BY TimelineParts
<1> HIDE DEF t, hit
<1>3. /\ IsSequence(a) /\ Len(a) = b /\ a[1].value = Value(q.text)
      /\ a[b].value = Value(Explained(q)[0])
  BY <1>1, QueryCardsShown
<1>4. /\ IsSequence(s) /\ Len(s) = n /\ n \in Nat
      /\ \A k \in 1 .. n : s[k].value = Value(Explained(q)[k])
  BY <1>1, StepCardsShown
<1>5. c.value = Value(t)
  BY DEF Card
<1>6. b \in 1 .. 2
  BY DEF Skipped
<1> HIDE DEF a, s, c
<1>7. /\ Len(line) = b + n + 1
      /\ \A i \in 1 .. b : line[i] = a[i]
      /\ \A i \in 1 .. n : line[b + i] = s[i]
      /\ line[b + n + 1] = c
  <2>1. /\ Len(line) = Len(a) + Len(s) + 1
        /\ \A i \in 1 .. Len(a) : line[i] = a[i]
        /\ \A i \in 1 .. Len(s) : line[Len(a) + i] = s[i]
        /\ line[Len(a) + Len(s) + 1] = c
    <3>1. IsSequence(a) /\ IsSequence(s)
      BY <1>3, <1>4
    <3>2. /\ Len(ThreeParts(a, s, c)) = Len(a) + Len(s) + 1
          /\ \A i \in 1 .. Len(a) : ThreeParts(a, s, c)[i] = a[i]
          /\ \A i \in 1 .. Len(s) : ThreeParts(a, s, c)[Len(a) + i] = s[i]
          /\ ThreeParts(a, s, c)[Len(a) + Len(s) + 1] = c
      BY <3>1, InThreeParts
    <3>3. QED
      BY <1>2, <3>2, Zenon
  <2>2. Len(a) = b /\ Len(s) = n
    BY <1>3, <1>4
  <2>3. QED
    BY <2>1, <2>2
<1>8. line[1].value = Value(q.text)
  BY <1>3, <1>6, <1>7
<1>9. ASSUME NEW i \in 0 .. n PROVE line[b + i].value = Value(Explained(q)[i])
  <2>1. CASE i = 0
    BY <1>3, <1>6, <1>7, <2>1
  <2>2. CASE i # 0
    <3>1. i \in 1 .. n
      BY <1>4, <2>2
    <3>2. QED
      BY <1>4, <1>7, <3>1
  <2>3. QED
    BY <2>1, <2>2
<1>10. QED
  BY <1>5, <1>7, <1>8, <1>9 DEF t

-----------------------------------------------------------------------------
(* What the steps say.                                                       *)

LEMMA ProductChosen ==
  ASSUME NEW fns
  PROVE  ProductOf(fns) = (CHOOSE p : p = [i \in 0 .. Len(fns) |->
           IF i = 0 THEN 1 ELSE p[i - 1] * fns[i].score])[Len(fns)]
BY DEF ProductOf

(* The product of the functions' scores is an integer. *)
LEMMA ProductInt ==
  ASSUME NEW fns, Len(fns) \in Nat, \A k \in 1 .. Len(fns) : fns[k].score \in Int
  PROVE  ProductOf(fns) \in Int
<1> DEFINE n == Len(fns)
           Is(p, m) == p = [i \in 0 .. m |-> IF i = 0 THEN 1 ELSE p[i - 1] * fns[i].score]
           G == {m \in 0 .. n : \E p : Is(p, m) /\ \A i \in 0 .. m : p[i] \in Int}
<1>1. n \in Nat
  OBVIOUS
<1>2. 0 \in G
  <2> DEFINE p == [i \in 0 .. 0 |-> 1]
  <2>1. \A i \in 0 .. 0 : i = 0
    OBVIOUS
  <2>2. Is(p, 0) /\ \A i \in 0 .. 0 : p[i] \in Int
    BY <2>1
  <2> HIDE DEF Is, p
  <2>3. QED
    BY <1>1, <2>2
<1>3. ASSUME NEW m \in 0 .. n, m \in G, m < n PROVE m + 1 \in G
  <2>1. PICK p : Is(p, m) /\ \A i \in 0 .. m : p[i] \in Int
    BY <1>3
  <2> DEFINE g == [i \in 0 .. m + 1 |-> IF i = m + 1 THEN p[m] * fns[m + 1].score ELSE p[i]]
  <2>2. /\ \A i \in 0 .. m : i \in 0 .. m + 1 /\ i # m + 1 /\ g[i] = p[i]
        /\ g[m + 1] = p[m] * fns[m + 1].score /\ m \in 0 .. m /\ m + 1 \in 1 .. n
    BY <1>1, <1>3
  <2>3. ASSUME NEW i \in 0 .. m + 1 PROVE g[i] = IF i = 0 THEN 1 ELSE g[i - 1] * fns[i].score
    <3>1. CASE i = m + 1
      <4>1. i # 0 /\ i - 1 = m
        BY <1>1, <3>1
      <4>2. QED
        BY <2>2, <3>1, <4>1
    <3>2. CASE i # m + 1
      <4>1. i \in 0 .. m
        BY <1>1, <3>2
      <4>2. p[i] = IF i = 0 THEN 1 ELSE p[i - 1] * fns[i].score
        BY <2>1, <4>1
      <4>3. i # 0 => i - 1 \in 0 .. m
        BY <1>1, <4>1
      <4> HIDE DEF g
      <4>4. QED
        BY <2>2, <4>1, <4>2, <4>3
    <3>3. QED
      BY <3>1, <3>2
  <2>4. Is(g, m + 1)
    <3>1. g = [i \in 0 .. m + 1 |-> g[i]]
      OBVIOUS
    <3> HIDE DEF g
    <3>2. QED
      BY <2>3, <3>1
  <2>5. \A i \in 0 .. m + 1 : g[i] \in Int
    <3>1. p[m] * fns[m + 1].score \in Int
      BY <2>1, <2>2
    <3>2. QED
      BY <2>1, <3>1
  <2>6. m + 1 \in 0 .. n
    BY <1>1, <1>3
  <2> HIDE DEF Is, g
  <2>7. QED
    BY <2>4, <2>5, <2>6
<1>4. n \in G
  <2> HIDE DEF G, n
  <2>1. \A i \in 0 .. n : i \in G /\ i < n => i + 1 \in G
    BY <1>3
  <2>2. 0 .. n \subseteq G
    BY <1>1, <1>2, <2>1, InductionTo
  <2>3. QED
    BY <1>1, <2>2
<1>5. PICK p : Is(p, n) /\ \A i \in 0 .. n : p[i] \in Int
  BY <1>4
<1> DEFINE c == CHOOSE p_1 : Is(p_1, n)
<1>6. Is(c, n)
  <2> HIDE DEF Is
  <2>1. QED
    BY <1>5
<1>7. ProductOf(fns) = c[n]
  BY ProductChosen
<1> HIDE DEF c
<1>8. c = p
  <2> DEFINE H == {i \in 0 .. n : c[i] = p[i]}
  <2>1. /\ \A i \in 0 .. n : c[i] = IF i = 0 THEN 1 ELSE c[i - 1] * fns[i].score
        /\ \A i \in 0 .. n : p[i] = IF i = 0 THEN 1 ELSE p[i - 1] * fns[i].score
        /\ DOMAIN c = 0 .. n /\ DOMAIN p = 0 .. n
        /\ c = [i \in 0 .. n |-> c[i]] /\ p = [i \in 0 .. n |-> p[i]]
    BY <1>5, <1>6
  <2> HIDE DEF n
  <2>2. 0 \in H
    <3>1. 0 \in 0 .. n
      BY <1>1
    <3>2. c[0] = 1 /\ p[0] = 1
      BY <2>1, <3>1
    <3>3. QED
      BY <3>1, <3>2
  <2>3. ASSUME NEW i \in 0 .. n, i \in H, i < n PROVE i + 1 \in H
    <3>1. i + 1 \in 0 .. n /\ i + 1 # 0 /\ (i + 1) - 1 = i
      BY <1>1, <2>3
    <3>2. c[i + 1] = c[i] * fns[i + 1].score /\ p[i + 1] = p[i] * fns[i + 1].score
      BY <2>1, <3>1
    <3>3. QED
      BY <2>3, <3>1, <3>2
  <2>4. 0 .. n \subseteq H
    <3> HIDE DEF H
    <3>1. QED
      BY <1>1, <2>2, <2>3, InductionTo
  <2>5. QED
    BY <2>1, <2>4
<1>9. QED
  BY <1>1, <1>5, <1>7, <1>8

(* The functions' node has the product of their scores, or one without any.  *)
LEMMA FunctionsScore ==
  ASSUME NEW fns, AreFunctions(fns)
  PROVE  /\ Value(FunctionsNode(fns)) \in Int
         /\ Applying(fns) = <<>> => FunctionsNode(fns) = Node("constant", None, 1, <<>>)
         /\ Applying(fns) # <<>> =>
              \E u : /\ Forest(u)
                     /\ FunctionsNode(fns)
                          = Node("function_mode", None, ProductOf(Applying(fns)), u)
<1> DEFINE a == Applying(fns)
           s == [i \in DOMAIN a |-> FunctionNode(a[i])]
           u == FlattenSeq(s)
<1>1. /\ a \in Seq(ToSet(fns)) /\ Len(a) \in Nat
      /\ \A k \in 1 .. Len(a) : a[k].kind \in FunctionKinds /\ a[k].score \in Int
  BY ApplyingShape
<1>2. FunctionsNode(fns) = IF a = <<>> THEN Leaf("constant", 1)
                           ELSE Node("function_mode", None, ProductOf(a), u)
  BY DEF FunctionsNode
<1>3. ProductOf(a) \in Int
  <2> HIDE DEF a
  <2>1. QED
    BY <1>1, ProductInt
<1>4. Forest(<<>>)
  BY DEF Forest, ToSet
<1> HIDE DEF a
<1>5. CASE a = <<>>
  <2>1. FunctionsNode(fns) = Node("constant", None, 1, <<>>)
    BY <1>2, <1>5 DEF Leaf
  <2>2. Value(FunctionsNode(fns)) = 1
    BY <1>4, <2>1, NodeValue
  <2>3. QED
    BY <1>5, <2>1, <2>2 DEF a
<1>6. CASE a # <<>>
  <2>1. DOMAIN a = 1 .. Len(a) /\ Len(a) # 0
    BY <1>1, <1>6
  <2>2. Len(s) = Len(a) /\ \A i \in 1 .. Len(a) : s[i] = FunctionNode(a[i])
    BY <1>1, <2>1
  <2>3. \A i \in 1 .. Len(s) : Forest(s[i]) /\ Of(s[i], PlainKinds)
    <3> HIDE DEF s
    <3>1. QED
      BY <1>1, <2>2, FunctionNodeTree DEF Tree
  <2> HIDE DEF s
  <2>4. Forest(u)
    BY <1>1, <2>1, <2>2, <2>3, FlattenOf
  <2> HIDE DEF u
  <2>5. FunctionsNode(fns) = Node("function_mode", None, ProductOf(a), u)
    BY <1>2, <1>6
  <2>6. Value(FunctionsNode(fns)) = ProductOf(a)
    BY <2>4, <2>5, NodeValue
  <2>7. QED
    BY <1>3, <1>6, <2>4, <2>5, <2>6 DEF a
<1>7. QED
  BY <1>5, <1>6

(* The first position of a held tree has the score of its first node. *)
LEMMA HeldValue ==
  ASSUME NEW t, NEW x, NEW d, NEW u, Tree(u), Holds(t, x, d, u)
  PROVE  x \in Nat \ {0} /\ t[x].value = Value(u) /\ t[x].kind = u[1].kind
<1>1. 1 \in 1 .. Len(u) /\ x \in Nat \ {0} /\ x + 1 - 1 = x
  BY TreeShape DEF Holds
<1>2. SameNode(t[x], u[1])
  BY <1>1 DEF Holds
<1>3. QED
  BY <1>1, <1>2 DEF SameNode, Value

(* The combined score is what the functions made of their scores. *)
LEMMA CombinedOf ==
  ASSUME NEW q \in Searches, NEW t, Forest(t), NEW x, QueryAt(t, x, q), q.functions # <<>>
  PROVE  CombinedScore(t, x) = Value(FunctionsNode(q.functions))
<1> DEFINE a == q.text
           b == FunctionsNode(q.functions)
<1> HIDE DEF a, b
<1>1. x \in Int
  BY QueryInside
<1>a. PICK y \in Nat \ {0} : FunctionsAt(t, x, q, y)
  BY TextOfFunctions
<1>2. /\ FindKind(t, x, FunctionScores) = y /\ t[y].kind = q.boost
      /\ t[y].value = Value(Explained(q)[0]) /\ t[x].value = Value(Explained(q)[0])
      /\ Details(t, y) = {y + 1, y + 1 + Len(q.text)}
      /\ \E d \in Nat : /\ Holds(t, y + 1, d, q.text)
                        /\ Holds(t, y + 1 + Len(q.text), d, FunctionsNode(q.functions))
      /\ Part(t, x) = x .. y + Len(q.text) + Len(FunctionsNode(q.functions))
      /\ y = x \/ (y = x + 1 /\ t[x].kind = "original")
      /\ OriginalText(t, x) = Value(q.text) /\ OriginalText(t, x) # None
  BY <1>a DEF FunctionsAt
<1> USE DEF a, b
<1>3. PICK d \in Nat : Holds(t, y + 1, d, a) /\ Holds(t, y + 1 + Len(a), d, b)
  BY <1>2
<1>4. /\ Tree(a) /\ Of(a, TextKinds) /\ Tree(b) /\ Len(a) \in Nat /\ Len(a) >= 1
      /\ Len(b) \in Nat /\ Len(b) >= 1
      /\ AreFunctions(q.functions) /\ q.boost # "function_mode"
  BY QueryShape, TextTree, FunctionsNodeTree, TreeShape
<1>5. Part(t, x) = x .. y + Len(a) + Len(b)
  BY <1>2
<1> DEFINE z == y + 1 + Len(a)
<1> HIDE DEF a, b
<1>6. z \in Int /\ y + 1 \in Int /\ y + 1 < z /\ z # None /\ y # None
  <2>1. z \in Nat
    BY <1>4
  <2>2. QED
    BY <1>4, <2>1, InPosition
<1>7. t[z].value = Value(b)
  BY <1>3, <1>4, HeldValue
<1>8. ASSUME NEW j \in Part(t, x), t[j].kind = "function_mode" PROVE z <= j
  <2>1. j \in x .. y + Len(a) + Len(b) /\ x \in Int
    BY <1>1, <1>2, <1>5, <1>8
  <2>2. j # x \/ y = x
    BY <1>2, <1>8
  <2>3. j # y
    BY <1>2, <1>4, <1>8
  <2>4. j >= y + 1
    BY <1>2, <1>4, <2>1, <2>2, <2>3
  <2>5. ASSUME j < z PROVE FALSE
    <3>1. j \in y + 1 .. (y + 1) + Len(a) - 1
      BY <1>4, <2>1, <2>4, <2>5
    <3>2. j - (y + 1) + 1 \in 1 .. Len(a) /\ SameNode(t[j], a[j - (y + 1) + 1])
      <4>1. Forest(t) /\ Tree(a) /\ Holds(t, y + 1, d, a)
        BY <1>3, <1>4
      <4>2. QED
        BY <3>1, <4>1, HeldBelow
    <3>3. t[j].kind \in TextKinds
      BY <1>4, <3>2 DEF SameNode, Of
    <3>4. QED
      BY <1>8, <3>3 DEF TextKinds
  <2>6. QED
    BY <1>6, <2>1, <2>5
<1>9. z \in Part(t, x) /\ Part(t, x) \subseteq Int
  <2>1. x \in Int /\ x <= y
    BY <1>1, <1>2
  <2>2. z \in x .. y + Len(a) + Len(b)
    BY <1>4, <2>1
  <2>3. QED
    BY <1>1, <1>4, <1>5, <2>2
<1> HIDE DEF z
<1>10. CASE Applying(q.functions) = <<>>
  <2>1. b = Node("constant", None, 1, <<>>)
    BY <1>4, <1>10, FunctionsScore DEF b
  <2>2. Len(b) = 1 /\ b[1].kind = "constant"
    <3>1. "constant" \in {"constant"}
      OBVIOUS
    <3>2. Tree(b) /\ Of(b, {"constant"}) /\ Len(b) = 1
      BY <2>1, <3>1, LeafTree
    <3>3. QED
      BY <3>2 DEF Of
  <2>3. t[z].kind = "constant"
    BY <1>3, <1>4, <2>2, HeldValue DEF z
  <2>4. ASSUME NEW j \in Part(t, x) PROVE t[j].kind \notin {"function_mode"}
    <3>1. ASSUME t[j].kind = "function_mode" PROVE FALSE
      <4>1. z <= j /\ j <= z
        <5>1. j <= y + Len(a) + Len(b)
          BY <1>1, <1>4, <1>5, <2>4
        <5>2. QED
          BY <1>4, <1>8, <2>2, <2>4, <3>1, <5>1 DEF z
      <4>2. j = z
        BY <1>6, <1>9, <4>1
      <4>3. QED
        BY <2>3, <3>1, <4>2
    <3>2. QED
      BY <3>1
  <2>5. FindKind(t, x, {"function_mode"}) = None
    BY <2>4, FindKindOfNone
  <2>6. Listed(Details(t, y)) = <<y + 1, z>>
    BY <1>2, <1>6, ListedTwo DEF z, a
  <2>7. Len(<<y + 1, z>>) >= 2 /\ <<y + 1, z>>[2] = z
    OBVIOUS
  <2>8. QED
    BY <1>2, <1>6, <1>7, <2>5, <2>6, <2>7 DEF CombinedScore, b
<1>11. CASE Applying(q.functions) # <<>>
  <2>1. PICK u : Forest(u) /\ b = Node("function_mode", None, ProductOf(Applying(q.functions)), u)
    BY <1>4, <1>11, FunctionsScore DEF b
  <2>2. t[z].kind = "function_mode"
    BY <1>3, <2>1, HoldsDetails DEF z
  <2>3. FindKind(t, x, {"function_mode"}) = z
    BY <1>8, <1>9, <2>2, FindKindIs
  <2>4. QED
    BY <1>6, <1>7, <2>3 DEF CombinedScore, b
<1>12. QED
  BY <1>10, <1>11

BoostKinds ==
  {"function_product", "function_sum", "function_min", "function_max", "function_replace"}

(* The scores of the query in its detail, and the step of the functions.     *)
LEMMA QueryScores ==
  ASSUME NEW q \in Searches, q.functions # <<>>, NEW t, t = Explain(q),
         NEW a, a = Value(q.text), NEW f, f = Value(FunctionsNode(q.functions)),
         NEW d, d = QueryDetail(t, q)
  PROVE  d.original = a /\ d.combined = f /\ d.final = BoostedValue(q.boost, a, f)
<1> DEFINE x == Traverse(t).query
<1>1. Forest(t) /\ QueryAt(t, x, q)
  BY Traversed DEF Tree, Totals
<1>2. d.original = IF OriginalText(t, x) = None THEN t[x].value ELSE OriginalText(t, x)
  BY DEF QueryDetail
<1>3. d.final = t[x].value
  BY DEF QueryDetail
<1>b. CombinedScore(t, x) # None => d.combined = CombinedScore(t, x)
  BY Zenon DEF QueryDetail
<1> HIDE DEF x
<1>4. /\ OriginalText(t, x) = a /\ OriginalText(t, x) # None
      /\ t[x].value = Value(Explained(q)[0])
  <2>1. PICK y \in Nat \ {0} : FunctionsAt(t, x, q, y)
    BY <1>1, TextOfFunctions
  <2>2. QED
    BY <2>1 DEF FunctionsAt
<1>5. CombinedScore(t, x) = f
  BY <1>1, CombinedOf
<1>6. Value(Explained(q)[0]) = BoostedValue(q.boost, a, f)
  <2> DEFINE v == BoostedValue(q.boost, a, f)
             u == q.text \o FunctionsNode(q.functions)
  <2>1. Explained(q)[0] = Node(q.boost, None, v, u)
    BY QueryShape
  <2>2. Forest(u)
    BY QueryShape, TextTree, FunctionsNodeTree, ForestConcat DEF Tree
  <2> HIDE DEF u, v
  <2>3. Value(Explained(q)[0]) = v
    BY <2>1, <2>2, NodeValue
  <2>4. QED
    BY <2>3 DEF v
<1>7. f # None
  BY QueryShape, FunctionsScore, SearchesAssumption
<1>8. d.combined = f
  BY <1>b, <1>5, <1>7
<1>9. QED
  BY <1>2, <1>3, <1>4, <1>6, <1>8

LEMMA BoostKind ==
  ASSUME NEW q \in Searches PROVE q.boost \in BoostKinds
BY QueryShape DEF FunctionScores, BoostKinds

LEMMA BoostSays ==
  ASSUME NEW q \in Searches, q.functions # <<>>, NEW t, Forest(t), NEW x, QueryAt(t, x, q),
         NEW a, a = Value(q.text), a # 0, NEW f, f = Value(FunctionsNode(q.functions)),
         NEW v, v = Value(Explained(q)[0]), NEW step, step = Boost(t, x, a)
  PROVE  /\ q.boost = "function_product" => step.operator = "*" /\ step.operand = <<v, a>>
         /\ q.boost = "function_sum" => step.operator = "+" /\ step.operand = v - a
         /\ q.boost \notin {"function_product", "function_sum"} =>
              step.operator \in {"min", "max", "->"} /\ step.operand = v
<1> DEFINE kind == t[FindKind(t, x, FunctionScores)].kind
           op == CASE kind = "function_sum" -> "+"
                   [] kind = "function_min" -> "min"
                   [] kind = "function_max" -> "max"
                   [] kind = "function_replace" -> "->"
                   [] OTHER -> "*"
<1>1. kind = q.boost /\ t[x].value = v
  <2> HIDE DEF kind, op
  <2>1. PICK y \in Nat \ {0} : FunctionsAt(t, x, q, y)
    BY TextOfFunctions
  <2>2. /\ FindKind(t, x, FunctionScores) = y /\ t[y].kind = q.boost
        /\ t[x].value = Value(Explained(q)[0])
    BY <2>1 DEF FunctionsAt
  <2>3. QED
    BY <2>2 DEF kind
<1>2. /\ step.operator = op
      /\ step.operand = CASE op = "*" -> IF a = 0 THEN <<1, 1>> ELSE <<t[x].value, a>>
                          [] op = "+" -> t[x].value - a
                          [] OTHER -> t[x].value
  BY Zenon DEF Boost
<1>3. /\ q.boost = "function_product" => op = "*"
      /\ q.boost = "function_sum" => op = "+"
      /\ q.boost = "function_min" => op = "min"
      /\ q.boost = "function_max" => op = "max"
      /\ q.boost = "function_replace" => op = "->"
  <2> HIDE DEF kind
  <2>1. QED
    BY <1>1, Zenon
<1> HIDE DEF op, kind
<1>4. /\ op = "*" => step.operand = <<v, a>>
      /\ op = "+" => step.operand = v - a
      /\ op = "min" \/ op = "max" \/ op = "->" => step.operand = v
  BY <1>1, <1>2, Zenon
<1>5. q.boost \in BoostKinds
  BY BoostKind
<1>6. QED
  BY <1>2, <1>3, <1>4, <1>5 DEF BoostKinds

LEMMA BoostedValueIs ==
  ASSUME NEW kind \in BoostKinds, NEW a, NEW f, NEW v, v = BoostedValue(kind, a, f)
  PROVE  /\ kind = "function_product" => v = a * f
         /\ kind = "function_sum" => v = a + f
         /\ kind \notin {"function_product", "function_sum"} => v \in {a, f}
<1>1. /\ kind = "function_product" => v = a * f
      /\ kind = "function_sum" => v = a + f
      /\ kind = "function_max" => v = Larger(a, f)
      /\ kind = "function_min" => v = Smaller(a, f)
      /\ kind = "function_replace" => v = f
  BY DEF BoostedValue
<1>2. Larger(a, f) \in {a, f} /\ Smaller(a, f) \in {a, f}
  BY DEF Larger, Smaller
<1>3. QED
  BY <1>1, <1>2 DEF BoostKinds

LEMMA QueryComposedShown ==
  ASSUME search \in Searches, detail = DetailOf(search)
  PROVE  QueryComposed
<1> SUFFICES ASSUME search.functions # <<>> PROVE QueryComposed
  BY DEF QueryComposed
<1> DEFINE d == detail.query
           a == Value(search.text)
           f == Value(FunctionsNode(search.functions))
           kind == search.boost
<1>1. d = QueryDetail(Explain(search), search)
  BY DEF DetailOf
<1> HIDE DEF d, a, f, kind
<1>2. d.original = a /\ d.combined = f /\ d.final = BoostedValue(kind, a, f)
  BY <1>1, QueryScores DEF a, f, kind
<1>3. kind \in BoostKinds
  BY BoostKind DEF kind
<1>4. /\ kind = "function_product" => d.original * d.combined = d.final
      /\ kind = "function_sum" => d.original + d.combined = d.final
      /\ kind \notin {"function_product", "function_sum"} => d.final \in {d.original, d.combined}
  BY <1>2, <1>3, BoostedValueIs
<1>5. (CASE kind = "function_product" -> d.original * d.combined = d.final
         [] kind = "function_sum"     -> d.original + d.combined = d.final
         [] OTHER                     -> d.final \in {d.original, d.combined})
  BY <1>4, Zenon
<1>6. QED
  BY <1>5, Zenon DEF QueryComposed, d, kind

LEMMA BoostExplainedShown ==
  ASSUME search \in Searches, search.functions # <<>>, NEW t, Forest(t), NEW x,
         QueryAt(t, x, search), NEW a, a = Value(search.text), a # 0,
         NEW f, f = Value(FunctionsNode(search.functions)),
         NEW step, step = Boost(t, x, a)
  PROVE  BoostExplained(step, f)
<1> DEFINE v == Value(Explained(search)[0])
           kind == search.boost
<1>1. /\ kind = "function_product" => step.operator = "*" /\ step.operand = <<v, a>>
      /\ kind = "function_sum" => step.operator = "+" /\ step.operand = v - a
      /\ kind \notin {"function_product", "function_sum"} =>
           step.operator \in {"min", "max", "->"} /\ step.operand = v
  <2>1. v = Value(Explained(search)[0])
    OBVIOUS
  <2> HIDE DEF v
  <2>2. kind = "function_product" => step.operator = "*" /\ step.operand = <<v, a>>
    BY <2>1, BoostSays
  <2>3. kind = "function_sum" => step.operator = "+" /\ step.operand = v - a
    BY <2>1, BoostSays
  <2>4. kind \notin {"function_product", "function_sum"} =>
           step.operator \in {"min", "max", "->"} /\ step.operand = v
    BY <2>1, BoostSays
  <2>5. QED
    BY <2>2, <2>3, <2>4
<1>2. kind \in BoostKinds
  BY BoostKind
<1>3. v = BoostedValue(kind, a, f)
  <2> DEFINE u == search.text \o FunctionsNode(search.functions)
             w == BoostedValue(kind, a, f)
  <2>1. Explained(search)[0] = Node(kind, None, w, u)
    BY QueryShape
  <2>2. Forest(u)
    BY QueryShape, TextTree, FunctionsNodeTree, ForestConcat DEF Tree
  <2> HIDE DEF u, w
  <2>3. v = w
    BY <2>1, <2>2, NodeValue
  <2>4. QED
    BY <2>3 DEF w
<1>4. a \in Int /\ f \in Int
  BY QueryShape, TextTree, FunctionsScore
<1>5. kind = "function_product" => step.operand[1] = step.operand[2] * f
  <2> HIDE DEF v, kind
  <2>1. kind = "function_product" => v = a * f /\ step.operand[1] = v /\ step.operand[2] = a
    BY <1>1, <1>2, <1>3, BoostedValueIs
  <2>2. QED
    BY <2>1
<1>6. kind = "function_sum" => step.operand = f
  <2> HIDE DEF v, kind
  <2>1. kind = "function_sum" => v = a + f
    BY <1>2, <1>3, BoostedValueIs
  <2>2. QED
    BY <1>1, <1>4, <2>1
<1>7. /\ step.operator = "*" => kind = "function_product" /\ step.operand[1] = step.operand[2] * f
      /\ step.operator = "+" => kind = "function_sum" /\ step.operand = f
      /\ step.operator \notin {"*", "+"} => step.operand = v
  <2> HIDE DEF v, kind
  <2>1. QED
    BY <1>1, <1>2, <1>5, <1>6 DEF BoostKinds
<1> HIDE DEF v, kind
<1>8. (CASE step.operator = "*" -> /\ kind = "function_product"
                                   /\ step.operand[1] = step.operand[2] * f
         [] step.operator = "+" -> kind = "function_sum" /\ step.operand = f
         [] OTHER               -> step.operand = v)
  BY <1>7, Zenon
<1>9. QED
  BY <1>8, Zenon DEF BoostExplained, v, kind

(* What the mapper finds in the node of a normalizer. *)
LEMMA NormalizerFound ==
  ASSUME NEW t, Forest(t), NEW x, NEW d, NEW e, Tree(e), Of(e, PlainKinds), NEW v,
         Holds(t, x, d, NormalizerNode(e, v))
  PROVE  /\ x \in Nat /\ t[x].value = v
         /\ FindKind(t, x, Normalizers) = x
         /\ FactorApplied(t, x) = v
         /\ NormalizerType(t, x) = "min_max" /\ FactorMode(t, x) = "multiply"
<1> DEFINE a == Original(e)
           b == Leaf("factor", v)
           c == Node("factor_mode", "multiply", v, <<>>)
           z == x + 1 + Len(a)
<1>1. /\ Forest(a) /\ Tree(a) /\ Tree(b) /\ Tree(c) /\ Forest(b) /\ Forest(c) /\ Forest(b \o c)
      /\ Forest(a \o (b \o c)) /\ Len(b) = 1 /\ Len(a) = Len(e) + 1 /\ Len(e) \in Nat
  BY OriginalTree, FactorNodesTree, NormalizedTree, TreeShape DEF FactorNodes, Tree
<1>2. NormalizerNode(e, v) = Node("normalizer", "min_max", v, a \o (b \o c))
  BY DEF NormalizerNode, FactorNodes
<1>3. Len(c) = 1 /\ Len(b \o c) = 2 /\ Len(a \o (b \o c)) = Len(a) + 2
  <2>1. "factor_mode" \in {"factor_mode"}
    OBVIOUS
  <2>2. Len(c) = 1
    BY <2>1, LeafTree
  <2> HIDE DEF a, b, c
  <2>3. Len(b \o c) = 2
    BY <1>1, <2>2, ForestConcat
  <2>4. QED
    BY <1>1, <2>2, <2>3, ForestConcat
<1>4. Tree(NormalizerNode(e, v)) /\ Len(NormalizerNode(e, v)) = Len(a) + 3
  <2> DEFINE u == a \o (b \o c)
  <2>1. /\ Forest(u) /\ Len(u) = Len(a) + 2
        /\ NormalizerNode(e, v) = Node("normalizer", "min_max", v, u)
    BY <1>1, <1>2, <1>3
  <2> HIDE DEF u, a, b, c
  <2>2. Tree(NormalizerNode(e, v)) /\ Len(NormalizerNode(e, v)) = Len(u) + 1
    BY <2>1, NodeTree
  <2>3. QED
    BY <1>1, <2>1, <2>2
<1>5. Part(t, x) = x .. x + Len(a) + 2 /\ x \in Nat \ {0}
  <2>1. Part(t, x) = x .. x + Len(NormalizerNode(e, v)) - 1
    BY <1>4, HeldPart
  <2>2. x \in Nat \ {0}
    BY DEF Holds
  <2> HIDE DEF a
  <2>3. QED
    BY <1>1, <1>4, <2>1, <2>2
<1>6. /\ t[x].kind = "normalizer" /\ t[x].about = "min_max" /\ t[x].value = v
      /\ Holds(t, x + 1, d + 1, a \o (b \o c))
  <2> HIDE DEF a, b, c
  <2>1. QED
    BY <1>1, <1>2, HoldsDetails
<1>7. /\ Holds(t, x + 1, d + 1, a) /\ Holds(t, z, d + 1, b) /\ Holds(t, z + 1, d + 1, c)
  <2> HIDE DEF a, b, c
  <2>1. Holds(t, x + 1, d + 1, a) /\ Holds(t, z, d + 1, b \o c)
    BY <1>1, <1>6, HoldsConcat
  <2> HIDE DEF z
  <2>2. Holds(t, z, d + 1, b) /\ Holds(t, z + Len(b), d + 1, c)
    BY <1>1, <2>1, HoldsConcat
  <2>3. QED
    BY <1>1, <2>1, <2>2
<1>8. t[z].kind = "factor" /\ t[z].value = v
  <2> HIDE DEF z
  <2>1. Holds(t, z, d + 1, Node("factor", None, v, <<>>)) /\ Forest(<<>>)
    BY <1>7 DEF Leaf, Forest, ToSet
  <2>2. QED
    BY <2>1, HoldsDetails
<1>9. t[z + 1].kind = "factor_mode" /\ t[z + 1].about = "multiply"
  <2> HIDE DEF z
  <2>1. Forest(<<>>)
    BY DEF Forest, ToSet
  <2>2. QED
    BY <1>7, <2>1, HoldsDetails
<1>10. ASSUME NEW j \in x + 1 .. z - 1 PROVE t[j].kind \notin {"factor", "factor_mode"}
  <2>1. /\ j \in x + 1 .. (x + 1) + Len(a) - 1
    BY <1>1, <1>5
  <2>2. j - (x + 1) + 1 \in 1 .. Len(a) /\ SameNode(t[j], a[j - (x + 1) + 1])
    <3> HIDE DEF a, z
    <3>1. QED
      BY <1>1, <1>7, <2>1, HeldBelow
  <2>3. Of(a, PlainKinds \cup {"original"})
    <3>1. /\ Of(e, PlainKinds \cup {"original"}) /\ Forest(e)
          /\ "original" \in PlainKinds \cup {"original"}
      BY OfMore DEF Tree
    <3>2. QED
      BY <3>1, NodeOf DEF Original
  <2> HIDE DEF a
  <2>4. t[j].kind \in PlainKinds \cup {"original"}
    BY <2>2, <2>3 DEF SameNode, Of
  <2>5. QED
    BY <2>4 DEF PlainKinds, TextKinds, FunctionScores, FunctionKinds
<1>11. /\ Part(t, x) \subseteq Int /\ x \in Part(t, x) /\ z \in Part(t, x) /\ z + 1 \in Part(t, x)
       /\ z \in Nat /\ Part(t, x) = x .. z + 1
  BY <1>1, <1>5
<1> HIDE DEF a, b, c, z
<1>12. FindKind(t, x, Normalizers) = x /\ FindKind(t, x, {"normalizer"}) = x
  <2>1. \A j \in Part(t, x) : x <= j
    BY <1>5
  <2>2. t[x].kind \in Normalizers /\ t[x].kind \in {"normalizer"}
    BY <1>6 DEF Normalizers
  <2>3. FindKind(t, x, Normalizers) = x
    BY <1>11, <2>1, <2>2, FindKindIs
  <2>4. FindKind(t, x, {"normalizer"}) = x
    BY <1>11, <2>1, <2>2, FindKindIs
  <2>5. QED
    BY <2>3, <2>4
<1>13. FindKind(t, x, {"factor"}) = z
  <2>1. ASSUME NEW j \in Part(t, x), t[j].kind \in {"factor"} PROVE z <= j
    <3>1. j # x
      BY <1>6, <2>1
    <3>2. j \notin x + 1 .. z - 1
      BY <1>10, <2>1
    <3>3. QED
      BY <1>5, <1>11, <3>1, <3>2
  <2>2. t[z].kind \in {"factor"}
    BY <1>8
  <2>3. QED
    BY <1>11, <2>1, <2>2, FindKindIs
<1>14. FindKind(t, x, {"factor_mode"}) = z + 1
  <2>1. ASSUME NEW j \in Part(t, x), t[j].kind \in {"factor_mode"} PROVE z + 1 <= j
    <3>1. j # x /\ j # z
      BY <1>6, <1>8, <2>1
    <3>2. j \notin x + 1 .. z - 1
      BY <1>10, <2>1
    <3>3. QED
      BY <1>5, <1>11, <3>1, <3>2
  <2>2. t[z + 1].kind \in {"factor_mode"}
    BY <1>9
  <2>3. QED
    BY <1>11, <2>1, <2>2, FindKindIs
<1>15. x # None /\ z # None /\ z + 1 # None
  BY <1>5, <1>11, InPosition
<1>16. FactorApplied(t, x) = v
  BY <1>8, <1>13, <1>15 DEF FactorApplied, ValueOf
<1>17. FactorMode(t, x) = "multiply"
  BY <1>9, <1>14, <1>15 DEF FactorMode, AboutOf
<1>18. NormalizerType(t, x) = "min_max"
  BY <1>6, <1>12, <1>15 DEF NormalizerType, AboutOf
<1>19. QED
  BY <1>5, <1>6, <1>12, <1>16, <1>17, <1>18

LEMMA QueryScoreInt ==
  ASSUME NEW q \in Searches PROVE Value(Explained(q)[0]) \in Int
<1>1. CASE q.functions = <<>>
  BY <1>1, QueryShape, TextTree
<1>2. CASE q.functions # <<>>
  <2> DEFINE a == Value(q.text)
             f == Value(FunctionsNode(q.functions))
             v == BoostedValue(q.boost, a, f)
             u == q.text \o FunctionsNode(q.functions)
  <2>1. Explained(q)[0] = Node(q.boost, None, v, u)
    BY <1>2, QueryShape
  <2>2. Forest(u) /\ a \in Int /\ f \in Int /\ q.boost \in BoostKinds
    BY QueryShape, TextTree, FunctionsNodeTree, FunctionsScore, ForestConcat, BoostKind DEF Tree
  <2> HIDE DEF u, a, f
  <2>3. v \in Int
    BY <2>2, BoostedValueIs DEF BoostKinds
  <2> HIDE DEF v
  <2>4. QED
    BY <2>1, <2>2, <2>3, NodeValue
<1>3. QED
  BY <1>1, <1>2

LEMMA NoneApplies == Applying(<<>>) = <<>>
<1>1. AreFunctions(<<>>) /\ ToSet(<<>>) = {}
  BY DEF AreFunctions, IsSequence, ToSet
<1>2. Applying(<<>>) \in Seq({})
  BY <1>1, ApplyingShape
<1>3. QED
  BY <1>2

(* What the mapper finds in the explanation of a rescore query. *)
LEMMA RescoreFound ==
  ASSUME NEW t, Forest(t), NEW x, NEW d, NEW r, IsText(r.text), AreFunctions(r.functions),
         Holds(t, x, d, RescoreQuery(r))
  PROVE  /\ x \in Nat /\ t[x].value = Value(RescoreQuery(r))
         /\ FindKind(t, x, Normalizers) = None
         /\ Applying(r.functions) # <<>> =>
              ValueOf(t, FindKind(t, x, {"function_mode"})) = Value(FunctionsNode(r.functions))
<1> DEFINE u == RescoreQuery(r)
<1>1. Tree(u) /\ Of(u, PlainKinds) /\ Len(u) \in Nat /\ Len(u) >= 1
  BY RescoreQueryTree, TreeShape
<1> HIDE DEF u
<1>2. x \in Nat \ {0} /\ t[x].value = Value(u) /\ t[x].kind = u[1].kind
  BY <1>1, HeldValue DEF u
<1>3. Part(t, x) = x .. x + Len(u) - 1
  BY <1>1, HeldPart DEF u
<1>4. \A j \in Part(t, x) : /\ j - x + 1 \in 1 .. Len(u) /\ SameNode(t[j], u[j - x + 1])
  BY <1>1, <1>3, HeldBelow DEF u
<1>5. FindKind(t, x, Normalizers) = None
  <2>1. ASSUME NEW j \in Part(t, x) PROVE t[j].kind \notin Normalizers
    <3>1. t[j].kind \in PlainKinds
      BY <1>1, <1>4 DEF SameNode, Of
    <3>2. QED
      BY <3>1 DEF PlainKinds, TextKinds, FunctionScores, FunctionKinds, Normalizers
  <2>2. QED
    BY <2>1, FindKindOfNone
<1>6. ASSUME Applying(r.functions) # <<>>
      PROVE  ValueOf(t, FindKind(t, x, {"function_mode"})) = Value(FunctionsNode(r.functions))
  <2> DEFINE a == r.text
             b == FunctionsNode(r.functions)
             w == BoostedValue("function_product", Value(a), Value(b))
             z == x + 1 + Len(a)
  <2>1. /\ Tree(a) /\ Forest(a) /\ Of(a, TextKinds) /\ Tree(b) /\ Forest(b)
        /\ Len(a) \in Nat /\ Len(b) \in Nat /\ Len(b) >= 1
    BY TextTree, FunctionsNodeTree, TreeShape
  <2>2. r.functions # <<>>
    BY <1>6, NoneApplies
  <2>3. u = Node("function_product", None, w, a \o b)
    BY <2>2 DEF u, RescoreQuery, Boosted
  <2>4. PICK v : Forest(v) /\ b = Node("function_mode", None, ProductOf(Applying(r.functions)), v)
    BY <1>6, FunctionsScore
  <2> HIDE DEF a, b, w
  <2>5. /\ Holds(t, x + 1, d + 1, a) /\ Holds(t, z, d + 1, b)
        /\ Part(t, x) = x .. x + Len(a) + Len(b) /\ t[x].kind = "function_product"
    <3>1. Holds(t, x, d, Node("function_product", None, w, a \o b))
      BY <2>3 DEF u
    <3>2. Holds(t, x + 1, d + 1, a) /\ Holds(t, z, d + 1, b)
      BY <2>1, <3>1, DetailsOfTwo
    <3>3. Part(t, x) = x .. x + Len(a) + Len(b) /\ t[x].kind = "function_product"
      BY <2>1, <3>1, DetailsOfTwo
    <3>4. QED
      BY <3>2, <3>3
  <2>6. z \in Part(t, x) /\ Part(t, x) \subseteq Int /\ z # None
    <3>1. z \in Nat /\ z \in x .. x + Len(a) + Len(b)
      BY <1>2, <2>1
    <3>2. QED
      BY <2>5, <3>1, InPosition
  <2>7. t[z].kind = "function_mode" /\ t[z].value = Value(b)
    <3> HIDE DEF z
    <3>1. t[z].kind = "function_mode"
      BY <2>4, <2>5, HoldsDetails
    <3>2. t[z].value = Value(b)
      BY <2>1, <2>5, HeldValue
    <3>3. QED
      BY <3>1, <3>2
  <2>8. ASSUME NEW j \in Part(t, x), t[j].kind \in {"function_mode"} PROVE z <= j
    <3>1. j # x
      BY <2>5, <2>8
    <3>2. ASSUME j \in x + 1 .. (x + 1) + Len(a) - 1 PROVE FALSE
      <4>1. j - (x + 1) + 1 \in 1 .. Len(a) /\ SameNode(t[j], a[j - (x + 1) + 1])
        BY <2>1, <2>5, <3>2, HeldBelow
      <4>2. t[j].kind \in TextKinds
        BY <2>1, <4>1 DEF SameNode, Of
      <4>3. QED
        BY <2>8, <4>2 DEF TextKinds
    <3>3. QED
      BY <1>2, <2>1, <2>5, <3>1, <3>2
  <2> HIDE DEF z
  <2>9. FindKind(t, x, {"function_mode"}) = z
    BY <2>6, <2>7, <2>8, FindKindIs
  <2>10. QED
    BY <2>6, <2>7, <2>9 DEF ValueOf, b
<1>7. QED
  BY <1>2, <1>5, <1>6 DEF u

LEMMA NormalizedFirst ==
  ASSUME NEW q \in Searches, 1 \in 1 .. Len(Reached(q)), Reached(q)[1].kind = "normalizer"
  PROVE  Value(Explained(q)[1]) \in Int
<1> DEFINE e == Explained(q)[0]
           v == Value(e) \div 2 + 1
           u == NormalizerNode(e, v)
<1>1. Tree(e) /\ Value(e) \in Int
  BY QueryTree, QueryScoreInt
<1>2. Explained(q)[1] = Level(Explained(q)[1 - 1], Reached(q)[1])
  BY ReachedShape, ExplainedDefined
<1>3. 1 - 1 = 0
  OBVIOUS
<1>4. Explained(q)[1] = Normalized(e)
  BY <1>2, <1>3 DEF Level
<1> HIDE DEF e
<1>5. Normalized(e) = Node("sum", None, v, u)
  BY DEF Normalized
<1>6. v \in Int
  BY <1>1
<1> HIDE DEF v
<1>7. Forest(u)
  BY <1>1, NormalizedTree
<1> HIDE DEF u
<1>8. QED
  BY <1>4, <1>5, <1>6, <1>7, NodeValue

LEMMA RescoreOperator ==
  ASSUME NEW kind \in RescoreKinds, kind # "normalizer"
  PROVE  OperatorOf(kind) = CASE kind = "sum" -> "+" [] kind = "product" -> "*"
                              [] kind = "mean" -> "avg" [] OTHER -> kind
<1>1. CASE kind = "sum"
  BY <1>1, Zenon DEF OperatorOf
<1>2. CASE kind = "product"
  BY <1>2, Zenon DEF OperatorOf
<1>3. CASE kind = "mean"
  BY <1>3, Zenon DEF OperatorOf
<1>4. CASE kind = "max"
  BY <1>4, Zenon DEF OperatorOf
<1>5. CASE kind = "min"
  BY <1>5, Zenon DEF OperatorOf
<1>6. QED
  BY <1>1, <1>2, <1>3, <1>4, <1>5 DEF RescoreKinds

(* A step of a rescore, and the detail of the rescore. *)
LEMMA RescoreStepShown ==
  ASSUME NEW q \in Searches, Straight(q, Len(Reached(q))), NEW t, t = Explain(q),
         NEW i \in 1 .. Len(Reached(q)), NEW r, r = Reached(q)[i],
         NEW s, s = Traverse(t).steps[i], NEW step, step = TimelineStep(t, s),
         NEW how, how = RescoreDetail(t, q, s, i).how
  PROVE  /\ r.kind = "normalizer" =>
              /\ step.operator = "->" /\ step.operand = Value(Explained(q)[i])
              /\ how = <<"min_max", "multiply">>
         /\ r.kind # "normalizer" =>
              /\ step.operand = Value(RescoreQuery(r)) /\ step.operator = OperatorOf(r.kind)
              /\ Applying(r.functions) # <<>> => how = <<Value(FunctionsNode(r.functions))>>
<1> DEFINE x == s.node
           custom == FindKind(t, x, Normalizers)
<1>1. Forest(t) /\ OfRescore(t, q, i, s)
  BY Traversed DEF Tree, StepNodes
<1>2. step = IF custom # None
             THEN [value |-> s.total, operator |-> "->",
                   operand |-> Or(FactorApplied(t, custom), Or(t[x].value, 0))]
             ELSE [value |-> s.total, operator |-> OperatorOf(s.kind), operand |-> t[x].value]
  BY DEF TimelineStep
<1>3. how = IF custom # None THEN <<NormalizerType(t, custom), FactorMode(t, custom)>>
            ELSE <<ValueOf(t, FindKind(t, x, {"function_mode"}))>>
  BY DEF RescoreDetail
<1>4. IsText(r.text) /\ AreFunctions(r.functions) /\ Len(Reached(q)) \in Nat
  BY ReachedShape
<1> HIDE DEF custom, x
<1>5. ASSUME r.kind = "normalizer"
      PROVE  /\ step.operator = "->" /\ step.operand = Value(Explained(q)[i])
             /\ how = <<"min_max", "multiply">>
  <2> DEFINE e == Explained(q)[0]
             v == Value(Explained(q)[i])
  <2>1. i = 1 /\ i - 1 = 0
    BY <1>4, <1>5 DEF Straight
  <2>2. PICK d \in Nat : Holds(t, x, d, NormalizerNode(Explained(q)[i - 1], v))
    BY <1>1, <1>5 DEF OfRescore, x
  <2>3. Holds(t, x, d, NormalizerNode(e, v))
    BY <2>1, <2>2
  <2>4. Tree(e) /\ Of(e, PlainKinds) /\ v \in Int
    BY <1>5, <2>1, QueryTree, NormalizedFirst
  <2> HIDE DEF e, v
  <2>5. /\ x \in Nat /\ t[x].value = v /\ custom = x /\ FactorApplied(t, x) = v
        /\ NormalizerType(t, x) = "min_max" /\ FactorMode(t, x) = "multiply"
    BY <1>1, <2>3, <2>4, NormalizerFound DEF custom
  <2>6. custom # None /\ v # None /\ 0 # None
    BY <2>4, <2>5, SearchesAssumption
  <2>7. Or(v, Or(v, 0)) = v
    BY <2>6 DEF Or
  <2>8. step.operator = "->" /\ step.operand = Or(v, Or(v, 0))
    BY <1>2, <2>5, <2>6
  <2>9. QED
    BY <1>3, <2>5, <2>6, <2>7, <2>8 DEF v
<1>6. ASSUME r.kind # "normalizer"
      PROVE  /\ step.operand = Value(RescoreQuery(r)) /\ step.operator = OperatorOf(r.kind)
             /\ Applying(r.functions) # <<>> => how = <<Value(FunctionsNode(r.functions))>>
  <2>1. s.kind = r.kind
    BY <1>1, <1>6 DEF OfRescore
  <2>2. PICK d \in Nat : Holds(t, x, d, RescoreQuery(r))
    BY <1>1, <1>6 DEF OfRescore, x
  <2>3. /\ t[x].value = Value(RescoreQuery(r)) /\ custom = None
        /\ Applying(r.functions) # <<>> =>
             ValueOf(t, FindKind(t, x, {"function_mode"})) = Value(FunctionsNode(r.functions))
    BY <1>1, <1>4, <2>2, RescoreFound DEF custom
  <2>4. QED
    BY <1>2, <1>3, <2>1, <2>3
<1>7. QED
  BY <1>5, <1>6

-----------------------------------------------------------------------------
(* The structure of the query has the positions of its part of the tree.      *)

Moved(S, c) == {x + c : x \in S}

LEMMA MovedCard ==
  ASSUME NEW S, S \subseteq Int, IsFiniteSet(S), NEW c \in Int
  PROVE  IsFiniteSet(Moved(S, c)) /\ Cardinality(Moved(S, c)) = Cardinality(S)
<1> DEFINE f == [x \in S |-> x + c]
           T == Moved(S, c)
<1>1. f \in [S -> T] /\ \A x \in S : x \in Int /\ f[x] = x + c
  BY DEF Moved
<1>2. f \in Injection(S, T)
  <2>1. ASSUME NEW x \in S, NEW z \in S, f[x] = f[z] PROVE x = z
    BY <1>1, <2>1
  <2> HIDE DEF f, T
  <2>2. QED
    BY <1>1, <2>1 DEF Injection, IsInjective
<1>3. f \in Surjection(S, T)
  <2>1. ASSUME NEW y \in T PROVE \E x \in S : f[x] = y
    BY <1>1 DEF Moved
  <2> HIDE DEF f, T
  <2>2. QED
    BY <1>1, <2>1 DEF Surjection
<1>4. ExistsBijection(S, T)
  <2> HIDE DEF f, T
  <2>1. QED
    BY <1>2, <1>3 DEF ExistsBijection, Bijection
<1> HIDE DEF T
<1>5. IsFiniteSet(T) /\ Cardinality(T) = Cardinality(S)
  BY <1>4, FS_Bijection
<1>6. QED
  BY <1>5 DEF T

(* Positions moved by a distance are listed in the same order. *)
LEMMA ListedMoved ==
  ASSUME NEW S, S \subseteq Int, IsFiniteSet(S), NEW c \in Int
  PROVE  /\ Cardinality(S) \in Nat /\ DOMAIN Listed(S) = 1 .. Cardinality(S)
         /\ DOMAIN Listed(Moved(S, c)) = 1 .. Cardinality(S)
         /\ \A k \in 1 .. Cardinality(S) :
              Listed(S)[k] \in S /\ Listed(Moved(S, c))[k] = Listed(S)[k] + c
<1> DEFINE T == Moved(S, c)
           n == Cardinality(S)
<1>1. T \subseteq Int
  BY DEF Moved
<1>2. IsFiniteSet(T) /\ Cardinality(T) = n
  BY MovedCard
<1>3. /\ n \in Nat /\ DOMAIN Listed(S) = 1 .. n
      /\ \A k \in 1 .. n : Listed(S)[k] \in S /\ Rank(S, Listed(S)[k]) = k
  BY ListedShape
<1>4. ASSUME NEW x \in S PROVE x + c \in T /\ Rank(T, x + c) = Rank(S, x)
  <2> DEFINE A == {y \in S : y <= x}
  <2>1. {y \in T : y <= x + c} = Moved(A, c)
    <3>1. ASSUME NEW y \in T, y <= x + c PROVE y \in Moved(A, c)
      <4>1. PICK z \in S : y = z + c
        BY DEF Moved
      <4>2. z \in A
        BY <3>1, <4>1
      <4>3. QED
        BY <4>1, <4>2 DEF Moved
    <3>2. ASSUME NEW y \in Moved(A, c) PROVE y \in T /\ y <= x + c
      BY DEF Moved
    <3>3. QED
      BY <3>1, <3>2
  <2>2. A \subseteq Int /\ IsFiniteSet(A)
    BY FS_Subset
  <2> HIDE DEF A
  <2>3. Cardinality(Moved(A, c)) = Cardinality(A)
    BY <2>2, MovedCard
  <2>4. x + c \in T
    BY DEF Moved
  <2>5. QED
    BY <2>1, <2>3, <2>4 DEF Rank, A
<1> HIDE DEF T
<1>5. /\ DOMAIN Listed(T) = 1 .. n
      /\ \A k \in 1 .. n : Listed(T)[k] \in T /\ Rank(T, Listed(T)[k]) = k
  <2>1. /\ DOMAIN Listed(T) = 1 .. Cardinality(T)
        /\ \A k \in 1 .. Cardinality(T) : Listed(T)[k] \in T /\ Rank(T, Listed(T)[k]) = k
    BY <1>1, <1>2, ListedShape
  <2>2. QED
    BY <1>2, <2>1
<1>6. ASSUME NEW k \in 1 .. n PROVE Listed(T)[k] = Listed(S)[k] + c
  <2> DEFINE y == Listed(T)[k]
             z == Listed(S)[k] + c
  <2>1. y \in T /\ z \in T /\ Rank(T, y) = Rank(T, z)
    BY <1>3, <1>4, <1>5
  <2> HIDE DEF y, z
  <2>2. y = z
    BY <1>1, <1>2, <2>1, RankIs
  <2>3. QED
    BY <2>2 DEF y, z
<1>7. QED
  BY <1>3, <1>5, <1>6 DEF T

(* Where the nodes below a node end. *)
Ends(t, i, e) ==
  /\ e \in i .. Len(t) /\ \A m \in i + 1 .. e : t[m].depth > t[i].depth
  /\ e < Len(t) => t[e + 1].depth <= t[i].depth

HasDepths(t) == Len(t) \in Nat /\ \A m \in 1 .. Len(t) : t[m].depth \in Int

LEMMA EndIs ==
  ASSUME NEW t, HasDepths(t), NEW i \in 1 .. Len(t), NEW e, Ends(t, i, e)
  PROVE  EndOf(t, i) = e
<1> DEFINE after == {j \in i + 1 .. Len(t) : t[j].depth <= t[i].depth}
<1>1. /\ Len(t) \in Nat /\ i \in Nat /\ t[i].depth \in Int
      /\ \A m \in i + 1 .. Len(t) : t[m].depth \in Int
  BY DEF HasDepths
<1>2. /\ e \in i .. Len(t) /\ \A m \in i + 1 .. e : t[m].depth > t[i].depth
      /\ e < Len(t) => t[e + 1].depth <= t[i].depth
  BY DEF Ends
<1>3. ASSUME NEW j \in after PROVE e + 1 <= j
  <2>1. j \in Int /\ j >= i + 1 /\ j <= Len(t) /\ t[j].depth <= t[i].depth /\ t[j].depth \in Int
    BY <1>1
  <2>2. j \notin i + 1 .. e
    BY <1>1, <1>2, <2>1
  <2>3. QED
    BY <1>1, <1>2, <2>1, <2>2
<1>4. CASE e = Len(t)
  <2>1. after = {}
    BY <1>1, <1>3, <1>4
  <2>2. QED
    BY <1>4, <2>1 DEF EndOf
<1>5. CASE e < Len(t)
  <2>1. e + 1 \in after /\ after \subseteq Int
    BY <1>1, <1>2, <1>5
  <2>2. after # {} /\ First(after) = e + 1
    <3> HIDE DEF after
    <3>1. QED
      BY <1>3, <2>1, FirstIs
  <2>3. Min(after) = e + 1
    BY <2>2 DEF First
  <2>4. EndOf(t, i) = Min(after) - 1
    BY <2>2 DEF EndOf
  <2>5. QED
    BY <1>1, <1>2, <2>3, <2>4
<1>6. QED
  BY <1>1, <1>2, <1>4, <1>5

LEMMA EndEnds ==
  ASSUME NEW t, HasDepths(t), NEW i \in 1 .. Len(t)
  PROVE  Ends(t, i, EndOf(t, i))
<1> DEFINE after == {j \in i + 1 .. Len(t) : t[j].depth <= t[i].depth}
<1>1. /\ Len(t) \in Nat /\ i \in Nat /\ t[i].depth \in Int
      /\ \A m \in i + 1 .. Len(t) : t[m].depth \in Int
  BY DEF HasDepths
<1>2. CASE after = {}
  <2>1. EndOf(t, i) = Len(t)
    BY <1>2 DEF EndOf
  <2>2. ASSUME NEW m \in i + 1 .. Len(t) PROVE t[m].depth > t[i].depth
    <3>1. ~(t[m].depth <= t[i].depth)
      BY <1>2
    <3>2. QED
      BY <1>1, <3>1
  <2>3. QED
    BY <1>1, <2>1, <2>2 DEF Ends
<1>3. CASE after # {}
  <2>1. after \subseteq Nat
    BY <1>1
  <2>2. Min(after) \in after /\ \A j \in after : Min(after) <= j
    <3> HIDE DEF after
    <3>1. PICK z \in after : \A j \in after : z <= j
      BY <1>3, <2>1, LeastExists
    <3>2. First(after) = z
      <4>1. after \subseteq Int
        BY <2>1
      <4>2. QED
        BY <3>1, <4>1, FirstIs
    <3>3. Min(after) = z
      BY <1>3, <3>2 DEF First
    <3>4. QED
      BY <3>1, <3>3
  <2> DEFINE e == Min(after) - 1
  <2>3. EndOf(t, i) = e
    BY <1>3 DEF EndOf
  <2>4. e \in i .. Len(t) /\ t[e + 1].depth <= t[i].depth
    <3>1. PICK z \in after : z = Min(after)
      BY <2>2
    <3>2. z \in i + 1 .. Len(t) /\ e = z - 1 /\ e + 1 = z /\ t[z].depth <= t[i].depth
      BY <1>1, <3>1
    <3> HIDE DEF after, e
    <3>3. QED
      BY <1>1, <3>2
  <2>5. ASSUME NEW m \in i + 1 .. e PROVE t[m].depth > t[i].depth
    <3>1. PICK z \in after : z = Min(after) /\ z \in i + 1 .. Len(t) /\ \A j \in after : z <= j
      BY <2>2
    <3>2. m \in i + 1 .. Len(t) /\ m < z
      BY <1>1, <3>1
    <3>3. m \notin after
      <4> HIDE DEF after
      <4>1. z \in Int /\ m \in Int
        BY <1>1, <3>1, <3>2
      <4>2. QED
        BY <3>1, <3>2, <4>1
    <3>4. QED
      BY <1>1, <3>2, <3>3
  <2> HIDE DEF e
  <2>6. QED
    BY <2>3, <2>4, <2>5 DEF Ends
<1>4. QED
  BY <1>2, <1>3

(* A node of a part ends before the part does, and where it ends in the part.*)
LEMMA SameDifference ==
  ASSUME NEW a \in Int, NEW b \in Int, NEW c \in Int
  PROVE  (a > c => a - b > c - b) /\ (a <= c => a - b <= c - b)
OBVIOUS

LEMMA SamePart ==
  ASSUME NEW t, HasDepths(t), NEW i \in 1 .. Len(t), NEW s,
         Len(s) = EndOf(t, i) - i + 1,
         \A k \in 1 .. Len(s) : s[k].depth = t[i + k - 1].depth - t[i].depth,
         NEW k \in 1 .. Len(s)
  PROVE  EndOf(s, k) = EndOf(t, i + k - 1) - i + 1
<1> DEFINE e == EndOf(t, i)
           j == i + k - 1
           f == EndOf(t, j)
           n == Len(s)
<1>1. Ends(t, i, e)
  BY EndEnds
<1>2. /\ Len(t) \in Nat /\ i \in Nat /\ e \in i .. Len(t) /\ n = e - i + 1
      /\ \A m \in 1 .. Len(t) : t[m].depth \in Int
  BY <1>1 DEF HasDepths, Ends
<1> HIDE DEF e, n
<1>3. j \in 1 .. Len(t) /\ j \in i .. e
  BY <1>2 DEF n
<1>4. Ends(t, j, f)
  BY <1>3, EndEnds
<1> HIDE DEF f, j
<1>5. t[i].depth <= t[j].depth
  <2>1. j # i => j \in i + 1 .. e
    BY <1>2, <1>3
  <2>2. j # i => t[j].depth > t[i].depth
    BY <1>1, <2>1 DEF Ends
  <2>3. t[j].depth \in Int /\ t[i].depth \in Int
    BY <1>2, <1>3
  <2>4. QED
    BY <2>2, <2>3
<1>6. f \in j .. e
  <2>1. f \in j .. Len(t)
    BY <1>4 DEF Ends
  <2>2. ASSUME f > e PROVE FALSE
    <3>1. e + 1 \in j + 1 .. f /\ e < Len(t) /\ e + 1 \in 1 .. Len(t)
      BY <1>2, <1>3, <2>1, <2>2
    <3>2. t[e + 1].depth > t[j].depth
      BY <1>4, <3>1 DEF Ends
    <3>3. t[e + 1].depth <= t[i].depth
      BY <1>1, <3>1 DEF Ends
    <3>4. t[e + 1].depth \in Int /\ t[i].depth \in Int /\ t[j].depth \in Int
      BY <1>2, <1>3, <3>1
    <3>5. QED
      BY <1>5, <3>2, <3>3, <3>4
  <2>3. QED
    BY <1>2, <1>3, <2>1, <2>2
<1>7. \A m \in 1 .. n : /\ i + m - 1 \in 1 .. Len(t) /\ s[m].depth = t[i + m - 1].depth - t[i].depth
                        /\ s[m].depth \in Int
  <2> SUFFICES ASSUME NEW m \in 1 .. n
               PROVE  /\ i + m - 1 \in 1 .. Len(t) /\ s[m].depth \in Int
                      /\ s[m].depth = t[i + m - 1].depth - t[i].depth
    OBVIOUS
  <2>1. i + m - 1 \in 1 .. Len(t)
    BY <1>2
  <2>2. s[m].depth = t[i + m - 1].depth - t[i].depth
    BY DEF n
  <2>3. t[i + m - 1].depth \in Int /\ t[i].depth \in Int
    BY <1>2, <2>1
  <2>4. QED
    BY <2>1, <2>2, <2>3
<1>8. HasDepths(s) /\ n \in Nat
  BY <1>2, <1>7 DEF HasDepths, n
<1> DEFINE g == f - i + 1
<1>9. Ends(s, k, g)
  <2>1. g \in k .. n /\ k \in 1 .. n /\ k \in Int /\ j = i + k - 1
    BY <1>2, <1>3, <1>6 DEF j, n
  <2>2. ASSUME NEW m \in k + 1 .. g PROVE s[m].depth > s[k].depth
    <3>1. m \in 1 .. n /\ i + m - 1 \in j + 1 .. f
      BY <1>2, <1>3, <1>6, <2>1
    <3>2. t[i + m - 1].depth > t[j].depth
      BY <1>4, <3>1 DEF Ends
    <3>3. /\ s[m].depth = t[i + m - 1].depth - t[i].depth /\ s[k].depth = t[j].depth - t[i].depth
      BY <1>7, <2>1, <3>1
    <3>4. t[i + m - 1].depth \in Int /\ t[i].depth \in Int /\ t[j].depth \in Int
      BY <1>2, <1>3, <1>7, <3>1
    <3>5. t[i + m - 1].depth - t[i].depth > t[j].depth - t[i].depth
      BY <3>2, <3>4, SameDifference
    <3>6. QED
      BY <3>3, <3>5, Zenon
  <2>3. ASSUME g < n PROVE s[g + 1].depth <= s[k].depth
    <3>1. g + 1 \in 1 .. n /\ i + (g + 1) - 1 = f + 1 /\ f + 1 \in 1 .. Len(t) /\ f < Len(t)
      BY <1>2, <1>3, <1>6, <2>1, <2>3
    <3>2. t[f + 1].depth <= t[j].depth
      BY <1>4, <3>1 DEF Ends
    <3>3. s[g + 1].depth = t[f + 1].depth - t[i].depth /\ s[k].depth = t[j].depth - t[i].depth
      BY <1>7, <2>1, <3>1
    <3>4. t[f + 1].depth \in Int /\ t[i].depth \in Int /\ t[j].depth \in Int
      BY <1>2, <1>3, <3>1
    <3>5. t[f + 1].depth - t[i].depth <= t[j].depth - t[i].depth
      BY <3>2, <3>4, SameDifference
    <3>6. QED
      BY <3>3, <3>5, Zenon
  <2> HIDE DEF g
  <2>4. QED
    BY <2>1, <2>2, <2>3 DEF Ends, n
<1> HIDE DEF g
<1>10. EndOf(s, k) = g
  BY <1>8, <1>9, EndIs DEF n
<1>11. QED
  BY <1>10 DEF g, f, j

LEMMA StructureTypes ==
  ASSUME NEW n, NEW q, PlainNode(n, q)
  PROVE  /\ n.kind = "weight" => StructureType(n) = "bm25"
         /\ n.kind = "knn" => StructureType(n) = "knn"
         /\ n.kind \notin {"weight", "knn"} => StructureType(n) \notin {"bm25", "knn"}
<1> DEFINE combinations == {"sum", "max", "min", "mean", "product"}
           type == StructureType(n)
<1>1. MentionsVector(n) <=> n.kind = "knn"
  BY DEF PlainNode, MentionsVector
<1>2. type = CASE n.kind \in combinations -> n.kind
               [] MentionsVector(n) -> "knn"
               [] n.kind = "weight" -> "bm25"
               [] n.kind = "score" -> "weight"
               [] n.kind \in FunctionScores -> "function_score"
               [] n.kind \in {"constant", "exists"} -> "constant_score"
               [] OTHER -> "unknown"
  BY Zenon DEF StructureType
<1> DEFINE constants == {"constant", "exists"}
<1>3. /\ "knn" \notin combinations /\ "weight" \notin combinations /\ "score" \notin combinations
      /\ \A kind \in constants : kind \notin combinations /\ kind \notin {"knn", "weight", "score"}
  OBVIOUS
<1>4. /\ "knn" \notin FunctionScores /\ "weight" \notin FunctionScores
      /\ "score" \notin FunctionScores /\ "weight" # "knn" /\ "score" # "knn" /\ "score" # "weight"
      /\ \A kind \in combinations : kind \notin FunctionScores
      /\ \A kind \in constants : kind \notin FunctionScores
      /\ \A kind \in combinations : kind \notin {"bm25", "knn"}
  BY DEF FunctionScores
<1> HIDE DEF combinations, constants, type
<1>5. n.kind = "weight" => type = "bm25"
  <2> SUFFICES ASSUME n.kind = "weight" PROVE type = "bm25"
    OBVIOUS
  <2>1. n.kind \notin combinations /\ ~MentionsVector(n)
    BY <1>1, <1>3, <1>4
  <2>2. n.kind # "score" /\ n.kind \notin FunctionScores /\ n.kind \notin constants
    BY <1>3, <1>4
  <2>3. QED
    BY <1>2, <2>1, <2>2, Zenon DEF constants
<1>6. n.kind = "knn" => type = "knn"
  <2> SUFFICES ASSUME n.kind = "knn" PROVE type = "knn"
    OBVIOUS
  <2>1. n.kind \notin combinations /\ MentionsVector(n) /\ n.kind # "weight" /\ n.kind # "score"
    BY <1>1, <1>3, <1>4
  <2>2. n.kind \notin FunctionScores /\ n.kind \notin constants
    BY <1>3, <1>4
  <2>3. QED
    BY <1>2, <2>1, <2>2, Zenon DEF constants
<1>7. ASSUME n.kind \notin {"weight", "knn"} PROVE type \notin {"bm25", "knn"}
  <2>1. n.kind # "weight" /\ ~MentionsVector(n)
    BY <1>1, <1>7
  <2>2. n.kind \in combinations => type = n.kind
    <3> SUFFICES ASSUME n.kind \in combinations PROVE type = n.kind
      OBVIOUS
    <3>1. n.kind # "score" /\ n.kind \notin FunctionScores /\ n.kind \notin constants
      BY <1>3, <1>4
    <3>2. QED
      BY <1>2, <2>1, <3>1, Zenon DEF constants
  <2>3. n.kind = "score" => type = "weight"
    <3> SUFFICES ASSUME n.kind = "score" PROVE type = "weight"
      OBVIOUS
    <3>1. n.kind \notin combinations /\ n.kind \notin FunctionScores /\ n.kind \notin constants
      BY <1>3, <1>4
    <3>2. QED
      BY <1>2, <2>1, <3>1, Zenon DEF constants
  <2>4. n.kind \in FunctionScores => type = "function_score"
    <3> SUFFICES ASSUME n.kind \in FunctionScores PROVE type = "function_score"
      OBVIOUS
    <3>1. n.kind \notin combinations /\ n.kind # "score" /\ n.kind \notin constants
      BY <1>4
    <3>2. QED
      BY <1>2, <2>1, <3>1, Zenon DEF constants
  <2>5. n.kind \in constants => type = "constant_score"
    <3> SUFFICES ASSUME n.kind \in constants PROVE type = "constant_score"
      OBVIOUS
    <3>1. n.kind \notin combinations /\ n.kind # "score" /\ n.kind \notin FunctionScores
      BY <1>3, <1>4
    <3>2. QED
      BY <1>2, <2>1, <3>1, Zenon DEF constants
  <2>6. ASSUME n.kind \notin combinations, n.kind # "score", n.kind \notin FunctionScores,
               n.kind \notin constants
        PROVE  type = "unknown"
    BY <1>2, <2>1, <2>6, Zenon DEF constants
  <2>7. QED
    BY <1>4, <2>2, <2>3, <2>4, <2>5, <2>6
<1>8. QED
  BY <1>5, <1>6, <1>7 DEF type

LEMMA StructureFields ==
  ASSUME NEW n, NEW request, PlainNode(n, request), NEW depth,
         NEW m, m = StructureNode(n, request, depth)
  PROVE  /\ m.depth = depth /\ m.value = n.value
         /\ m.type \in {"bm25", "knn"} <=> n.kind \in {"weight", "knn"}
         /\ n.kind = "weight" => m.field = n.about.field
         /\ n.kind = "knn" => m.field = VectorField(n, request)
<1> DEFINE type == StructureType(n)
<1>1. /\ m.type = type /\ m.value = n.value /\ m.depth = depth
      /\ m.field = CASE type = "knn" -> VectorField(n, request)
                     [] type = "bm25" -> n.about.field
                     [] type = "weight" -> "from"
                     [] OTHER -> None
  BY Zenon DEF StructureNode
<1>2. /\ n.kind = "weight" => type = "bm25"
      /\ n.kind = "knn" => type = "knn"
      /\ n.kind \notin {"weight", "knn"} => type \notin {"bm25", "knn"}
  BY StructureTypes
<1> HIDE DEF type
<1>3. type = "bm25" => m.field = n.about.field
  BY <1>1, Zenon
<1>4. type = "knn" => m.field = VectorField(n, request)
  BY <1>1, Zenon
<1>5. QED
  BY <1>1, <1>2, <1>3, <1>4

(* What the list of terms takes for a term or a vector. *)
LEMMA ScoresKinds ==
  ASSUME NEW n, NEW request, PlainNode(n, request)
  PROVE  n.kind = "weight" \/ (MentionsVector(n) /\ VectorField(n, request) # None)
           <=> n.kind \in {"weight", "knn"}
<1>1. MentionsVector(n) <=> n.kind = "knn"
  BY DEF MentionsVector, PlainNode
<1>2. n.kind = "knn" => VectorField(n, request) # None
  BY <1>1 DEF PlainNode
<1>3. QED
  BY <1>1, <1>2

(* The terms and vectors of the structure are those of the list of terms. *)
LEMMA ScoringShown ==
  ASSUME NEW t, Forest(t), NEW i \in 1 .. Len(t), NEW request,
         \A j \in 1 .. Len(t) : PlainNode(t[j], request),
         NEW s, s = QueryStructure(t, i, request), NEW factors, factors = Factors(t, i, request)
  PROVE  ScoringNodes(s)
           = [k \in DOMAIN factors |->
                [field |-> factors[k].field.field, score |-> factors[k].score]]
<1> DEFINE e == EndOf(t, i)
           n == e - i + 1
           Test(k) == s[k].type \in {"bm25", "knn"}
           Counts(j) == \/ t[j].kind = "weight"
                        \/ MentionsVector(t[j]) /\ VectorField(t[j], request) # None
           S == {j \in Part(s, 1) : Test(j) /\ \A k \in 1 .. j - 1 : Test(k) => j \notin Part(s, k)}
           T == {j \in Part(t, i) :
                   Counts(j) /\ \A k \in i .. j - 1 : Counts(k) => j \notin Part(t, k)}
<1>1. HasDepths(t) /\ Len(t) \in Nat /\ i \in Nat
  BY ForestShape DEF HasDepths, IsNode
<1>2. e \in i .. Len(t) /\ n \in Nat /\ n >= 1 /\ Part(t, i) = i .. e
  <2>1. Ends(t, i, e)
    BY <1>1, EndEnds
  <2>2. e \in i .. Len(t)
    BY <2>1 DEF Ends
  <2> HIDE DEF e
  <2>3. n \in Nat /\ n >= 1
    BY <1>1, <2>2
  <2>4. Part(t, i) = i .. e
    BY DEF Part, e
  <2>5. QED
    BY <2>2, <2>3, <2>4
<1>3. s = [k \in 1 .. n |-> StructureNode(t[i + k - 1], request, t[i + k - 1].depth - t[i].depth)]
  BY DEF QueryStructure
<1>4. Len(s) = n /\ \A k \in 1 .. n :
        s[k] = StructureNode(t[i + k - 1], request, t[i + k - 1].depth - t[i].depth)
  <2> HIDE DEF n
  <2>1. QED
    BY <1>2, <1>3
<1>5. ASSUME NEW k \in 1 .. n
      PROVE  /\ i + k - 1 \in i .. e /\ i + k - 1 \in 1 .. Len(t)
             /\ s[k].depth = t[i + k - 1].depth - t[i].depth
             /\ s[k].value = t[i + k - 1].value
             /\ Test(k) <=> t[i + k - 1].kind \in {"weight", "knn"}
             /\ t[i + k - 1].kind = "weight" => s[k].field = t[i + k - 1].about.field
             /\ t[i + k - 1].kind = "knn" => s[k].field = VectorField(t[i + k - 1], request)
  <2> DEFINE m == t[i + k - 1]
             depth == m.depth - t[i].depth
  <2>1. i + k - 1 \in i .. e /\ i + k - 1 \in 1 .. Len(t)
    BY <1>1, <1>2
  <2>2. PlainNode(m, request) /\ s[k] = StructureNode(m, request, depth)
    BY <1>4, <2>1
  <2>3. s[k].depth = depth
    <3> HIDE DEF m, depth
    <3>1. QED
      BY <2>2, StructureFields
  <2>4. s[k].value = m.value
    <3> HIDE DEF m, depth
    <3>1. QED
      BY <2>2, StructureFields
  <2>5. Test(k) <=> m.kind \in {"weight", "knn"}
    <3> HIDE DEF m, depth
    <3>1. QED
      BY <2>2, StructureFields
  <2>6. m.kind = "weight" => s[k].field = m.about.field
    <3> HIDE DEF m, depth
    <3>1. QED
      BY <2>2, StructureFields
  <2>7. m.kind = "knn" => s[k].field = VectorField(m, request)
    <3> HIDE DEF m, depth
    <3>1. QED
      BY <2>2, StructureFields
  <2>8. QED
    BY <2>1, <2>3, <2>4, <2>5, <2>6, <2>7
<1>6. \A j \in 1 .. Len(t) : Counts(j) <=> t[j].kind \in {"weight", "knn"}
  BY ScoresKinds
<1>7. ASSUME NEW k \in 1 .. n PROVE Part(s, k) = k .. EndOf(t, i + k - 1) - i + 1
  <2>1. \A m \in 1 .. Len(s) : s[m].depth = t[i + m - 1].depth - t[i].depth
    BY <1>4, <1>5
  <2>2. Len(s) = EndOf(t, i) - i + 1 /\ k \in 1 .. Len(s)
    BY <1>4
  <2> HIDE DEF e, n, S, T
  <2>3. EndOf(s, k) = EndOf(t, i + k - 1) - i + 1
    BY <1>1, <2>1, <2>2, SamePart
  <2>4. QED
    BY <2>3 DEF Part
<1>8. n = EndOf(t, i + 1 - 1) - i + 1 /\ Part(s, 1) = 1 .. n
  <2>1. i + 1 - 1 = i /\ 1 \in 1 .. n
    BY <1>1, <1>2
  <2>2. Part(s, 1) = 1 .. EndOf(t, i + 1 - 1) - i + 1
    BY <1>7, <2>1
  <2>3. QED
    BY <2>1, <2>2
<1>9. ASSUME NEW k \in 1 .. n, NEW m \in 1 .. n
      PROVE  m \in Part(s, k) <=> i + m - 1 \in Part(t, i + k - 1)
  <2> DEFINE f == EndOf(t, i + k - 1)
  <2>1. f \in Int
    <3>1. Ends(t, i + k - 1, f)
      BY <1>1, <1>5, EndEnds
    <3>2. f \in i + k - 1 .. Len(t)
      BY <3>1 DEF Ends
    <3> HIDE DEF f
    <3>3. QED
      BY <1>1, <3>2
  <2>2. Part(s, k) = k .. f - i + 1 /\ Part(t, i + k - 1) = i + k - 1 .. f
    BY <1>7 DEF Part
  <2> HIDE DEF f, n
  <2>3. QED
    BY <1>1, <1>2, <2>1, <2>2
<1> HIDE DEF e, n, Test, Counts
<1>10. T = Moved(S, i - 1)
  <2>1. ASSUME NEW j \in T PROVE j \in Moved(S, i - 1)
    <3> DEFINE m == j - i + 1
    <3>1. j \in i .. e /\ Counts(j) /\ \A k \in i .. j - 1 : Counts(k) => j \notin Part(t, k)
      BY <1>2
    <3>2. m \in 1 .. n /\ j = i + m - 1 /\ j = m + (i - 1)
      BY <1>1, <1>2, <3>1 DEF n
    <3> HIDE DEF m
    <3>3. Test(m)
      BY <1>5, <1>6, <3>1, <3>2
    <3>4. ASSUME NEW k \in 1 .. m - 1, Test(k) PROVE m \notin Part(s, k)
      <4>1. k \in 1 .. n /\ i + k - 1 \in i .. j - 1
        BY <1>1, <1>2, <3>2
      <4>2. Counts(i + k - 1)
        BY <1>5, <1>6, <3>4, <4>1
      <4>3. i + m - 1 \notin Part(t, i + k - 1)
        BY <3>1, <3>2, <4>1, <4>2
      <4>4. QED
        BY <1>9, <3>2, <4>1, <4>3
    <3>5. m \in S
      BY <1>8, <3>2, <3>3, <3>4
    <3>6. QED
      BY <3>2, <3>5 DEF Moved
  <2>2. ASSUME NEW m \in S PROVE m + (i - 1) \in T
    <3> DEFINE j == i + m - 1
    <3>1. m \in 1 .. n /\ Test(m) /\ \A k \in 1 .. m - 1 : Test(k) => m \notin Part(s, k)
      BY <1>8
    <3>2. j \in i .. e /\ j = m + (i - 1)
      BY <1>1, <1>2, <3>1 DEF n
    <3> HIDE DEF j
    <3>3. Counts(j)
      BY <1>5, <1>6, <3>1 DEF j
    <3>4. ASSUME NEW k \in i .. j - 1, Counts(k) PROVE j \notin Part(t, k)
      <4>1. PICK l \in 1 .. n : l = k - i + 1 /\ k = i + l - 1 /\ l \in 1 .. m - 1
        <5>1. k - i + 1 \in 1 .. m - 1 /\ k - i + 1 \in 1 .. n /\ k = i + (k - i + 1) - 1
          BY <1>1, <1>2, <3>1, <3>2 DEF j
        <5>2. QED
          BY <5>1
      <4>2. Test(l)
        BY <1>5, <1>6, <3>4, <4>1
      <4>3. m \notin Part(s, l)
        BY <3>1, <4>1, <4>2
      <4>4. QED
        BY <1>9, <3>1, <4>1, <4>3 DEF j
    <3>5. j \in T
      BY <1>2, <3>2, <3>3, <3>4
    <3>6. QED
      BY <3>2, <3>5
  <2>3. ASSUME NEW j \in Moved(S, i - 1) PROVE j \in T
    <3> HIDE DEF S, T
    <3>1. QED
      BY <2>2, <2>3 DEF Moved
  <2> HIDE DEF S, T
  <2>4. QED
    BY <2>1, <2>3
<1>11. ScoringNodes(s) = [k \in DOMAIN Listed(S) |->
                           [field |-> s[Listed(S)[k]].field, score |-> s[Listed(S)[k]].value]]
  BY DEF ScoringNodes, Topmost, Test
<1>12. factors = [k \in DOMAIN Listed(T) |->
                    IF t[Listed(T)[k]].kind = "weight" THEN TermFactor(t, Listed(T)[k])
                    ELSE VectorFactor(t[Listed(T)[k]], request)]
  BY DEF Factors, Topmost, Counts
<1>13. S \subseteq 1 .. n /\ S \subseteq Int /\ IsFiniteSet(S)
  <2>1. S \subseteq 1 .. n
    BY <1>8
  <2> HIDE DEF S
  <2>2. IsFiniteSet(1 .. n)
    BY <1>2, FS_Interval
  <2>3. IsFiniteSet(S)
    BY <2>1, <2>2, FS_Subset
  <2>4. S \subseteq Int
    BY <1>2, <2>1
  <2>5. QED
    BY <2>1, <2>3, <2>4
<1>14. \A m \in S : Test(m)
  OBVIOUS
<1> HIDE DEF S, T
<1>15. PICK c \in Nat :
         /\ DOMAIN Listed(S) = 1 .. c /\ DOMAIN Listed(T) = 1 .. c
         /\ \A k \in 1 .. c : Listed(S)[k] \in S /\ Listed(T)[k] = Listed(S)[k] + (i - 1)
  <2>1. i - 1 \in Int
    BY <1>1
  <2>2. QED
    BY <1>10, <1>13, <2>1, ListedMoved
<1>16. ASSUME NEW k \in 1 .. c
       PROVE  /\ factors[k].field.field = s[Listed(S)[k]].field
              /\ factors[k].score = s[Listed(S)[k]].value
  <2> DEFINE m == Listed(S)[k]
             j == i + m - 1
  <2>1. m \in 1 .. n /\ Test(m)
    BY <1>13, <1>14, <1>15
  <2>2. Listed(T)[k] = j
    <3>1. m \in Int /\ Listed(T)[k] = m + (i - 1)
      BY <1>13, <1>15
    <3> HIDE DEF m
    <3>2. QED
      BY <1>1, <3>1
  <2>3. factors[k] = IF t[Listed(T)[k]].kind = "weight" THEN TermFactor(t, Listed(T)[k])
                     ELSE VectorFactor(t[Listed(T)[k]], request)
    BY <1>12, <1>15
  <2> HIDE DEF m, j
  <2>4. /\ s[m].value = t[j].value /\ t[j].kind \in {"weight", "knn"}
        /\ t[j].kind = "weight" => s[m].field = t[j].about.field
        /\ t[j].kind = "knn" => s[m].field = VectorField(t[j], request)
    BY <1>5, <2>1 DEF j
  <2>5. factors[k].field.field = s[m].field /\ factors[k].score = s[m].value
    BY <2>2, <2>3, <2>4 DEF TermFactor, VectorFactor, Listing
  <2>6. QED
    BY <2>5 DEF m
<1>17. DOMAIN factors = 1 .. c
  BY <1>12, <1>15
<1>18. ScoringNodes(s) = [k \in 1 .. c |-> [field |-> s[Listed(S)[k]].field,
                                             score |-> s[Listed(S)[k]].value]]
  BY <1>11, <1>15
<1>19. QED
  BY <1>16, <1>17, <1>18

(* What is between the ends of a sequence. *)
LEMMA MiddleIs ==
  ASSUME NEW S, NEW w \in Seq(S), NEW line, Len(line) = Len(w) + 2,
         \A k \in 1 .. Len(w) : line[k + 1] = w[k]
  PROVE  SubSeq(line, 2, Len(line) - 1) = w
<1> DEFINE n == Len(line) - 1
           m == SubSeq(line, 2, n)
<1>1. Len(w) \in Nat /\ n = Len(w) + 1 /\ n \in Int
  OBVIOUS
<1>2. ASSUME NEW i \in 2 .. n PROVE line[i] \in S
  <2>1. i - 1 \in 1 .. Len(w) /\ (i - 1) + 1 = i
    BY <1>1
  <2>2. line[i] = w[i - 1]
    BY <2>1
  <2>3. QED
    BY <2>1, <2>2
<1> HIDE DEF n
<1>3. /\ m \in Seq(S) /\ Len(m) = (IF 2 <= n THEN n - 2 + 1 ELSE 0)
      /\ \A i \in 1 .. n - 2 + 1 : m[i] = line[2 + i - 1]
  BY <1>1, <1>2, SubSeqProperties
<1>4. Len(m) = Len(w)
  BY <1>1, <1>3
<1>5. ASSUME NEW i \in 1 .. Len(m) PROVE m[i] = w[i]
  <2>1. i \in 1 .. n - 2 + 1 /\ i \in 1 .. Len(w) /\ 2 + i - 1 = i + 1
    BY <1>1, <1>4
  <2>2. QED
    BY <1>3, <2>1
<1> HIDE DEF m
<1>6. m = w
  BY <1>3, <1>4, <1>5, SeqEqual
<1>7. QED
  BY <1>6 DEF m, n

(* The steps of the summary are the cards between the first and the last. *)
LEMMA SummaryShown ==
  ASSUME NEW q \in Searches, NEW t, t = Explain(q), NEW summed, summed = Summary(t),
         NEW line, line = Timeline(t, Value(t))
  PROVE  /\ summed.query = line[1].value /\ summed.query = QueryDetail(t, q).original
         /\ summed.steps = SubSeq(line, 2, Len(line) - 1)
<1> DEFINE hit == Traverse(t)
           x == hit.query
           text == OriginalText(t, x)
           a == QueryCards(t, hit)
           s == StepCards(t, hit)
           c == Card(Value(t))
           n == Len(Reached(q))
           steps == [k \in DOMAIN hit.steps |-> SummaryStep(t, hit.steps[k])]
<1>1. Forest(t) /\ Totals(t, q, n, hit) /\ QueryAt(t, x, q)
  BY Traversed DEF Tree, Totals
<1>2. line = ThreeParts(a, s, c)
  BY TimelineParts
<1>3. steps = s
  BY DEF SummaryStep, TimelineStep, StepCards
<1>4. /\ summed.query = IF text = None THEN t[x].value ELSE text
      /\ summed.steps = IF text = None THEN steps ELSE <<Boost(t, x, text)>> \o steps
      /\ QueryDetail(t, q).original = IF text = None THEN t[x].value ELSE text
  BY DEF Summary, QueryDetail
<1>5. a = IF text = None THEN <<Card(t[x].value)>> ELSE <<Card(text), Boost(t, x, text)>>
  BY DEF QueryCards
<1>6. IsSequence(s) /\ Len(s) \in Nat
  <2> HIDE DEF hit
  <2>1. QED
    BY <1>1, StepCardsShown
<1> DEFINE v == IF text = None THEN t[x].value ELSE text
           b == Boost(t, x, text)
           S == ToSet(s) \cup {b}
<1>7. a = IF text = None THEN <<Card(v)>> ELSE <<Card(v), b>>
  BY <1>5
<1>8. /\ summed.query = v /\ QueryDetail(t, q).original = v
      /\ summed.steps = IF text = None THEN s ELSE <<b>> \o s
  BY <1>3, <1>4
<1> HIDE DEF hit, x, text, a, s, c, n, steps, v, b
<1>9. Card(v).value = v
  BY DEF Card
<1>10. s \in Seq(S) /\ <<b>> \in Seq(S)
  BY <1>6, SeqWidened DEF IsSequence
<1>11. IsSequence(a) /\ Len(a) \in 1 .. 2 /\ a[1] = Card(v)
  <2>1. CASE text = None
    BY <1>7, <2>1 DEF IsSequence, ToSet
  <2>2. CASE text # None
    BY <1>7, <2>2 DEF IsSequence, ToSet
  <2>3. QED
    BY <2>1, <2>2
<1>12. /\ Len(line) = Len(a) + Len(s) + 1
       /\ \A i \in 1 .. Len(a) : line[i] = a[i]
       /\ \A i \in 1 .. Len(s) : line[Len(a) + i] = s[i]
  BY <1>2, <1>6, <1>11, InThreeParts
<1>13. summed.steps = SubSeq(line, 2, Len(line) - 1)
  <2>1. CASE text = None
    <3>1. Len(a) = 1 /\ summed.steps = s
      BY <1>7, <1>8, <2>1
    <3>2. Len(line) = Len(s) + 2 /\ \A k \in 1 .. Len(s) : line[k + 1] = s[k]
      BY <1>6, <1>12, <3>1
    <3>3. QED
      BY <1>10, <3>1, <3>2, MiddleIs
  <2>2. CASE text # None
    <3> DEFINE w == <<b>> \o s
    <3>1. Len(a) = 2 /\ a[2] = b /\ summed.steps = w
      BY <1>7, <1>8, <2>2
    <3>2. /\ w \in Seq(S) /\ Len(w) = Len(s) + 1
          /\ \A k \in 1 .. Len(s) + 1 : w[k] = IF k <= 1 THEN b ELSE s[k - 1]
      BY <1>6, <1>10, ConcatProperties
    <3> HIDE DEF w
    <3>3. Len(line) = Len(w) + 2
      BY <1>6, <1>12, <3>1, <3>2
    <3>4. ASSUME NEW k \in 1 .. Len(w) PROVE line[k + 1] = w[k]
      <4>1. CASE k = 1
        <5>1. line[2] = a[2]
          BY <1>12, <3>1
        <5>2. QED
          BY <3>1, <3>2, <4>1, <5>1
      <4>2. CASE k # 1
        <5>1. /\ k - 1 \in 1 .. Len(s) /\ Len(a) + (k - 1) = k + 1 /\ k \in 1 .. Len(s) + 1
              /\ ~(k <= 1)
          BY <1>6, <3>1, <3>2, <4>2
        <5>2. line[k + 1] = s[k - 1] /\ w[k] = s[k - 1]
          BY <1>12, <3>2, <5>1
        <5>3. QED
          BY <5>2
      <4>3. QED
        BY <4>1, <4>2
    <3>5. QED
      BY <3>1, <3>2, <3>3, <3>4, MiddleIs
  <2>3. QED
    BY <2>1, <2>2
<1>14. line[1] = Card(v)
  BY <1>11, <1>12
<1>15. QED
  BY <1>8, <1>9, <1>13, <1>14

-----------------------------------------------------------------------------
(* The answers kept are those of the search looked at: they are read from    *)
(* the tree in which Elasticsearch explains its hit.                         *)
AnswersOfSearch ==
  /\ search \in Searches \cup {None}
  /\ search = None => summary = None /\ detail = None
  /\ search # None => summary = Summary(Explain(search)) /\ detail \in {None, DetailOf(search)}

(* Every request keeps to the search: its answers are never those of another.*)
THEOREM AnswersKept == Spec => []AnswersOfSearch
<1>1. Init => AnswersOfSearch
  BY DEF Init, AnswersOfSearch
<1>2. AnswersOfSearch /\ [Next]_vars => AnswersOfSearch'
  <2> SUFFICES ASSUME AnswersOfSearch, [Next]_vars PROVE AnswersOfSearch'
    OBVIOUS
  <2>1. ASSUME NEW q \in Searches, Summarize(q) PROVE AnswersOfSearch'
    <3>1. q # None
      BY SearchesAssumption
    <3>2. QED
      BY <2>1, <3>1 DEF AnswersOfSearch, Summarize
  <2>2. CASE Detail
    BY <2>2 DEF AnswersOfSearch, Detail
  <2>3. CASE DetailMissing
    BY <2>3 DEF AnswersOfSearch, DetailMissing
  <2>4. CASE UNCHANGED vars
    BY <2>4 DEF AnswersOfSearch, vars
  <2>5. QED
    BY <2>1, <2>2, <2>3, <2>4 DEF Next
<1>3. QED
  BY <1>1, <1>2, PTL DEF Spec

(* The timeline of a hit starts with the score of the text searched for and  *)
(* goes through the score after the functions and after each rescore, in     *)
(* their order, to the total: for any searches, with any functions and any   *)
(* number of rescores, and any shape of the explanations of the texts.       *)
THEOREM TimelineCorrect == Spec => []RunningTotals
<1>1. AnswersOfSearch => RunningTotals
  <2> SUFFICES ASSUME AnswersOfSearch, Answered PROVE RunningTotals
    BY DEF RunningTotals
  <2>1. search \in Searches /\ detail = DetailOf(search)
    BY DEF AnswersOfSearch, Answered
  <2>2. detail.timeline = Timeline(Explain(search), Value(Explain(search)))
    BY <2>1 DEF DetailOf
  <2> DEFINE line == detail.timeline
             b == Skipped(search)
             n == Len(Reached(search))
  <2>3. /\ Len(line) = b + n + 1
        /\ line[1].value = Value(search.text)
        /\ \A i \in 0 .. n : line[b + i].value = Value(Explained(search)[i])
        /\ line[b + n + 1].value = Value(Explain(search))
    BY <2>1, <2>2, TimelineShown
  <2>4. QED
    BY <2>3 DEF RunningTotals
<1>2. QED
  BY <1>1, AnswersKept, PTL

(* Of any hit, the step of the functions says what they contributed to the   *)
(* score and how, the step and the detail of each rescore what the rescore   *)
(* query scored, and the scores of the query's detail make its final score,  *)
(* if no text with functions has the score zero.                             *)
THEOREM StepsCorrect ==
  ASSUME TextsScore PROVE Spec => []StepsExplained
<1>1. AnswersOfSearch => StepsExplained
  <2> SUFFICES ASSUME AnswersOfSearch PROVE StepsExplained
    OBVIOUS
  <2> DEFINE t == Explain(search)
             hit == Traverse(t)
             n == Len(Reached(search))
             b == Skipped(search)
  <2>1. ASSUME Answered PROVE search \in Searches /\ detail = DetailOf(search)
    BY <2>1 DEF AnswersOfSearch, Answered
  <2>2. ASSUME Answered PROVE QueryComposed
    BY <2>1, <2>2, QueryComposedShown
  <2>3. ASSUME Answered
        PROVE  /\ Tree(t) /\ Forest(t) /\ Totals(t, search, n, hit)
               /\ QueryAt(t, hit.query, search) /\ n \in Nat /\ DOMAIN Reached(search) = 1 .. n
    BY <2>1, <2>3, Traversed, ReachedShape DEF Tree, Totals
  <2>4. ASSUME Answered
        PROVE  /\ b \in 1 .. 2
               /\ b = 2 => detail.timeline[2] = Boost(t, hit.query, Value(search.text))
               /\ \A i \in 1 .. n : detail.timeline[b + i] = TimelineStep(t, hit.steps[i])
    <3> DEFINE a == QueryCards(t, hit)
               s == StepCards(t, hit)
               c == Card(Value(t))
               line == detail.timeline
    <3>1. line = ThreeParts(a, s, c)
      BY <2>1, <2>4, TimelineParts DEF DetailOf
    <3>2. b \in 1 .. 2
      BY DEF Skipped
    <3>3. /\ IsSequence(a) /\ Len(a) = b
          /\ b = 2 => a[2] = Boost(t, hit.query, Value(search.text))
      <4> HIDE DEF t, hit
      <4>1. QED
        BY <2>1, <2>3, <2>4, QueryCardsShown
    <3>4. /\ IsSequence(s) /\ Len(s) = n /\ \A k \in 1 .. n : s[k] = TimelineStep(t, hit.steps[k])
      <4> HIDE DEF t, hit
      <4>1. QED
        BY <2>1, <2>3, <2>4, StepCardsShown
    <3> HIDE DEF a, s, c, line, b, n, t, hit
    <3>5. /\ \A i \in 1 .. Len(a) : line[i] = a[i]
          /\ \A i \in 1 .. Len(s) : line[Len(a) + i] = s[i]
      BY <3>1, <3>3, <3>4, InThreeParts
    <3>6. b = 2 => line[2] = Boost(t, hit.query, Value(search.text))
      BY <3>3, <3>5
    <3>7. \A i \in 1 .. n : line[b + i] = TimelineStep(t, hit.steps[i])
      BY <3>3, <3>4, <3>5
    <3>8. QED
      BY <3>2, <3>6, <3>7 DEF line
  <2>5. ASSUME Answered, search.functions # <<>>
        PROVE  BoostExplained(detail.timeline[2], Value(FunctionsNode(search.functions)))
    <3>1. b = 2
      BY <2>5 DEF Skipped
    <3>2. detail.timeline[2] = Boost(t, hit.query, Value(search.text)) /\ Value(search.text) # 0
      BY <2>1, <2>4, <2>5, <3>1 DEF TextsScore
    <3> HIDE DEF t, hit
    <3>3. QED
      BY <2>1, <2>3, <2>5, <3>2, BoostExplainedShown
  <2>6. ASSUME Answered, ~NormalizedAgain(search), NEW i \in DOMAIN Reached(search)
        PROVE  LET r    == Reached(search)[i]
                   step == detail.timeline[Skipped(search) + i]
                   how  == detail.rescores[i].how
               IN  IF r.kind = "normalizer"
                   THEN /\ step.operator = "->" /\ step.operand = Value(Explained(search)[i])
                        /\ how = <<"min_max", "multiply">>
                   ELSE /\ step.operand = Value(RescoreQuery(r))
                        /\ Applying(r.functions) # <<>> =>
                             how = <<Value(FunctionsNode(r.functions))>>
                        /\ step.operator = CASE r.kind = "sum" -> "+" [] r.kind = "product" -> "*"
                                             [] r.kind = "mean" -> "avg" [] OTHER -> r.kind
    <3> DEFINE r == Reached(search)[i]
               s == hit.steps[i]
               step == detail.timeline[b + i]
               how == detail.rescores[i].how
    <3>1. Straight(search, n) /\ i \in 1 .. n
      BY <2>3, <2>6 DEF Straight, NormalizedAgain
    <3>2. step = TimelineStep(t, s)
      BY <2>4, <2>6, <3>1
    <3>3. DOMAIN hit.steps = 1 .. n
      BY <2>3, <2>6 DEF Totals, IsSequence
    <3>4. how = RescoreDetail(t, search, s, i).how
      <4>1. detail.rescores = RescoreDetails(t, search)
        BY <2>1, <2>6 DEF DetailOf
      <4>2. QED
        BY <3>1, <3>3, <4>1 DEF RescoreDetails
    <3>5. r.kind \in RescoreKinds
      BY <2>1, <2>6, <3>1, ReachedShape
    <3>6. /\ r.kind = "normalizer" =>
               /\ step.operator = "->" /\ step.operand = Value(Explained(search)[i])
               /\ how = <<"min_max", "multiply">>
          /\ r.kind # "normalizer" =>
               /\ step.operand = Value(RescoreQuery(r)) /\ step.operator = OperatorOf(r.kind)
               /\ Applying(r.functions) # <<>> => how = <<Value(FunctionsNode(r.functions))>>
      <4> HIDE DEF step, how, r, s
      <4>1. search \in Searches /\ t = Explain(search) /\ r = Reached(search)[i]
            /\ s = Traverse(t).steps[i] /\ step = TimelineStep(t, s)
            /\ how = RescoreDetail(t, search, s, i).how /\ n = Len(Reached(search))
        BY <2>1, <2>6, <3>2, <3>4 DEF r, s
      <4> HIDE DEF t, hit, n
      <4>2. QED
        BY <3>1, <4>1, RescoreStepShown
    <3>7. r.kind # "normalizer" =>
            OperatorOf(r.kind) = CASE r.kind = "sum" -> "+" [] r.kind = "product" -> "*"
                                   [] r.kind = "mean" -> "avg" [] OTHER -> r.kind
      <4> HIDE DEF r
      <4>1. QED
        BY <3>5, RescoreOperator
    <3>8. QED
      BY <3>6, <3>7, Zenon
  <2>7. QED
    BY <2>2, <2>5, <2>6, Zenon DEF StepsExplained
<1>2. QED
  BY <1>1, AnswersKept, PTL

(* The summary, the timeline and the details of the rescores tell the same   *)
(* of any hit, and the structure of the query and the list of terms of any   *)
(* plain one: the same scores, in the same order, of the same fields but for *)
(* what the list has before the name of a field, which it reads differently. *)
THEOREM ViewsCorrect == Spec => []ViewsAgree
<1>1. AnswersOfSearch => ViewsAgree
  <2> SUFFICES ASSUME AnswersOfSearch, Answered PROVE ViewsAgree
    BY DEF ViewsAgree
  <2> DEFINE t == Explain(search)
             hit == Traverse(t)
             n == Len(Reached(search))
             line == detail.timeline
             factors == Factors(t, hit.query, search)
  <2>1. /\ search \in Searches /\ detail = DetailOf(search) /\ summary = Summary(t)
    <3>1. search # None
      BY DEF Answered
    <3>2. QED
      BY <3>1 DEF AnswersOfSearch, Answered
  <2>2. /\ Tree(t) /\ Forest(t) /\ Totals(t, search, n, hit)
        /\ QueryAt(t, hit.query, search) /\ n \in Nat /\ DOMAIN Reached(search) = 1 .. n
    BY <2>1, Traversed, ReachedShape DEF Tree, Totals
  <2>3. /\ line = Timeline(t, Value(t)) /\ detail.query = QueryDetail(t, search)
        /\ detail.rescores = RescoreDetails(t, search)
    BY <2>1 DEF DetailOf
  <2>4. /\ summary.query = line[1].value /\ summary.query = detail.query.original
        /\ summary.steps = SubSeq(line, 2, Len(line) - 1)
    <3>1. /\ summary.query = line[1].value
          /\ summary.query = QueryDetail(t, search).original
          /\ summary.steps = SubSeq(line, 2, Len(line) - 1)
      <4> HIDE DEF line
      <4>1. QED
        BY <2>1, <2>3, SummaryShown
    <3>2. QED
      BY <2>3, <3>1
  <2>5. [i \in DOMAIN detail.rescores |-> detail.rescores[i].score]
          = [i \in DOMAIN Reached(search) |-> line[Skipped(search) + i].value]
    <3>1. /\ DOMAIN hit.steps = 1 .. n
          /\ \A i \in 1 .. n : hit.steps[i].total = Value(Explained(search)[i])
      BY <2>2 DEF Totals, IsSequence
    <3>2. /\ DOMAIN detail.rescores = 1 .. n
          /\ \A i \in 1 .. n : detail.rescores[i] = RescoreDetail(t, search, hit.steps[i], i)
      BY <2>3, <3>1 DEF RescoreDetails
    <3>3. \A i \in 1 .. n : detail.rescores[i].score = Value(Explained(search)[i])
      <4>1. \A i : RescoreDetail(t, search, hit.steps[i], i).score = hit.steps[i].total
        BY DEF RescoreDetail
      <4> HIDE DEF t, hit, n
      <4>2. QED
        BY <3>1, <3>2, <4>1
    <3>4. \A i \in 0 .. n : line[Skipped(search) + i].value = Value(Explained(search)[i])
      <4> HIDE DEF line
      <4>1. QED
        BY <2>1, <2>3, TimelineShown
    <3>5. \A i \in 1 .. n : detail.rescores[i].score = line[Skipped(search) + i].value
      BY <2>2, <3>3, <3>4
    <3> HIDE DEF line, n
    <3>6. QED
      BY <2>2, <3>2, <3>5
  <2>6. ASSUME PlainHit(search)
        PROVE  ScoringNodes(detail.query.structure)
                 = [i \in DOMAIN factors |->
                      [field |-> factors[i].field.field, score |-> factors[i].score]]
    <3> DEFINE x == hit.query
               s == QueryStructure(t, x, search)
    <3>1. detail.query.structure = s
      BY <2>3 DEF QueryDetail
    <3>2. x \in 1 .. Len(t)
      <4> HIDE DEF t, hit
      <4>1. QED
        BY <2>1, <2>2, QueryInside
    <3>3. \A j \in 1 .. Len(t) : PlainNode(t[j], search)
      BY <2>1, <2>2, <2>6, ForestShape DEF PlainHit
    <3>4. factors = Factors(t, x, search)
      OBVIOUS
    <3> HIDE DEF t, hit, x, s, factors
    <3>5. ScoringNodes(s)
            = [i \in DOMAIN factors |->
                 [field |-> factors[i].field.field, score |-> factors[i].score]]
      BY <2>2, <3>2, <3>3, <3>4, ScoringShown DEF s
    <3>6. QED
      BY <3>1, <3>5
  <2>7. QED
    BY <2>4, <2>5, <2>6 DEF ViewsAgree
<1>2. QED
  BY <1>1, AnswersKept, PTL
=============================================================================
