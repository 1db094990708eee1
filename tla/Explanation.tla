---------------------------- MODULE Explanation -----------------------------
(***************************************************************************)
(* The mapper of search explanations: what it reads from the tree in which *)
(* Elasticsearch explains the score of a hit.                              *)
(*                                                                         *)
(* A tree is the sequence of its nodes in the order in which the recursive *)
(* searches of the mapper meet them, a node before its details, each with  *)
(* its depth.  An operator on a node takes the tree and the position of    *)
(* the node.  The text of a description is abstracted to its kind and to   *)
(* what it is about: a field with a term and what is written around them,  *)
(* a filter, a field, a script, or nothing.  A search of the mapper for a  *)
(* part of a text is a search for a kind, and for a name or a value in     *)
(* which that part can be.  Scores are integers, a quotient of scores is   *)
(* the pair of them.                                                       *)
(***************************************************************************)
EXTENDS Integers, Sequences, SequencesExt

CONSTANTS
  None,        \* Python's None
  VectorLike,  \* the names and values that contain what a vector search is known by
  PartOf       \* pairs of a text and one that has it in it: a value at its beginning,
               \* a name at its end

Normalizers == {"normalizer", "factor", "factor_mode"}

FunctionScores ==
  {"function_product", "function_sum", "function_min", "function_max", "function_replace",
   "function_mode"}

(* The last position of the node at i and of what is below it. *)
EndOf(t, i) ==
  LET after == {j \in i + 1 .. Len(t) : t[j].depth <= t[i].depth}
  IN  IF after = {} THEN Len(t) ELSE Min(after) - 1

(* The node at i and the nodes below it. *)
Part(t, i) == i .. EndOf(t, i)

Details(t, i) == {j \in Part(t, i) : t[j].depth = t[i].depth + 1}

(* The positions in a set, in their order. *)
Listed(S) ==
  [k \in 1 .. Cardinality(S) |-> CHOOSE x \in S : Cardinality({y \in S : y <= x}) = k]

First(S) == IF S = {} THEN None ELSE Min(S)

Find(t, i, Test(_)) == First({j \in Part(t, i) : Test(j)})

FindKind(t, i, K) == First({j \in Part(t, i) : t[j].kind \in K})

ValueOf(t, i) == IF i = None THEN None ELSE t[i].value

AboutOf(t, i) == IF i = None THEN None ELSE t[i].about

(* Python's "or" for numbers: zero and None give way. *)
Or(a, b) == IF a \in {0, None} THEN b ELSE a

SumSeq(s) == FoldSeq(+, 0, s)

-----------------------------------------------------------------------------
(* Unwrapping the levels of the rescores.                                    *)

FirstDetail(t, i, K) == First({j \in Details(t, i) : t[j].kind \in K})

(* Breadth first: the first of the shallowest ones below the node. *)
ShallowestOriginal(t, i) ==
  LET S == {j \in Part(t, i) \ {i} : t[j].kind = "original"}
  IN  First({j \in S : \A k \in S : t[j].depth <= t[k].depth})

PreviousScore(t, i) ==
  IF FirstDetail(t, i, {"original"}) # None THEN FirstDetail(t, i, {"original"})
  ELSE IF FirstDetail(t, i, Normalizers) # None THEN FirstDetail(t, i, Normalizers)
  ELSE ShallowestOriginal(t, i)

(* Mutant: outer levels come before inner ones. *)
OuterFirst(inner, own) == own \o inner

InOrder(inner, own) == inner \o own

(* One level: "at" is the result for the nodes below.  The steps of a level  *)
(* are the details beside the score it changes, or a node as a whole.        *)
Unwrapped(t, i, at) ==
  LET prev  == PreviousScore(t, i)
      inner == IF Details(t, prev) = {} THEN [query |-> prev, steps |-> <<>>] ELSE at[prev + 1]
      own   == IF prev \notin Details(t, i) THEN <<i>>
               ELSE IF t[prev].kind \in Normalizers THEN <<prev>>
               ELSE Listed(Details(t, i) \ {prev})
      step(m) == [node |-> m, kind |-> t[i].kind, total |-> t[i].value]
  IN  IF prev = None THEN [query |-> i, steps |-> <<>>]
      ELSE [query |-> inner.query,
            steps |-> InOrder(inner.steps, [k \in DOMAIN own |-> step(own[k])])]

Levels(t) == LET at[i \in DOMAIN t] == Unwrapped(t, i, at) IN at

(* The explanation of the query, and the nodes of the rescores from inside   *)
(* to outside, each with the combination it is part of.                      *)
Traverse(t) == Levels(t)[1]

OperatorOf(kind) ==
  CASE kind \in {"product", "function_product"} -> "*"
    [] kind \in {"max", "function_max"}         -> "max"
    [] kind \in {"min", "function_min"}         -> "min"
    [] kind = "mean"                            -> "avg"
    [] OTHER                                    -> "+"

ModeOf(kind) ==
  CASE kind \in {"product", "function_product"} -> "multiply"
    [] kind \in {"max", "function_max"}         -> "max"
    [] kind \in {"min", "function_min"}         -> "min"
    [] kind = "mean"                            -> "avg"
    [] OTHER                                    -> "total"

OriginalScore(t, i) == ValueOf(t, FindKind(t, i, {"original"}))

NormalizedScore(t, i) == ValueOf(t, FindKind(t, i, {"normalizer"}))

FactorApplied(t, i) == ValueOf(t, FindKind(t, i, {"factor"}))

FactorMode(t, i) == AboutOf(t, FindKind(t, i, {"factor_mode"}))

NormalizerType(t, i) ==
  LET about == AboutOf(t, FindKind(t, i, Normalizers))
  IN  IF about # None THEN about ELSE AboutOf(t, FindKind(t, i, {"normalizer"}))

(* A step of the score: what it adds, how, and the score after it. *)
SummaryStep(t, s) ==
  LET custom == FindKind(t, s.node, Normalizers)
      val    == Or(FactorApplied(t, custom), Or(t[s.node].value, 0))
  IN  IF custom # None THEN [value |-> s.total, operator |-> "->", operand |-> val]
      ELSE [value |-> s.total, operator |-> OperatorOf(s.kind), operand |-> t[s.node].value]

(* Mutant: the value of the card is that of the rescore query. *)
TimelineStepOfNode(t, s) ==
  [value |-> t[s.node].value, operator |-> OperatorOf(s.kind), operand |-> t[s.node].value]

TimelineStep(t, s) ==
  LET custom == FindKind(t, s.node, Normalizers)
      val    == Or(FactorApplied(t, custom), Or(t[s.node].value, 0))
  IN  IF custom # None THEN [value |-> s.total, operator |-> "->", operand |-> val]
      ELSE [value |-> s.total, operator |-> OperatorOf(s.kind), operand |-> t[s.node].value]

-----------------------------------------------------------------------------
(* The score of the query: the text, and the functions that change it.       *)

OriginalText(t, i) ==
  LET fs == FindKind(t, i, FunctionScores)
  IN  IF fs = None THEN None ELSE ValueOf(t, First(Details(t, fs)))

(* Mutant: an addition is taken for a multiplication. *)
BoostProduct(t, i, text) ==
  [value |-> t[i].value, operator |-> "*", operand |-> <<t[i].value, text>>]

Boost(t, i, text) ==
  LET kind  == t[FindKind(t, i, FunctionScores)].kind
      value == t[i].value
      op    == CASE kind = "function_sum" -> "+"
                 [] kind = "function_min" -> "min"
                 [] kind = "function_max" -> "max"
                 [] kind = "function_replace" -> "->"
                 [] OTHER -> "*"
  IN  [value |-> value, operator |-> op,
       operand |-> CASE op = "*" -> IF text = 0 THEN <<1, 1>> ELSE <<value, text>>
                     [] op = "+" -> value - text
                     [] OTHER -> value]

Summary(t) ==
  LET hit   == Traverse(t)
      text  == OriginalText(t, hit.query)
      steps == [k \in DOMAIN hit.steps |-> SummaryStep(t, hit.steps[k])]
  IN  IF text = None THEN [query |-> t[hit.query].value, steps |-> steps]
      ELSE [query |-> text, steps |-> <<Boost(t, hit.query, text)>> \o steps]

Card(value) == [value |-> value, operator |-> None, operand |-> None]

Timeline(t, total) ==
  LET hit   == Traverse(t)
      text  == OriginalText(t, hit.query)
      steps == [k \in DOMAIN hit.steps |-> TimelineStep(t, hit.steps[k])]
      query == IF text = None THEN <<Card(t[hit.query].value)>>
               ELSE <<Card(text), Boost(t, hit.query, text)>>
  IN  query \o steps \o <<Card(total)>>

(* The combined score of the functions: the node of the score mode, or the   *)
(* second detail, or what the only detail was multiplied by.                 *)
CombinedScore(t, i) ==
  LET mode == FindKind(t, i, {"function_mode"})
      fs   == FindKind(t, i, FunctionScores)
      parts == Listed(Details(t, fs))
  IN  IF mode # None THEN t[mode].value
      ELSE IF fs = None THEN None
      ELSE IF Len(parts) >= 2 THEN t[parts[2]].value
      ELSE IF Len(parts) = 1 /\ t[parts[1]].value \notin {0, t[fs].value}
           THEN <<t[fs].value, t[parts[1]].value>>
      ELSE None

-----------------------------------------------------------------------------
(* The terms that scored, by field.                                          *)

In(v, w) == v = w \/ <<v, w>> \in PartOf

(* The names and values in the description of a node. *)
Names(n) ==
  CASE n.kind = "weight"                   -> {n.about.field, n.about.term}
    [] n.kind \in {"match", "exists"}      -> {n.about.field} \cup n.about.values
    [] n.kind \in {"decay", "field_value"} -> {n.about}
    [] n.kind = "script"                   -> {n.about.source} \cup ToSet(n.about.fields)
    [] OTHER                               -> {}

MentionsVector(n) == n.kind = "knn" \/ Names(n) \cap VectorLike # {}

(* The vector search of the request, or else of its query. *)
KnnField(request) ==
  IF request.knn # <<>> THEN Head(request.knn)
  ELSE IF request.knn_query # <<>> THEN Head(request.knn_query)
  ELSE None

VectorField(n, request) ==
  IF n.kind = "knn" /\ n.about.field # None THEN n.about.field ELSE KnnField(request)

Parts == {"boost", "idf", "tf", "freq"}

(* The walk overwrites: the last node of a kind counts. *)
PartsOf(t, i) ==
  [k \in Parts |-> LET S == {j \in Part(t, i) : t[j].kind = k}
                   IN  IF S = {} THEN None ELSE t[Max(S)].value]

(* A field as the list of terms has it: the text before the colon, for the   *)
(* term of a span or a synonym with what is written before the name.         *)
Listing(before, field) == [before |-> before, field |-> field]

TermFactor(t, i) ==
  [field |-> Listing(t[i].about.before, t[i].about.field), term |-> t[i].about.term,
   score |-> t[i].value, parts |-> PartsOf(t, i)]

VectorFactor(n, request) ==
  [field |-> Listing(None, VectorField(n, request)), term |-> "[Vector]", score |-> n.value,
   parts |-> [k \in Parts |-> 1]]

(* The nodes at which a walk that looks for them stops. *)
Topmost(t, i, Test(_)) ==
  {j \in Part(t, i) : Test(j) /\ \A k \in i .. j - 1 : Test(k) => j \notin Part(t, k)}

(* Mutant: only the terms right below a combination are found. *)
FactorsBelow(t, i, request) ==
  LET found == Listed({j \in Details(t, i) : t[j].kind = "weight"})
  IN  [k \in DOMAIN found |-> TermFactor(t, found[k])]

Factors(t, i, request) ==
  LET Counts(j) == \/ t[j].kind = "weight"
                   \/ MentionsVector(t[j]) /\ VectorField(t[j], request) # None
      found     == Listed(Topmost(t, i, Counts))
  IN  [k \in DOMAIN found |-> IF t[found[k]].kind = "weight" THEN TermFactor(t, found[k])
                              ELSE VectorFactor(t[found[k]], request)]

OfField(factors, f) == SelectSeq(factors, LAMBDA x : x.field = f)

Scores(factors) == [i \in DOMAIN factors |-> factors[i].score]

Fields(factors) == {factors[i].field : i \in DOMAIN factors}

FieldGroups(factors) ==
  [f \in Fields(factors) |->
     [total |-> SumSeq(Scores(OfField(factors, f))), tokens |-> OfField(factors, f)]]

(* A clause of a bool query searches fields or holds other clauses, as the   *)
(* nodes below it.  Of a bool clause only what is required or optional is    *)
(* read, and of a clause of a kind that is not known nothing.                *)
FieldsOfClause(c) ==
  UNION {c[i].fields : i \in {j \in DOMAIN c : \A k \in 1 .. j : j \in Part(c, k) =>
    c[k].kind # "other" /\ (k # 1 => c[k].role \in {"queries", "must", "should"})}}

InClauses(f, clauses) == \E i \in DOMAIN clauses : f \in FieldsOfClause(clauses[i])

(* The clause a listed field is said to score in: of the vector searches only *)
(* those beside the query are read.  What is found in none is a "must".       *)
ClauseOf(request, listed) ==
  LET f == listed.field
  IN  IF listed.before # None THEN "must"
      ELSE IF f \in ToSet(request.knn) THEN "knn"
      ELSE IF InClauses(f, request.must) THEN "must"
      ELSE IF InClauses(f, request.should) THEN "should"
      ELSE IF InClauses(f, request.filter) THEN "filter"
      ELSE "must"

SubDetails(t, i, request) ==
  LET factors == Factors(t, i, request)
  IN  [f \in Fields(factors) |->
         [score |-> SumSeq(Scores(OfField(factors, f))), clause |-> ClauseOf(request, f)]]

StructureType(n) ==
  CASE n.kind \in {"sum", "max", "min", "mean", "product"} -> n.kind
    [] MentionsVector(n)                                   -> "knn"
    [] n.kind = "weight"                                   -> "bm25"
    [] n.kind = "score"                                    -> "weight"
    [] n.kind \in FunctionScores                           -> "function_score"
    [] n.kind \in {"constant", "exists"}                   -> "constant_score"
    [] OTHER                                               -> "unknown"

(* The field is the name right before the first colon, whatever is written   *)
(* before it: "from" in "score(freq=1.0), computed as ... from:".            *)
StructureNode(n, request, depth) ==
  [type |-> StructureType(n), value |-> n.value, depth |-> depth,
   field |-> CASE StructureType(n) = "knn" -> VectorField(n, request)
               [] StructureType(n) = "bm25" -> n.about.field
               [] StructureType(n) = "weight" -> "from"
               [] OTHER -> None]

(* The tree of the structure has a node for each node of the explanation. *)
QueryStructure(t, i, request) ==
  [k \in 1 .. EndOf(t, i) - i + 1 |->
     LET n == t[i + k - 1] IN StructureNode(n, request, n.depth - t[i].depth)]

-----------------------------------------------------------------------------
(* Finding the node of each function of a function score.                    *)

(* The nearest function score product a node of the part at i is in. *)
ParentProduct(t, i, j) ==
  LET A == {k \in i .. j - 1 : j \in Part(t, k) /\ t[k].kind = "function_product"}
  IN  IF A = {} THEN j ELSE Max(A)

FindParent(t, i, Test(_)) ==
  LET found == Find(t, i, Test) IN IF found = None THEN None ELSE ParentProduct(t, i, found)

(* A weight is the second factor of the product beside the filter. *)
AppliedScore(t, i) ==
  LET factors == Listed(Details(t, i))
      applied == Listed(Details(t, factors[2]))
  IN  IF t[i].kind = "function_product" /\ Len(factors) >= 2 /\ t[factors[2]].kind = "product"
           /\ Len(applied) >= 2
      THEN t[applied[2]].value
      ELSE t[i].value

(* "field:value" is part of the description. *)
Shows(n, field, value) ==
  \/ /\ n.kind = "match" /\ n.about.kind \in {"term", "span"} /\ In(field, n.about.field)
     /\ \E v \in n.about.values : In(value, v)
  \/ n.kind = "weight" /\ In(field, n.about.field) /\ In(value, n.about.term)

ShowsFilter(n, filter) == \A v \in filter.values : Shows(n, filter.field, v)

ShowsSpan(n) ==
  \/ n.kind = "match" /\ n.about.kind = "span"
  \/ n.kind = "weight" /\ n.about.before = "spanNear"

(* A span query that was rewritten is known by its term and its weight.      *)
RewrittenSpan(t, i, fn) ==
  LET Fits(p) ==
        /\ \A v \in fn.filter.values : \E j \in Part(t, p) : Shows(t[j], fn.filter.field, v)
        /\ fn.weight # None => AppliedScore(t, p) = fn.weight
      byFilter  == Find(t, i, LAMBDA j : t[j].kind = "match" /\ Fits(ParentProduct(t, i, j)))
      byProduct == Find(t, i, LAMBDA j : t[j].kind = "function_product" /\ Fits(j))
  IN  IF byFilter # None THEN ParentProduct(t, i, byFilter) ELSE byProduct

(* Mutant: a filter is known by its field. *)
FilterNodeByField(t, i, fn) ==
  FindParent(t, i, LAMBDA j : t[j].kind = "match" /\ t[j].about.field = fn.filter.field)

FilterKinds == {"term", "terms", "exists", "match", "span"}

FilterNode(t, i, fn) ==
  LET filter == fn.filter
      Match(j) == t[j].kind = "match"
      Is(j)    == Match(j) /\ t[j].about.kind = filter.kind /\ t[j].about.field = filter.field
      Term(j)  == Is(j) /\ ShowsFilter(t[j], filter)
      Terms(j) == Is(j) /\ t[j].about.values = filter.values
      Exists(j) == Is(j) \/ (t[j].kind = "exists" /\ t[j].about.field = filter.field)
      Named(j)  == Match(j) /\ \E w \in Names(t[j]) : In(filter.field, w)
      span     == FindParent(t, i, LAMBDA j : ShowsSpan(t[j]) /\ ShowsFilter(t[j], filter))
  IN  CASE filter.kind = "term"   -> FindParent(t, i, Term)
        [] filter.kind = "terms"  -> FindParent(t, i, Terms)
        [] filter.kind = "exists" -> FindParent(t, i, Exists)
        [] filter.kind = "match"  -> FindParent(t, i, Named)
        [] filter.kind = "span"   -> IF span # None THEN span ELSE RewrittenSpan(t, i, fn)

(* A filter of another kind is not looked for. *)
HasFilter(fn) == fn.filter # None /\ fn.filter.kind \in FilterKinds

DecayNode(t, i, field) == Find(t, i, LAMBDA j : t[j].kind = "decay" /\ t[j].about = field)

(* The fields whose values are read in the description. *)
DocFields(n) ==
  CASE n.kind = "field_value" -> {n.about}
    [] n.kind = "script"      -> ToSet(n.about.fields)
    [] OTHER                  -> {}

FieldValueNode(t, i, field) == Find(t, i, LAMBDA j : field \in DocFields(t[j]))

(* The first script, a node with the beginning of the source, or with the    *)
(* first of its fields that is found.                                        *)
ScriptNode(t, i, fn) ==
  LET script  == FindKind(t, i, {"script"})
      snippet == Find(t, i, LAMBDA j : \E w \in Names(t[j]) : In(fn.about.source, w))
      fields  == fn.about.fields
      found   == {k \in DOMAIN fields : FieldValueNode(t, i, fields[k]) # None}
  IN  IF script # None THEN script
      ELSE IF snippet # None THEN snippet
      ELSE IF found = {} THEN None
      ELSE ParentProduct(t, i, FieldValueNode(t, i, fields[Min(found)]))

MatchQueryFunction(t, i, fn) ==
  IF HasFilter(fn) THEN FilterNode(t, i, fn)
  ELSE CASE fn.kind = "field_value" -> FieldValueNode(t, i, fn.about)
         [] fn.kind = "script"      -> ScriptNode(t, i, fn)
         [] fn.kind = "decay"       -> DecayNode(t, i, fn.about)
         [] OTHER                   -> None

MatchRescoreFunction(t, i, fn) ==
  CASE fn.kind = "field_value" -> FieldValueNode(t, i, fn.about)
    [] fn.kind = "script"      -> ScriptNode(t, i, fn)
    [] OTHER ->
         LET byFilter == IF HasFilter(fn) THEN FilterNode(t, i, fn) ELSE None
             span     == HasFilter(fn) /\ fn.filter.kind = "span"
         IN  IF byFilter = None /\ ~span /\ fn.kind = "decay" THEN DecayNode(t, i, fn.about)
             ELSE byFilter

Item(node, score) == [matched |-> node # None, score |-> score]

ItemAt(t, i) == Item(i, ValueOf(t, i))

WeightItem(t, i) == Item(i, IF i = None THEN 0 ELSE AppliedScore(t, i))

(* A function with a weight is shown as the weight, whatever else it is. *)
QueryFunction(t, i, fn) ==
  IF fn.weight # None THEN WeightItem(t, MatchQueryFunction(t, i, fn))
  ELSE CASE fn.kind = "field_value" -> ItemAt(t, FieldValueNode(t, i, fn.about))
         [] fn.kind = "script"      -> ItemAt(t, ScriptNode(t, i, fn))
         [] fn.kind = "decay"       -> ItemAt(t, MatchQueryFunction(t, i, fn))

RescoreFunction(t, i, fn) ==
  LET found == MatchRescoreFunction(t, i, fn)
  IN  IF fn.kind = "weight" THEN WeightItem(t, found) ELSE ItemAt(t, found)

-----------------------------------------------------------------------------
(* The details of a hit.                                                     *)

QueryDetail(t, request) ==
  LET query    == Traverse(t).query
      text     == OriginalText(t, query)
      original == IF text = None THEN t[query].value ELSE text
      final    == t[query].value
      combined == CombinedScore(t, query)
  IN  [original  |-> original,
       final     |-> final,
       combined  |-> IF combined = None /\ original \notin {0, final} THEN <<final, original>>
                     ELSE combined,
       groups    |-> FieldGroups(Factors(t, query, request)),
       functions |-> [k \in DOMAIN request.functions |->
                        QueryFunction(t, query, request.functions[k])],
       structure |-> QueryStructure(t, query, request)]

RequestOf(request, k) ==
  IF k \in DOMAIN request.rescores THEN request.rescores[k] ELSE None

RescoreDetail(t, request, s, k) ==
  LET asked  == RequestOf(request, k)
      custom == FindKind(t, s.node, Normalizers)
      fns    == IF asked = None THEN <<>> ELSE asked.functions
  IN  [score   |-> s.total,
       own     |-> t[s.node].value,
       type    |-> IF custom # None THEN "score_normalizer"
                   ELSE IF fns # <<>> THEN "query_rescore_function_score" ELSE "query_rescore",
       mode    |-> IF custom # None THEN "total" ELSE ModeOf(s.kind),
       weight  |-> IF asked = None THEN 1 ELSE asked.weight,
       how     |-> IF custom # None THEN <<NormalizerType(t, custom), FactorMode(t, custom)>>
                   ELSE <<ValueOf(t, FindKind(t, s.node, {"function_mode"}))>>,
       structure |-> QueryStructure(t, s.node, request),
       items   |-> IF custom # None
                   THEN <<Item(custom, OriginalScore(t, custom)),
                          Item(custom, NormalizedScore(t, custom)),
                          Item(custom, FactorApplied(t, custom))>>
                   ELSE [j \in DOMAIN fns |-> RescoreFunction(t, s.node, fns[j])]]

RescoreDetails(t, request) ==
  LET steps == Traverse(t).steps
  IN  [k \in DOMAIN steps |-> RescoreDetail(t, request, steps[k], k)]
=============================================================================
