--------------------------- MODULE SearchExplain ----------------------------
(***************************************************************************)
(* Explaining a search: the summary of a hit and then its details, against *)
(* the search that was asked for.                                          *)
(*                                                                         *)
(* Elasticsearch is external: the tree in which it explains a hit is built *)
(* here from the search, around the trees of the texts searched for, in    *)
(* the shapes the mapper looks for and its tests show.  The properties say *)
(* that the mapper reads the search back out of the tree: which scores it  *)
(* went through, by which functions and clauses.                           *)
(***************************************************************************)
EXTENDS Explanation, FiniteSets, TLC

CONSTANT Searches   \* the searches, with how Elasticsearch explains their texts

TextKinds ==
  {"weight", "score", "boost", "idf", "tf", "freq", "sum", "max", "min", "mean", "product",
   "constant", "exists", "knn"}

FunctionKinds == {"weight", "field_value", "decay", "script"}

RescoreKinds == {"sum", "product", "max", "min", "mean", "normalizer"}

IsSequence(s) == s \in Seq(ToSet(s))

(* A tree of terms, combinations and vectors: a node is at most one level    *)
(* below the node before it.                                                 *)
IsText(t) ==
  /\ IsSequence(t) /\ t # <<>> /\ t[1].depth = 0
  /\ \A i \in 2 .. Len(t) : t[i].depth \in 1 .. t[i - 1].depth + 1
  /\ \A i \in DOMAIN t : /\ DOMAIN t[i] = {"kind", "about", "value", "depth"}
                          /\ t[i].kind \in TextKinds /\ t[i].value \in Int

(* A function has a value and perhaps a weight; one that is only a weight is  *)
(* of the kind "weight".                                                     *)
AreFunctions(fns) ==
  /\ IsSequence(fns)
  /\ \A i \in DOMAIN fns :
       /\ fns[i].kind \in FunctionKinds /\ fns[i].score \in Int
       /\ fns[i].score = IF fns[i].weight = None THEN fns[i].value ELSE fns[i].value * fns[i].weight

ASSUME SearchesAssumption ==
  /\ None \notin Searches /\ None \notin Int
  /\ \A q \in Searches :
       /\ IsText(q.text) /\ AreFunctions(q.functions)
       /\ q.boost \in FunctionScores \ {"function_mode"}
       /\ IsSequence(q.rescores)
       /\ \A r \in ToSet(q.rescores) :
            r.kind \in RescoreKinds /\ IsText(r.text) /\ AreFunctions(r.functions)

VARIABLES
  search,     \* the search whose hit is looked at
  summary,    \* the answer to the request for summaries
  detail      \* the answer to the request for the details of the hit

vars == <<search, summary, detail>>

-----------------------------------------------------------------------------
(* How Elasticsearch explains a hit.                                         *)

(* A node with its details, one after the other. *)
Node(kind, about, value, details) ==
  <<[kind |-> kind, about |-> about, value |-> value, depth |-> 0]>>
    \o [i \in DOMAIN details |-> [details[i] EXCEPT !.depth = @ + 1]]

Leaf(kind, value) == Node(kind, None, value, <<>>)

Value(t) == t[1].value

Larger(a, b) == IF a < b THEN b ELSE a

Smaller(a, b) == IF a < b THEN a ELSE b

(* The filter as it is written: a query of one term can be rewritten to it.  *)
Written(fn) ==
  IF fn.filter = None THEN [kind |-> "all", field |-> None, values |-> {}]
  ELSE IF fn.rewritten THEN [fn.filter EXCEPT !.kind = "term"] ELSE fn.filter

FunctionNode(fn) ==
  LET own  == IF fn.kind = "weight" THEN Leaf("constant", 1)
              ELSE Node(fn.kind, fn.about, fn.value, <<>>)
      made == IF fn.weight = None THEN own
              ELSE Node("product", None, fn.score, own \o Leaf("number", fn.weight))
  IN  Node("function_product", None, fn.score, Node("match", Written(fn), 1, <<>>) \o made)

(* The functions whose filter the hit passes. *)
Applying(fns) ==
  LET p == Listed({i \in DOMAIN fns : fns[i].applies}) IN [k \in DOMAIN p |-> fns[p[k]]]

ProductOf(fns) ==
  LET p[i \in 0 .. Len(fns)] == IF i = 0 THEN 1 ELSE p[i - 1] * fns[i].score IN p[Len(fns)]

FunctionsNode(fns) ==
  LET applying == Applying(fns)
  IN  IF applying = <<>> THEN Leaf("constant", 1)
      ELSE Node("function_mode", None, ProductOf(applying),
                FlattenSeq([i \in DOMAIN applying |-> FunctionNode(applying[i])]))

BoostedValue(kind, text, f) ==
  CASE kind = "function_product" -> text * f
    [] kind = "function_sum"     -> text + f
    [] kind = "function_max"     -> Larger(text, f)
    [] kind = "function_min"     -> Smaller(text, f)
    [] kind = "function_replace" -> f

Boosted(text, fns, kind) ==
  IF fns = <<>> THEN text
  ELSE Node(kind, None, BoostedValue(kind, Value(text), Value(FunctionsNode(fns))),
            text \o FunctionsNode(fns))

RescoreQuery(r) == Boosted(r.text, r.functions, "function_product")

Original(t) == Node("original", None, Value(t), t)

RescoredValue(kind, score, own) ==
  CASE kind = "sum"     -> score + own
    [] kind = "product" -> score * own
    [] kind = "max"     -> Larger(score, own)
    [] kind = "min"     -> Smaller(score, own)
    [] kind = "mean"    -> (score + own) \div 2

FactorNodes(v) == Leaf("factor", v) \o Node("factor_mode", "multiply", v, <<>>)

NormalizerNode(t, v) == Node("normalizer", "min_max", v, Original(t) \o FactorNodes(v))

(* The level of a rescore around the explanation of what it rescores. *)
Normalized(t) ==
  LET v == Value(t) \div 2 + 1 IN Node("sum", None, v, NormalizerNode(t, v))

Rescored(t, r) ==
  Node(r.kind, None, RescoredValue(r.kind, Value(t), Value(RescoreQuery(r))),
       Original(t) \o RescoreQuery(r))

Level(t, r) == IF r.kind = "normalizer" THEN Normalized(t) ELSE Rescored(t, r)

(* A hit is rescored only by the rescores whose window it is in. *)
Reached(q) ==
  LET p == Listed({i \in DOMAIN q.rescores : q.rescores[i].reached})
  IN  [k \in DOMAIN p |-> q.rescores[p[k]]]

(* The explanations of the hit after the query and after each rescore. *)
Explained(q) ==
  LET tree[i \in 0 .. Len(Reached(q))] ==
        IF i = 0 THEN Boosted(q.text, q.functions, q.boost)
        ELSE Level(tree[i - 1], Reached(q)[i])
  IN  tree

Explain(q) == Explained(q)[Len(Reached(q))]

-----------------------------------------------------------------------------
Init == search = None /\ summary = None /\ detail = None

(* The hits of a search, each summarized. *)
Summarize(q) ==
  /\ search' = q
  /\ summary' = Summary(Explain(q))
  /\ detail' = None

DetailOf(q) ==
  LET t == Explain(q)
  IN  [query |-> QueryDetail(t, q), rescores |-> RescoreDetails(t, q),
       timeline |-> Timeline(t, Value(t)), fields |-> SubDetails(t, Traverse(t).query, q)]

(* The search is made again for one of the hits it had. *)
Detail ==
  /\ search # None
  /\ detail' = DetailOf(search)
  /\ UNCHANGED <<search, summary>>

(* The document is not among the hits any more: a ValueError, a status 500. *)
DetailMissing ==
  /\ search # None
  /\ detail' = None
  /\ UNCHANGED <<search, summary>>

Next == (search = None /\ \E q \in Searches : Summarize(q)) \/ Detail \/ DetailMissing

Spec == Init /\ [][Next]_vars

-----------------------------------------------------------------------------
Answered == search # None /\ detail # None

Skipped(q) == IF q.functions = <<>> THEN 1 ELSE 2

(* The timeline shows the scores the hit went through: the score of the text,*)
(* of the functions, of each rescore in the order of the search, however the *)
(* levels of the explanation are nested, and the total.                      *)
RunningTotals ==
  Answered =>
    LET line == detail.timeline
        b    == Skipped(search)
        n    == Len(Reached(search))
    IN  /\ Len(line) = b + n + 1
        /\ line[1].value = Value(search.text)
        /\ \A i \in 0 .. n : line[b + i].value = Value(Explained(search)[i])
        /\ line[b + n + 1].value = Value(Explain(search))

(* A normalizer rescores what other rescores have made: of its step, the     *)
(* mapper shows the node or the factor of the level inside it.               *)
NormalizedAgain(q) ==
  \E i \in DOMAIN Reached(q) \ {1} : Reached(q)[i].kind = "normalizer"

(* The hit is in the windows of the first rescores, up to one. *)
LeftInOrder(q) == IsPrefix(Reached(q), q.rescores)

(* The functions' step: what was combined with the score of the text. *)
BoostExplained(step, combined) ==
  CASE step.operator = "*" -> /\ search.boost = "function_product"
                              /\ step.operand[1] = step.operand[2] * combined
    [] step.operator = "+" -> search.boost = "function_sum" /\ step.operand = combined
    [] OTHER               -> step.operand = Value(Explained(search)[0])

(* Original and combined score of the query make its final score. *)
QueryComposed ==
  search.functions # <<>> =>
    LET d == detail.query
    IN  CASE search.boost = "function_product" -> d.original * d.combined = d.final
          [] search.boost = "function_sum"     -> d.original + d.combined = d.final
          [] OTHER                             -> d.final \in {d.original, d.combined}

(* Each step of the timeline, and the detail of its query or rescore, says   *)
(* what the functions, or the rescore, contributed and how it was combined.  *)
StepsExplained ==
  /\ Answered => QueryComposed
  /\ Answered /\ ~NormalizedAgain(search) =>
       /\ search.functions # <<>> =>
            BoostExplained(detail.timeline[2], Value(FunctionsNode(search.functions)))
       /\ \A i \in DOMAIN Reached(search) :
            LET r    == Reached(search)[i]
                step == detail.timeline[Skipped(search) + i]
                how  == detail.rescores[i].how
            IN  IF r.kind = "normalizer"
                THEN /\ step.operator = "->" /\ step.operand = Value(Explained(search)[i])
                     /\ how = <<"min_max", "multiply">>
                ELSE /\ step.operand = Value(RescoreQuery(r))
                     /\ Applying(r.functions) # <<>> =>
                          how = <<Value(FunctionsNode(r.functions))>>
                     /\ step.operator = CASE r.kind = "sum" -> "+" [] r.kind = "product" -> "*"
                                          [] r.kind = "mean" -> "avg" [] OTHER -> r.kind

(* The nodes of a structure that stand for a term or a vector. *)
ScoringNodes(s) ==
  LET found == Listed(Topmost(s, 1, LAMBDA j : s[j].type \in {"bm25", "knn"}))
  IN  [k \in DOMAIN found |-> [field |-> s[found[k]].field, score |-> s[found[k]].value]]

(* What mentions a vector is one that has its field, or gets it from the     *)
(* search.  (A term of a vector-like name is a term in the list of terms, but *)
(* a vector in the structure.)                                               *)
PlainNode(n, q) == MentionsVector(n) => n.kind = "knn" /\ VectorField(n, q) # None

PlainHit(q) == \A j \in DOMAIN Explain(q) : PlainNode(Explain(q)[j], q)

(* Summary, timeline and rescore details tell the same of a hit; and of a    *)
(* plain hit the structure of the query and the list of terms show the same  *)
(* scores in the same order, of the same fields but for what the list has    *)
(* before the name of a field, such as "span(": each is read from the tree   *)
(* with code of its own.                                                     *)
ViewsAgree ==
  Answered =>
    LET line    == detail.timeline
        factors == Factors(Explain(search), Traverse(Explain(search)).query, search)
    IN  /\ summary.query = line[1].value /\ summary.query = detail.query.original
        /\ summary.steps = SubSeq(line, 2, Len(line) - 1)
        /\ [i \in DOMAIN detail.rescores |-> detail.rescores[i].score]
             = [i \in DOMAIN Reached(search) |-> line[Skipped(search) + i].value]
        /\ PlainHit(search) =>
             ScoringNodes(detail.query.structure)
               = [i \in DOMAIN factors |->
                    [field |-> factors[i].field.field, score |-> factors[i].score]]

(* The clauses of the terms of a listed field that the mapper reads. *)
ClausesRead(f) == {x.clause : x \in ToSet(OfField(search.terms, f))} \ {"unread"}

(* Of several vector searches, one does not say which field it searched: it  *)
(* is listed under that of the first.                                        *)
FieldGuessed(q) ==
  /\ Len(q.knn) + Len(q.knn_query) > 1
  /\ \E n \in ToSet(q.text) : n.kind = "knn" /\ n.about.field = None

(* Every term that scored is listed once, under its field (the term of a     *)
(* span or a synonym under its field with what is written before it), with a *)
(* score its parts explain, whatever combinations and functions are around   *)
(* it; and a field that scored in clauses the mapper can read is shown in one *)
(* of these, not as a filter, although the query may filter by it as well;   *)
(* unless the field of a vector is guessed.                                  *)
TermsListedOnce ==
  Answered /\ ~FieldGuessed(search) =>
    LET groups == detail.query.groups
        terms  == search.terms
    IN  /\ DOMAIN groups = Fields(terms)
        /\ \A f \in Fields(terms) :
             /\ groups[f].total = SumSeq(Scores(OfField(terms, f)))
             /\ Len(groups[f].tokens) = Len(OfField(terms, f))
             /\ f.before = None /\ ClausesRead(f) # {} => detail.fields[f].clause \in ClausesRead(f)
             /\ \A x \in ToSet(groups[f].tokens) :
                  x.term # "[Vector]" => x.score = x.parts["boost"] * x.parts["idf"] * x.parts["tf"]

(* A function is looked for by a filter of a known kind, or as what it is. *)
LookedFor(fn) == HasFilter(fn) \/ fn.kind # "weight"

OwnNode(fn) == IF fn.kind = "weight" THEN [kind |-> "constant", about |-> None]
               ELSE [kind |-> fn.kind, about |-> fn.about]

(* The filter of a function could be taken for the one that is written. *)
FilterLike(f, written) ==
  LET begun == \E v \in f.values, w \in written.values : In(v, w)
  IN  CASE f.kind \in {"exists", "terms"} -> written = f
        [] f.kind = "term"  -> written.kind = "term" /\ written.field = f.field /\ begun
        [] f.kind = "match" -> \E w \in {written.field} \cup written.values : In(f.field, w)
        [] f.kind = "span"  -> written.kind \in {"term", "span"} /\ In(f.field, written.field) /\ begun

(* A function could be taken for what a node of these names reads. *)
OwnLike(fn, node, names) ==
  CASE fn.kind = "field_value" -> fn.about \in DocFields(node)
    [] fn.kind = "decay"       -> node = OwnNode(fn)
    [] fn.kind = "script"      -> \/ node.kind = "script"
                                  \/ ToSet(fn.about.fields) \cap DocFields(node) # {}
                                  \/ \E w \in names : In(fn.about.source, w)
    [] OTHER                   -> FALSE

(* The words by which fn is looked for are in the nodes of the function g. *)
Like(fn, g) ==
  \/ HasFilter(fn) /\ FilterLike(fn.filter, Written(g))
  \/ OwnLike(fn, OwnNode(g), {Written(g).field} \cup Written(g).values \cup Names(OwnNode(g)))

(* They are in the explanation of the text. *)
LikeText(fn, text) ==
  \E n \in ToSet(text) :
    \/ /\ HasFilter(fn) /\ fn.filter.kind = "exists"
       /\ n.kind = "exists" /\ n.about.field = fn.filter.field
    \/ HasFilter(fn) /\ fn.filter.kind = "span" /\ \E v \in fn.filter.values : Shows(n, fn.filter.field, v)
    \/ fn.kind = "script" /\ \E w \in Names(n) : In(fn.about.source, w)

(* A function that applied to the hit is reported as matched, if the mapper  *)
(* looks for it; and one that no other that applied, nor the text, could be  *)
(* taken for is matched only if it applied, and has the score that it has in *)
(* the explanation (a weight, or a function without one).                    *)
Reported(fns, text, items) ==
  /\ Len(items) = Len(fns)
  /\ \A i \in DOMAIN fns : LookedFor(fns[i]) =>
       LET fn   == fns[i]
           like == {j \in DOMAIN fns \ {i} : fns[j].applies /\ Like(fn, fns[j])}
       IN  /\ fn.applies => items[i].matched
           /\ like = {} /\ ~LikeText(fn, text) =>
                /\ items[i].matched = fn.applies
                /\ fn.applies /\ (fn.weight = None \/ fn.kind = "weight") =>
                     items[i].score = fn.score

(* The functions of the query are reported so, whatever others apply to the  *)
(* same fields; and those of a rescore with the settings of that rescore, if *)
(* the hit left the windows one after another.                               *)
FunctionsReported ==
  Answered =>
    /\ Reported(search.functions, search.text, detail.query.functions)
    /\ LeftInOrder(search) =>
         \A i \in DOMAIN Reached(search) :
           LET r == Reached(search)[i]
           IN  /\ detail.rescores[i].weight = r.weight
               /\ r.kind # "normalizer" /\ ~NormalizedAgain(search) =>
                    Reported(r.functions, r.text, detail.rescores[i].items)

-----------------------------------------------------------------------------
(* What the theorem on the steps assumes of the searches: the text of a      *)
(* search with functions has a score, as the mapper shows the factor of the  *)
(* functions as the quotient by it, and as one if it is zero.                *)
TextsScore == \A q \in Searches : q.functions # <<>> => Value(q.text) # 0
=============================================================================
