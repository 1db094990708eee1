---- MODULE MCSearchExplain ----
(* Instances of SearchExplain: queries of one to four clauses, up to two     *)
(* functions, up to three rescores.                                          *)
EXTENDS SearchExplain

(* "embedding" is a field whose name a vector search is known by; the term   *)
(* "a" begins "ab", "name" ends "brand_name", and the source of one script   *)
(* is in the description of a function of the field "price".                 *)
FieldIdf == ("title" :> 3) @@ ("brand" :> 5) @@ ("body" :> 7) @@ ("tag" :> 2) @@ ("embedding" :> 4)

MCPartOf == {<<"a", "ab">>, <<"name", "brand_name">>, <<"doc_price", "price">>}

(* A clause as the sequence of its parts, with the terms and the explanation *)
(* of each clause that scores.  Of its fields, those in "before" are written *)
(* with something before them.                                               *)
Clause(kind, fields, parts) ==
  <<[kind |-> kind, fields |-> fields, role |-> "clause", depth |-> 0, before |-> None]>>
    \o [i \in DOMAIN parts |-> [parts[i] EXCEPT !.depth = @ + 1]]

As(role, clause) == [clause EXCEPT ![1].role = role]

On(f) == Clause("fields", {f}, <<>>)
Both == Clause("fields", {"title", "brand"}, <<>>)
Synonym(f) == [On(f) EXCEPT ![1].before = "Synonym"]
Other(f) == Clause("other", {f}, <<>>)
Best == Clause("dis_max", {}, As("queries", On("title")) \o As("queries", On("body")))
Nested == Clause("bool", {}, As("must", On("title")) \o As("should", Best)
                               \o As("filter", On("tag")))

(* What of a clause scores: all of it but filters. *)
Kept(c) == SelectSeq([i \in DOMAIN c |-> i],
                     LAMBDA i : \A k \in 1 .. i : i \in Part(c, k) => c[k].role # "filter")

TermsOf(clauses, role) ==
  LET Listings(n) == SetToSeq({Listing(n.before, f) : f \in n.fields})
      OfClause(c) ==
        FlattenSeq([k \in DOMAIN Kept(c) |->
          LET n == c[Kept(c)[k]]
          IN  [i \in DOMAIN Listings(n) |->
                 [field |-> Listings(n)[i], score |-> 2 * FieldIdf[Listings(n)[i].field],
                  clause |-> IF n.kind = "other" THEN "unread" ELSE role]]])
  IN  FlattenSeq([i \in DOMAIN clauses |-> OfClause(clauses[i])])

WeightNode(before, f) ==
  Node("weight", [before |-> before, field |-> f, term |-> "t"], 2 * FieldIdf[f],
       Node("score", None, 2 * FieldIdf[f],
            Leaf("boost", 1) \o Leaf("idf", FieldIdf[f]) \o Node("tf", None, 2, Leaf("freq", 3))))

(* Several explanations: their sum, or the best of them. *)
Combined(kind, trees) ==
  IF Len(trees) = 1 THEN trees[1]
  ELSE Node(kind, None,
            IF kind = "sum" THEN SumSeq([i \in DOMAIN trees |-> Value(trees[i])])
            ELSE Max({Value(trees[i]) : i \in DOMAIN trees}),
            FlattenSeq(trees))

RECURSIVE ClauseNode(_, _)
ClauseNode(c, i) ==
  LET fields == SetToSeq(c[i].fields)
      parts  == Listed({j \in Details(c, i) : c[j].role # "filter"})
  IN  CASE c[i].kind \in {"fields", "other"} ->
             Combined("max", [k \in DOMAIN fields |-> WeightNode(c[i].before, fields[k])])
        [] c[i].kind = "dis_max" -> Combined("max", [k \in DOMAIN parts |-> ClauseNode(c, parts[k])])
        [] c[i].kind = "bool"    -> Combined("sum", [k \in DOMAIN parts |-> ClauseNode(c, parts[k])])

KnnNode(f) == Node("knn", [field |-> f], 5, <<>>)

(* The vector searches are beside the query, or are the query. *)
Asked(must, should, filter, knn, knn_query) ==
  [must |-> must, should |-> should, filter |-> filter, knn |-> knn, knn_query |-> knn_query,
   terms |-> TermsOf(must, "must") \o TermsOf(should, "should")
               \o [i \in DOMAIN knn |-> [field |-> Listing(None, knn[i]), score |-> 5, clause |-> "knn"]]
               \o [i \in DOMAIN knn_query |->
                     [field |-> Listing(None, knn_query[i]), score |-> 5, clause |-> "unread"]],
   text |-> LET clauses == must \o should
            IN  Combined("sum", [i \in DOMAIN clauses |-> ClauseNode(clauses[i], 1)]
                                  \o [i \in DOMAIN knn |-> KnnNode(knn[i])]
                                  \o [i \in DOMAIN knn_query |-> KnnNode(None)]),
   functions |-> <<>>, boost |-> "function_product", rescores |-> <<>>]

Weight(filter, w, applies) ==
  [kind |-> "weight", about |-> None, filter |-> filter, value |-> 1, weight |-> w, score |-> w,
   applies |-> applies, rewritten |-> FALSE]

Function(kind, about, filter, value, applies) ==
  [kind |-> kind, about |-> about, filter |-> filter, value |-> value, weight |-> None,
   score |-> value, applies |-> applies, rewritten |-> FALSE]

Weighted(fn) == [fn EXCEPT !.weight = 2, !.score = 2 * fn.value]

Rewritten(fn) == [fn EXCEPT !.rewritten = TRUE]

Filter(kind, field, values) == [kind |-> kind, field |-> field, values |-> values]

Script(source, field) == [source |-> source, fields |-> <<field>>]

Functions(applies) ==
  {Weight(Filter("term", "tag", {"a"}), 2, applies),
   Weight(Filter("term", "tag", {"ab"}), 3, applies),
   Weight(Filter("terms", "tag", {"a", "b"}), 5, applies),
   Weight(Filter("exists", "tag", {}), 7, applies),
   Weight(Filter("match", "name", {"c"}), 11, applies),
   Weight(Filter("match", "brand_name", {"c"}), 13, applies),
   Weight(Filter("range", "tag", {}), 17, applies),
   Weight(Filter("span", "words", {"a"}), 19, applies),
   Rewritten(Weight(Filter("span", "words", {"b"}), 23, applies)),
   Function("field_value", "price", None, 29, applies),
   Weighted(Function("field_value", "stock", Filter("term", "tag", {"b"}), 31, applies)),
   Function("decay", "price", None, 37, applies),
   Weighted(Function("decay", "price", Filter("exists", "tag", {}), 41, applies)),
   Function("script", Script("doc_price", "price"), None, 43, applies),
   Function("script", Script("doc_rank", "rank"), Filter("range", "tag", {}), 47, applies)}

AllFunctions == Functions(TRUE) \cup Functions(FALSE)

FunctionLists ==
  {<<f>> : f \in AllFunctions}
    \cup {fs \in {<<f, g>> : f, g \in AllFunctions} : fs[1].score # fs[2].score}

Search0 == Asked(<<On("title")>>, <<>>, <<>>, <<>>, <<>>)

Texts ==
  {Asked(m, s, f, k, <<>>) :
     m \in {<<On("title")>>, <<Both, Synonym("title")>>, <<Nested, On("brand")>>},
     s \in {<<>>, <<On("tag"), Other("body"), Synonym("title")>>, <<Best, On("brand")>>},
     f \in {<<>>, <<On("tag"), On("title")>>},
     k \in {<<>>, <<"vector">>}}

(* The query is a vector search, a term has a vector-like name, and fields   *)
(* that functions filter by are asked for by the query as well.              *)
OddTexts ==
  {Asked(<<>>, <<>>, <<>>, k, <<"vector">>) : k \in {<<>>, <<"image">>}}
    \cup {Asked(<<On("embedding")>>, <<>>, <<>>, k, <<>>) : k \in {<<>>, <<"vector">>}}
    \cup {[Search0 EXCEPT !.text = Combined("sum", <<@, n>>)] :
            n \in {Node("exists", Filter("exists", "tag", {}), 0, <<>>)}}

Rescore(kind, fns, weight, reached) ==
  [kind |-> kind, text |-> WeightNode(None, "brand"), functions |-> fns, weight |-> weight,
   reached |-> reached]

Kinds == {"sum", "product", "max", "min", "mean", "normalizer"}

SomeFunctions == {<<>>, <<Weight(Filter("term", "tag", {"a"}), 2, TRUE),
                          Function("decay", "price", None, 23, TRUE)>>}

Chains ==
  {<<Rescore(k, f, 2, TRUE)>> : k \in Kinds, f \in SomeFunctions}
    \cup {<<Rescore(k, f, 2, a), Rescore(l, <<>>, 3, b)>> :
            k, l \in Kinds, f \in SomeFunctions, a, b \in BOOLEAN}
    \cup {<<Rescore(k, <<>>, 2, TRUE), Rescore(l, f, 3, TRUE), Rescore(m, <<>>, 5, c)>> :
            k, l, m \in {"sum", "product", "normalizer"}, f \in SomeFunctions, c \in BOOLEAN}

Boosts == FunctionScores \ {"function_mode"}

SomeSearches ==
  Texts \cup OddTexts
    \cup {[Search0 EXCEPT !.functions = f] : f \in FunctionLists}
    \cup {[t EXCEPT !.functions = <<f>>] : t \in OddTexts, f \in AllFunctions}
    \cup {[t EXCEPT !.functions = <<f>>, !.boost = b] :
            t \in Texts, f \in Functions(TRUE), b \in Boosts}
    \cup {[Search0 EXCEPT !.functions = f, !.rescores = c] : f \in SomeFunctions, c \in Chains}
    \cup {[Search0 EXCEPT !.rescores = <<Rescore("sum", f, 2, TRUE)>>] : f \in FunctionLists}

ASSUME AllScore == TextsScore
====
