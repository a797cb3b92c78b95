----------------------------- MODULE MCPromptHook -----------------------------
(* Two guides and a document of one tier, and a noun row of a lower tier for  *)
(* the first guide; the second guide has two lines, so that a transcript may  *)
(* show one of them.                                                          *)
EXTENDS PromptHook, TLC

CONSTANTS h1, h2, s1, l1, l2, l3, l4, f1, f2, f3, f4, g1, g2, d1

MCFactOf == l1 :> f1 @@ l2 :> f2 @@ l3 :> f3 @@ l4 :> f4
MCFoundIn == f1 :> g1 @@ f2 :> g2 @@ f3 :> g2 @@ f4 :> d1
MCKey == {"guide1", "noun1", "guide2", "doc"}
MCSourceOf == "guide1" :> g1 @@ "noun1" :> g1 @@ "guide2" :> g2 @@ "doc" :> d1
MCKindOf == "guide1" :> "guide" @@ "noun1" :> "noun" @@ "guide2" :> "guide"
            @@ "doc" :> "markdown"
MCTierOf == "guide1" :> 3 @@ "noun1" :> 2 @@ "guide2" :> 3 @@ "doc" :> 3
MCCatalog == <<"noun1", "guide2", "guide1", "doc">>
=============================================================================
