--------------------------- MODULE MCResearchGraph ---------------------------
(* Three pages: an official one with a low score, an ordinary one found    *)
(* under two URLs with different scores, another ordinary one, and one of  *)
(* a host that is left out.  The limits cut, and the gap search brings     *)
(* better or other documents.                                              *)
EXTENDS ResearchGraph

MCPages == {"official", "news", "blog", "farm"}
MCQuality == [p \in MCPages |-> CASE p = "official" -> 1 [] p = "farm" -> -1 [] OTHER -> 0]

Doc(page, canonical, score) ==
    [url |-> [page |-> page, canonical |-> canonical], score |-> score]

official == Doc("official", TRUE, 1)
newsOld == Doc("news", TRUE, 1)
newsNew == Doc("news", FALSE, 3)
blog == Doc("blog", TRUE, 2)
farm == Doc("farm", TRUE, 3)

MCDocuments == {official, newsOld, newsNew, blog, farm}
MCPayloads == {<<newsNew, farm, Blank>>, <<newsOld, blog, official>>, <<blog, Invalid>>}
MCQueryCount == [m \in Modes |-> IF m = "quick" THEN 1 ELSE 2]
MCSourceLimit == [m \in Modes |-> IF m = "quick" THEN 1 ELSE 2]
=============================================================================
