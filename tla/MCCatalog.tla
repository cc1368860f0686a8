----------------------------- MODULE MCCatalog -----------------------------
(* Two jobs of one source: the first captures page 1, which links to page  *)
(* 2; the second finds page 1 gone, with the same body, page 1 with a      *)
(* query, and page 2.                                                      *)
EXTENDS PublicApi, TLC

MCCapture ==
    LET capture(j, g, u, t, h, c, l) ==
        [job |-> j, group |-> g, url |-> u, ts |-> t, day |-> 1, hash |-> h, code |-> c, links |-> l]
        all == 1 :> capture(1, 1, 1, 1, 1, 200, {2}) @@ 2 :> capture(2, 1, 1, 2, 1, 404, {})
            @@ 3 :> capture(2, 2, 3, 2, 2, 200, {}) @@ 4 :> capture(2, 1, 2, 1, 2, 200, {})
    IN  [c \in Captures |-> all[c]]

MCMatch == [c \in Captures |-> (
    1 :> (1 :> {"fts", "part"} @@ 2 :> {"part"}) @@ 2 :> (1 :> {"part"} @@ 2 :> {"like"})
 @@ 3 :> (1 :> {"fts", "part"} @@ 2 :> {"body"}) @@ 4 :> (1 :> {} @@ 2 :> {}))[c]]

MCRank == [c \in Captures |-> [full \in BOOLEAN |->
              IF c = 2 THEN 3 ELSE IF full THEN 2 ELSE 1]]

Browse(view, non2xx, dups) ==
    [text |-> "none", word |-> 1, group |-> 1, wanted |-> TRUE, view |-> view, sort |-> "newest",
     ranking |-> "v1", non2xx |-> non2xx, dups |-> dups, from |-> 0, to |-> 0]

Search(word, view, ranking, dups) ==
    [Browse(view, TRUE, dups) EXCEPT !.text = "words", !.word = word, !.sort = "relevance",
                                     !.ranking = ranking]

MCQueries ==
    {Browse(v, n, d) : v \in {"pages", "snapshots"}, n \in BOOLEAN, d \in BOOLEAN}
        \cup {Search(1, "pages", r, FALSE) : r \in {"v1", "v2"}}
        \cup {Search(w, "snapshots", "v1", TRUE) : w \in {1, 2}}
        \cup {[Search(w, "pages", "v1", TRUE) EXCEPT !.sort = "newest"] : w \in {1, 2}}
        \cup {[Search(1, "snapshots", "v2", FALSE) EXCEPT !.text = "boolean", !.wanted = b] : b \in BOOLEAN}
        \cup {[Browse("snapshots", TRUE, FALSE) EXCEPT !.text = "url"],
               [Browse("pages", FALSE, TRUE) EXCEPT !.from = 1, !.to = 1]}
=============================================================================
