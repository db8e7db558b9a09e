--------------------------- MODULE MCRecognition ---------------------------
(* A small instance of what happens to images.                             *)
EXTENDS Recognition, TLC

T(s, m, r) == [student |-> s, model |-> m, retention |-> r]
TheTemplates == 1 :> T("ann", "lvface", 10) @@ 2 :> T("bob", "lvface", 0) @@ 3 :> T("ann", "arcface", 0)
                @@ 4 :> T("bob", "arcface", 10)

F(p, a, b, c, d) == [usable |-> TRUE, probes |-> p, similarity |-> <<a, b, c, d>>]
TheFrames ==
    {<<F({"lvface"}, 8, 7, 7, 5), F({"lvface", "arcface"}, 7, 5, 8, 8)>>,
     <<F({"lvface", "arcface"}, 4, 4, 4, 4), [F({}, 0, 0, 0, 0) EXCEPT !.usable = FALSE], F({"lvface"}, 6, 7, 2, 2)>>}

TheTables == {<<"active", "active", "active", "active">>, <<"backup", "active", "active", "backup">>,
              <<"active", "backup", "quarantined", "active">>}

G(b, f, forced, w) ==
    [backend |-> b, diskann |-> TRUE, k |-> 2, activeOnly |-> FALSE, excludeQuarantined |-> TRUE,
     cohort |-> Students, fusion |-> f, forced |-> forced,
     weight |-> [arcface |-> w, lvface |-> 1],
     strict |-> [arcface |-> 75, lvface |-> 80], relaxed |-> [arcface |-> 60, lvface |-> 62],
     margin |-> 6]
TheGates ==
    {G("numpy", "weighted_average", "none", 2), G("numpy", "weighted_average", "lvface", 1),
     G("numpy", "max_confidence", "none", 1), G("hnsw", "lvface_only", "none", 1),
     [G("diskann", "weighted_average", "none", 0) EXCEPT !.activeOnly = TRUE],
     G("hnsw", "weighted_average", "arcface", 1)}

(* a1 and a3 are near copies, a1 and b1 too alike to tell apart.           *)
TheSimilarity ==
    [p \in Pairs |->
        CASE p[1] = p[2] -> 1000
          [] {p[1], p[2]} = {"a1", "a2"} -> 700
          [] {p[1], p[2]} = {"a1", "a3"} -> 996
          [] {p[1], p[2]} = {"a1", "b1"} -> 940
          [] OTHER -> -10]

B(a, near, in) == [area |-> a, near |-> near, inside |-> in]
Alone == <<B(900, {}, TRUE)>>
P(f, boxes) == [file |-> "image", area |-> 10000, boxes |-> boxes, flaws |-> {},
                pose |-> "left_34", sure |-> 60, face |-> f]
R(s, auto, album) == [person |-> s, label |-> "frontal", auto |-> auto, album |-> album]
TheRequests ==
    {R("ann", FALSE, <<P("a1", Alone), P("a3", <<B(900, {2}, TRUE), B(700, {1}, TRUE)>>)>>),
     R("ann", TRUE, <<P("a2", <<B(100, {}, TRUE), B(50, {}, TRUE)>>),
                      [P("a2", Alone) EXCEPT !.file = "empty"], P("b1", <<B(20, {}, FALSE)>>)>>),
     R("bob", TRUE, <<P("b1", <<B(100, {}, TRUE), B(30, {}, TRUE)>>),
                      [P("a1", Alone) EXCEPT !.sure = 10, !.flaws = {"image_too_blurry"}]>>),
     R("ann", FALSE, <<P("a2", Alone)>>),
     R("bob", FALSE, <<[P("a1", Alone) EXCEPT !.file = "garbage"], P("none", Alone), P("invalid", Alone),
                       P("a1", <<>>), P("a1", <<B(0, {}, TRUE)>>)>>)}

S(f, s) == [face |-> f, spoof |-> s]
Shots == UNION {[1 .. n -> {S("none", FALSE), S("tiny", FALSE), S("clear", FALSE), S("clear", TRUE)}] : n \in {2, 3}}
TheClips == [samples : Shots, motion : {"still", "slight", "strong"}, sway : BOOLEAN,
             pulse : BOOLEAN, scattering : BOOLEAN]
NoTemplates == <<>>
=============================================================================
