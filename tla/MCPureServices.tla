--------------------------- MODULE MCPureServices ---------------------------
(* Small batches, pools, sessions, requests and answers, on both sides of most thresholds. *)
EXTENDS PureServices

Pairs(S) == S \X S

\* Every tier of every signal, and a talent who signed up too late or left.
Gems ==
    [active : {TRUE}, idle : {0}, signup : {14}, fragments : {14, 43}, streak : {6, 7, 30},
     avg : {69, 70, 85}, challenges : {4, 15}, followers : {100, 101, 501}]
    \cup [active : {TRUE}, idle : {0}, signup : {13}, fragments : {43}, streak : {30},
          avg : {85}, challenges : {15}, followers : {100}]
    \cup [active : {FALSE}, idle : {0}, signup : {14}, fragments : {43}, streak : {30},
          avg : {85}, challenges : {15}, followers : {100}]

GemBatches ==
    [kind : {"gems"}, items : Gems \X {t \in Gems : t.streak # 7 /\ t.avg # 70}, asked : {0}, top : {1}]

Leavers ==
    [active : {TRUE}, idle : {1, 7, 14}, streak : {0, 2, 3}, challenges : {0, 3},
     avg : {0, 40}, signup : {14, 15}, fragments : {19}, followers : {0}]
    \cup [active : {FALSE}, idle : {1}, streak : {3}, challenges : {3},
          avg : {0}, signup : {30}, fragments : {20}, followers : {0}]

ChurnBatches == [kind : {"churn"}, items : Pairs(Leavers), asked : {14}, top : {0}]

Users == [domain : {"code"}, title : {"Apprenti", "Maitre"}, weak : {{"async", "sql"}},
          strong : {{"loops"}}, completed : {{"c0"}}]
Challenges ==
    [id : {"c1"}, domain : {"code", "design"}, difficulty : {1, 2, 4},
     skills : {<<>>, <<"async">>, <<"loops", "async", "async">>}, completions : {50, 51, 501}]
    \cup [id : {"c0"}, domain : {"code"}, difficulty : {2}, skills : {<<"async">>}, completions : {51}]

RecommendBatches ==
    [kind : {"recommend"}, items : Challenges \X {c \in Challenges : c.completions # 501},
     asked : Users, top : {1, 2}]

Candidates ==
    [domains : {{}, {"code"}, {"code", "data"}}, fragments : {499, 500},
     title : {"Apprenti", "Maitre", "Stagiaire"}, country : {"fr"}, languages : {{}, {"go"}},
     trust : {0, 70}, similarity : {5}]
    \cup [domains : {{"code"}}, fragments : {500}, title : {"Maitre"}, country : {"be"},
          languages : {{"go"}}, trust : {70}, similarity : {10}]
Criteria ==
    [domains : {<<>>, <<"data", "code", "code">>}, fragments : {500}, title : {"Artisan"},
     country : {"fr"}, languages : {<<"go">>}, described : {TRUE}]
    \cup [domains : {<<"code">>}, fragments : {0}, title : {""}, country : {""},
          languages : {<<>>}, described : {FALSE}]

MatchBatches ==
    [kind : {"match"}, items : Candidates \X {t \in Candidates : t.title # "Stagiaire"},
     asked : Criteria, top : {0}]

\* Three items, ties among them.
Trios(S) == S \X S \X S
TrioBatches ==
    [kind : {"gems"}, asked : {0}, top : {2},
     items : Trios({t \in Gems : t.streak = 30 /\ t.avg = 85 /\ t.fragments = 43})]
    \cup [kind : {"recommend"}, asked : Users, top : {2},
          items : Trios({c \in Challenges : c.difficulty = 2 /\ c.completions = 51})]

MCBatches == GemBatches \cup ChurnBatches \cup RecommendBatches \cup MatchBatches \cup TrioBatches

\* Combined scores just below 0.8, on it, above it, in the middle between two roundings.
Compared ==
    [ast : {79990, 79995, 80000, 100000}, embedding : {79995, 80000}]
    \cup [ast : {0, 50000}, embedding : {0, 50005}]
MCChecks == [pool : {<<>>}, threshold : {0, 5000}]
       \cup [pool : Pairs(Compared) \cup Trios({s \in Compared : s.embedding = 80000}),
             threshold : {0, 5000, 8000, 9000}]

\* Edits of every type; sessions long enough for more than one frame a second.
Event(t, n, c) == [type |-> t, size |-> n, count |-> c]
Edits == {Event("insert", n, {}) : n \in {0, 2}}
    \cup {Event("delete", 1, c) : c \in {{}, {0}, {1}, {3}, {-1}}}
    \cup {Event("replace", 1, {}), Event("snapshot", 2, {}), Event("cursor", 1, {})}
MCSessions ==
    [events : UNION {[1 .. n -> Edits] : n \in 0 .. 4}, duration : {0}]
    \cup [events : {[i \in 1 .. n |-> Event("insert", 1, {})] : n \in 1 .. 16},
          duration : {0, 50, 60, 79}]
\* Sources an engine sees little of: the empty one, a comment, one token; a copy with other
\* names; two of some length.
Code(tree, words, chars) == [tree |-> tree, words |-> words, chars |-> chars]
Empty == Code(<<"module">>, <<>>, <<>>)
Comment == Code(<<"module(", ")">>, <<>>, <<"#", "c">>)
One == Code(<<"module(", "VAR", ")">>, <<"x">>, <<"x">>)
Renamed == Code(<<"module(", "VAR", ")">>, <<"y">>, <<"y">>)
Sum1 == Code(<<"module(", "VAR", "+", "VAR", ")">>, <<"x", "+", "y">>, <<"x", "+", "y">>)
Sum2 == Code(<<"module(", "VAR", "+", "VAR", "+", "VAR", ")">>, <<"x", "+", "y", "+", "y">>,
             <<"x", "+", "y", "+", "y">>)
Codes == {Empty, Comment, One, Renamed, Sum1, Sum2}

Job(s, pool, l) == [source |-> s, pool |-> pool, language |-> l]
FirstJobs == {Job(s, <<o>>, l) : s \in Codes, o \in Codes, l \in {"python", "kotlin"}}
        \cup {Job(s, <<o, s>>, "python") : s \in Codes, o \in Codes}
MCJobs == {<<j>> : j \in FirstJobs}
     \cup FirstJobs \X {Job(Sum2, <<Sum2>>, "python"), Job(One, <<One, Renamed>>, "go")}
MCCosines == {-2000, 50005}
MCVanishing == {Comment.chars}

\* Two searches, the second with texts of the first, for a cache of two.
OneSearch == [job : {"job1", "job2", " "},
              profiles : {<<"ana", "bob">>, <<"bob", "ana">>, <<"ana", "bob", "cem">>}]
MCSearches == OneSearch \X OneSearch

\* Requests that differ from another one in a field or two.
Ask == [domain |-> "code", difficulty |-> 3, duration |-> 30, mode |-> "solo", tone |-> "serious",
        ai |-> TRUE, language |-> "fr", tags |-> <<"graphs", "dfs">>, programming |-> "",
        orientation |-> "", training |-> FALSE, project |-> ""]
Near(a) ==
    UNION {{[a EXCEPT !.difficulty = d] : d \in 0 .. 6},
           {[a EXCEPT !.duration = d] : d \in {0, 4, 5, 14, 180, 181}},
           {[a EXCEPT !.mode = m] : m \in {"", "team"}},
           {[a EXCEPT !.tone = t] : t \in {"", "fun", "absurd", "noir"}},
           {[a EXCEPT !.ai = ~@], [a EXCEPT !.training = ~@], [a EXCEPT !.project = "p1"],
            [a EXCEPT !.programming = "go"]},
           {[a EXCEPT !.language = l] : l \in {"", "en", "de"}},
           {[a EXCEPT !.domain = d] : d \in {"game", "poetry"}},
           {[a EXCEPT !.orientation = o] : o \in {"sre", "ui-designer"}},
           {[a EXCEPT !.tags = t] : t \in {<<>>, <<"dfs", "graphs">>, <<"dfs", "graphs", "dfs">>}}}
MCAsks == Pairs(Near(Ask))
     \cup Pairs(Near([Ask EXCEPT !.training = TRUE, !.difficulty = 2, !.domain = "poetry"]))

MCVariants ==
    [titled : {TRUE}, kind : VariantKinds, difficulty : 0 .. 6,
     duration : {0, 4, 5, 9, 10, 14, 30, 90, 91, 180, 181, 400},
     tone : {"serious", "absurd"}, ai : {FALSE}, target : {{}, {0}, {4}, {60}}]
    \cup [titled : BOOLEAN, kind : VariantKinds \cup {"funnier"}, difficulty : {2},
          duration : {45}, tone : {"fun"}, ai : BOOLEAN, target : {{}}]
MCAnswers ==
    {NoAnswer, [NoAnswer EXCEPT !.difficulty = {4}],
     [NoAnswer EXCEPT !.difficulty = {9}, !.duration = {45}],
     [NoAnswer EXCEPT !.duration = {400}], [NoAnswer EXCEPT !.readable = FALSE]}

\* orientations_catalog.json
Catalogue ==
    {"dev-frontend", "dev-backend", "dev-fullstack", "mobile-android", "mobile-ios",
     "mobile-cross", "systems-programmer", "smart-contract-dev", "web-designer",
     "mobile-designer", "motion-designer", "illustrator", "3d-artist", "game-artist-2d",
     "game-artist-3d", "game-programmer", "game-designer", "game-sound-engineer",
     "data-engineer", "data-analyst", "ml-engineer", "prompt-engineer", "devops-engineer",
     "sre", "cloud-architect", "pentester-web", "pentester-mobile", "soc-analyst",
     "security-engineer", "tech-writer", "open-source-maintainer"}

MCProfiles == [skilled : BOOLEAN, max : {-1, 0, 3, 10, 11}]
Suggestions == [slug : {"sre", "data-analyst", "ninja"}, fit : BOOLEAN]
MCAdvice == [suggestions : {<<>>} \cup {<<s>> : s \in Suggestions} \cup Pairs(Suggestions),
             primary : {"sre", "ninja", ""},
             secondary : {<<>>, <<"ninja">>, <<"sre", "ninja">>, <<"ninja", "data-analyst">>}]
=============================================================================
