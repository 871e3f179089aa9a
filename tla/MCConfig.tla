---- MODULE MCConfig ----
(* The instance of Config that TLC checks: a group db with a sensitive uri, *)
(* a group that may be a plain value or a list, and a number.               *)
EXTENDS Config, TLC

Word == Value("w", "str")
Blank == Value("", "str")
Half == Value("0.5", "float64")
Seven == Value("7", "int")
Items == Value("uri", "list")

MCFileTrees ==
    {Empty,
     "db" :> Leaf(Word),
     "db" :> Leaf(Items),
     "db" :> Map(Empty),
     "db" :> Map("uri" :> Word),
     "db" :> Map("uri" :> Blank @@ "pool" :> Seven),
     "db" :> Map("pool" :> Half) @@ "n" :> Leaf(Seven),
     "db" :> Map("uri" :> Value("***", "str")) @@ "n" :> Leaf(Word)}

MCAssignments ==
    LET Pairs == {<< <<"db">>, "w">>, << <<"db">>, "">>, << <<"db", "uri">>, "w">>, << <<"db", "uri">>, "***">>,
                  << <<"db", "pool">>, "1">>, << <<"db", "pool">>, "0.50">>, << <<"n">>, "007">>}
    IN  {<<>>} \cup {<<a>> : a \in Pairs} \cup {<<a, b>> : a \in Pairs, b \in {x \in Pairs : x[2] = "w"}}

MCSensitive == {<<"uri">>}
MCRequired == {<<"db">>}
====
