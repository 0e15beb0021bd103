----------------------------- MODULE MCTriggers -----------------------------
(* Instances of Triggers for TLC: one scene per question, small in all but that. *)
EXTENDS Triggers, TLC

MCTouched == <<{}, {"src"}, {"docs"}>>
MCPulls == <<[repo |-> 1, source |-> "dev", target |-> "main"],
             [repo |-> 1, source |-> "dev", target |-> "rel"]>>

Is(names) == [not |-> FALSE, hits |-> names]
Not(names) == [not |-> TRUE, hits |-> names]

None == [expression |-> FALSE, axes |-> NoKeys, exclude |-> <<>>, include |-> <<>>]
Job(id, needs, matrix) == [id |-> id, needs |-> needs, matrix |-> matrix]
One == <<Job("a", <<>>, None)>>
Workflow(path, on, jobs) == [path |-> path, valid |-> TRUE, on |-> on, jobs |-> jobs]
NoFilter == [k \in {} |-> <<>>]

Nothing == [e \in Events |-> 0]
Same(dirs) == [r \in Repos |-> [c \in Commits |-> dirs]]
Born == 1 :> {"main", "dev"} @@ 2 :> {}
Scene(dirs, moves, events) == [tree |-> dirs, branches |-> Born, moves |-> moves, left |-> events @@ Nothing]

\* Filters of pushes: branches, tags, paths; the first directory that is not empty counts.
Filtered == <<
  Workflow("last", "push" :> ("branches" :> <<Not({"dev"}), Is({"main", "dev", "rel"}), Not({"main"})>>), One),
  Workflow("ignore", "push" :> ("branches-ignore" :> <<Is({"dev", "rel"}), Not({"rel"})>>), One),
  Workflow("tag", "push" :> ("tags" :> <<Is({"v1", "v2"}), Not({"v2"})>>), One),
  Workflow("both", "push" :> ("branches" :> <<Is({"main"})>> @@ "tags-ignore" :> <<Is({"v1"})>>), One),
  Workflow("paths", "push" :> ("paths" :> <<Is({"src", "docs"}), Not({"docs"})>>), One),
  Workflow("clash", "push" :> ("tags" :> <<Is({"v1"})>> @@ "tags-ignore" :> <<Is({"v2"})>>), One),
  Workflow("quiet", "push" :> ("paths-ignore" :> <<Is({"docs"})>>), One)>>
MCFilters == Scene(Same(<<<<>>, Filtered, <<Workflow("late", "push" :> NoFilter, One)>>>>),
  {<<1, "main", 2>>, <<1, "main", 3>>, <<1, "dev", 0>>, <<1, "dev", 2>>, <<1, "rel", 2>>,
   <<1, "v1", 1>>, <<1, "v2", 1>>}, "push" :> 2)

\* Matrices and needs.
Os == "os" :> <<"linux", "mac">>
Node == "node" :> <<"20", "22">>
Run(path, jobs) == Workflow(path, "workflow_dispatch" :> NoFilter @@ "push" :> NoFilter, jobs)
Built(path, matrix) == Run(path, <<Job("a", <<>>, matrix)>>)
Matrices == <<
  Built("exclude", [None EXCEPT !.axes = Os @@ Node,
                    !.exclude = <<"os" :> "mac" @@ "node" :> "20", "arch" :> "arm">>]),
  Built("include", [None EXCEPT !.axes = Os,
                    !.include = <<"os" :> "mac" @@ "arch" :> "x86", "arch" :> "arm",
                                  "os" :> "bsd", "os" :> "bsd" @@ "arch" :> "arm">>]),
  Built("twice", [None EXCEPT !.axes = "os" :> <<"mac", "mac">>, !.include = <<"os" :> "mac" @@ "arch" :> "arm">>]),
  Built("alone", [None EXCEPT !.include = <<"os" :> "mac", "os" :> "bsd">>]),
  Built("nothing", [None EXCEPT !.axes = Os, !.exclude = <<"os" :> "mac", "os" :> "linux">>]),
  Built("large", [None EXCEPT !.axes = Os @@ Node, !.include = <<"os" :> "bsd">>]),
  Built("expression", [None EXCEPT !.expression = TRUE]),
  Built("empty", [None EXCEPT !.axes = "os" :> <<>>])>>
Needs == <<
  Run("diamond", <<Job("d", <<"b", "c">>, None), Job("b", <<"a">>, None), Job("c", <<"a">>, None),
                   Job("a", <<>>, [None EXCEPT !.axes = Os])>>),
  Run("cycle", <<Job("a", <<>>, None), Job("b", <<"a", "c">>, None), Job("c", <<"b">>, None)>>),
  Run("self", <<Job("a", <<"a">>, None)>>),
  Run("unknown", <<Job("a", <<"z">>, None)>>),
  Run("many", [i \in 1..5 |-> Job(<<"a", "b", "c", "d", "e">>[i], <<>>, None)]),
  [Run("broken", One) EXCEPT !.valid = FALSE]>>
MCMatrices == Scene(Same(<<Matrices>>), {<<1, "main", 2>>}, "push" :> 1 @@ "dispatch" :> 1)
MCNeeds == Scene(Same(<<Needs>>), {<<1, "main", 2>>}, "push" :> 1 @@ "dispatch" :> 1 @@ "rerun" :> 1)

\* Pushes race pull requests that are opened, closed and reopened.
Checks == <<
  Workflow("ci", "push" :> ("branches" :> <<Is({"main"})>>) @@ "pull_request" :> NoFilter, One),
  Workflow("main", "pull_request" :> ("branches" :> <<Is({"main"})>>), One),
  Workflow("first", "pull_request" :> ("types" :> {"opened"}), One)>>
MCPullRequests == {
  Scene(Same(<<SubSeq(Checks, 1, 2)>>), {1} \X {"dev"} \X {0, 2, 3},
        "push" :> 2 @@ "open" :> 1 @@ "close" :> 1 @@ "reopen" :> 1),
  Scene(Same(<<Checks>>), {<<1, "main", 2>>, <<1, "dev", 2>>}, "push" :> 2 @@ "open" :> 2)}

\* The clock, with two repositories, pushes to their default branches, and ticks that overlap.
Nightly(crons) == <<Workflow("nightly", "schedule" :> crons, One)>>
Crons == [r \in Repos |-> [c \in Commits |->
  << IF r = 1 THEN CASE c = 1 -> Nightly({{1, 2}, {2}})
                     [] c = 2 -> Nightly({{3}}) \o <<Workflow("weekly", "schedule" :> {{2, 3}}, One)>>
                     [] OTHER -> <<Workflow("ci", "push" :> NoFilter, One)>>
     ELSE Nightly({{1, 3}}) >>]]
MCClock == Scene(Crons, {<<1, "main", 2>>, <<1, "main", 3>>, <<2, "main", 1>>},
                 "push" :> 2 @@ "minute" :> 2 @@ "tick" :> 3)

\* Faults and restarts.
Mixed == Same(<<<<>>, SubSeq(Checks, 1, 2) \o Nightly({{1, 2}})>>)
MCFaults ==
  {Scene(Mixed, {<<1, "main", 2>>, <<1, "dev", 2>>}, f @@ "push" :> 1 @@ load) :
     f \in {"db" :> 1, "git" :> 1, "crash" :> 1},
     load \in {"open" :> 1 @@ "tick" :> 1, "rerun" :> 1 @@ "open" :> 1, "minute" :> 1 @@ "tick" :> 2}}

MCScenes == {MCFilters, MCMatrices, MCNeeds, MCClock} \cup MCPullRequests \cup MCFaults

=============================================================================
