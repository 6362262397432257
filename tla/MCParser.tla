------------------------------ MODULE MCParser ------------------------------
(***************************************************************************)
(* Configurations for Parser: one object "r", a function "a", a block "c"  *)
(* with the members "m" and "n", and a function "b", whose expressions     *)
(* refer to each other in every way, and one configuration per mistake the *)
(* parser looks for or trips over.                                         *)
(***************************************************************************)
EXTENDS Parser

\* "$x.y", "$x", and a jq expression that binds a variable of its own
Ref(x)  == <<"$", x, ".", "y">>
Jq(x)   == <<"$", x, " ", "$", "_", "q", ".", "y">>
Both(x, y) == Jq(x) \o <<" ">> \o Ref(y)

Nothing == [type |-> Nil, block |-> <<>>, exec |-> FALSE, vars |-> <<>>, hasInput |-> FALSE,
            resource |-> NoGVK, key |-> <<>>, value |-> <<>>, expression |-> <<>>,
            generic |-> {}, selector |-> {}, template |-> FALSE, hasOutput |-> FALSE, output |-> <<>>,
            dependsOn |-> {}]
Fn(type) == [Nothing EXCEPT !.type = type, !.hasInput = TRUE]
JqFn(s)  == [Fn("jq") EXCEPT !.expression = s]
Block(s) == [Nothing EXCEPT !.type = "block", !.block = <<"range" :> s>>]
Out(gvk, internal) == [resource |-> gvk, internal |-> internal]
To(e, out) == [e EXCEPT !.hasOutput = TRUE, !.output = out]
Object(gvk, apply, delete) == [resource |-> gvk, apply |-> apply, delete |-> delete]

\* One For object with the pipelines pa and pd, and nothing else.
Config(pa, pd) ==
    [properties |-> TRUE, nilPipeline |-> FALSE, for |-> "r" :> Object("K", "pa", "pd"), own |-> <<>>, watch |-> <<>>,
     pipelines |-> "pa" :> pa @@ "pd" :> pd, services |-> <<>>]
Empty == [Config(<<>>, <<>>) EXCEPT !.properties = FALSE, !["for"] = <<>>, !.pipelines = <<>>]

Pipeline(a, b, c, m, n) ==
    <<"vars", "a">> :> a @@ <<"vars", "b">> :> b @@ <<"tasks", "c">> :> c
    @@ <<"tasks", "c", "m">> :> m @@ <<"tasks", "c", "n">> :> n

Delete(d) == <<"vars", "d">> :> d

\* a uses the object, b the block's member or a, the block a or b, the
\* members each other, the range and the object.
References4 ==
    {Config(Pipeline(JqFn(Ref("r")), JqFn(sb), Block(sc), JqFn(sm), JqFn(sn)), Delete(JqFn(Ref("r")))) :
        sb \in {Ref("a"), Jq("m"), Both("n", "r")},
        sc \in {Ref("a"), Ref("b")},
        sm \in {Ref("r"), Ref("n"), Both("a", "c")},
        sn \in {Both("m", "r"), Ref("r")}}

\* One apply pipeline, with a function "a" and whatever else p has.
A == <<"vars", "a">> :> JqFn(Ref("r"))
D == Delete(JqFn(Ref("r")))
With(p) == Config(p @@ A, D)
WithA(e) == Config(<<"vars", "a">> :> e, D)
InBlock1(b, m) == With(<<"vars", "c">> :> b @@ <<"vars", "c", "m">> :> m)

Mapped == [Fn("map") EXCEPT !.key = Ref("a"), !.value = <<"$", "VALUE">>]
Query(gvk) == [Fn("query") EXCEPT !.resource = gvk]

\* Functions the parser accepts: of every type, with outputs, dependsOn,
\* local variables, and references that leave their block or their pipeline.
Accepted ==
    {With(<<"tasks", "b">> :> e) :
        e \in {[Mapped EXCEPT !.block = <<"condition" :> Ref("a"), "range" :> Ref("a")>>],
               To([Fn("slice") EXCEPT !.value = Ref("a")], "o" :> Out("L", FALSE)),
               To(JqFn(Ref("a")), <<>>),
               [Query("L") EXCEPT !.selector = {Ref("a"), <<"y">>}],
               [Fn("gotemplate") EXCEPT !.template = TRUE, !.generic = {Ref("a")}, !.dependsOn = {"a"}],
               [Fn("gotemplate") EXCEPT !.resource = "L"],
               To([Nothing EXCEPT !.type = "container", !.exec = TRUE],
                  "o" :> Out("L", FALSE) @@ "p" :> Out("M", TRUE)),
               [JqFn(Ref("l")) EXCEPT !.vars = "l" :> Ref("a")]}}
    \cup {InBlock1(Block(Ref("r")), JqFn(Ref("a"))),
          With(<<"vars", "b">> :> JqFn(Ref("r")) @@ <<"vars", "c">> :> Block(Ref("r")) @@ <<"vars", "c", "m">> :> Query("L")
                 @@ <<"tasks", "e">> :> Block(Ref("b")) @@ <<"tasks", "e", "n">> :> JqFn(Ref("m"))),
          Config(A, Delete(JqFn(Ref("a")))),
          With(<<"tasks", "b">> :> [JqFn(Ref("a")) EXCEPT !.dependsOn = {"nobody"}])}

\* Functions it refuses, or trips over.
Mistaken ==
    {WithA(e) : e \in
        {Nothing, Fn("map"), Mapped, Fn("slice"), Query(NoGVK), Query(BadGVK), Fn("gotemplate"),
         [Fn("gotemplate") EXCEPT !.resource = BadGVK], Fn("container"),
         [Nothing EXCEPT !.type = "map"], [Nothing EXCEPT !.type = "jq"], [Nothing EXCEPT !.type = "query"],
         [JqFn(Ref("r")) EXCEPT !.block = <<"range" :> Ref("r") @@ "condition" :> Ref("r")>>],
         [JqFn(Ref("r")) EXCEPT !.block = <<"condition" :> <<"$", "KEY">>>>],
         [JqFn(Ref("r")) EXCEPT !.block = <<"range" :> <<>>>>],
         To(JqFn(Ref("r")), "o" :> Out(NoGVK, TRUE)), To(JqFn(Ref("r")), "o" :> Out(Nil, TRUE)),
         [JqFn(Ref("r")) EXCEPT !.resource = BadGVK],
         To([JqFn(Ref("r")) EXCEPT !.resource = BadGVK], "o" :> Out("L", TRUE)),
         JqFn(Ref("nobody")), JqFn(<<"$", ".", "y">>), JqFn(Ref("a"))}}
    \cup {With(<<"tasks", "a">> :> JqFn(Ref("r"))),
          With(<<"tasks", "r">> :> JqFn(Ref("a"))),
          With(<<"tasks", "b">> :> To(JqFn(Ref("r")), "a" :> Out("L", TRUE))),
          With(<<"tasks", "b">> :> To(JqFn(Ref("r")), <<>>) @@ <<"tasks", "c">> :> JqFn(Ref("b"))),
          Config(A, A),
          InBlock1(Block(Ref("r")), Nothing),
          InBlock1(Block(Ref("r")), [JqFn(Ref("l")) EXCEPT !.vars = "l" :> Ref("a")]),
          InBlock1([Block(Ref("r")) EXCEPT !.block = <<>>], JqFn(Ref("r"))),
          With(<<"vars", "c">> :> Block(Ref("r")) @@ <<"vars", "c", "m">> :> Block(Ref("r"))
                 @@ <<"vars", "c", "m", "n">> :> JqFn(Ref("r"))),
          Config(<<"vars", "a">> :> JqFn(Ref("b")) @@ <<"vars", "b">> :> JqFn(Ref("a")), D)}

\* Objects and services around the pipelines.
Base == Config(A, D)
Blocked == <<"vars", "c">> :> Block(Ref("w")) @@ <<"vars", "c", "m">> :> JqFn(Ref("c"))
Service(out) == To([Fn("container") EXCEPT !.exec = TRUE], out)
Around ==
    {Empty,
     [Base EXCEPT !["for"] = "r" :> Object(BadGVK, "pa", "pd")],
     [Base EXCEPT !["for"] = "r" :> Object(Nil, "", "")],
     [Base EXCEPT !.nilPipeline = TRUE],
     [Base EXCEPT !.nilPipeline = TRUE, !.own = "o" :> Object("L", "", "")],
     [Base EXCEPT !["for"] = "r" :> Object("K", "pa", "nobody")],
     [Base EXCEPT !["for"] = @ @@ "q" :> Object("L", "pa", "pd")],
     [Base EXCEPT !.own = "o" :> Object("K", "", ""), !.watch = "r" :> Object("L", "pa", "")],
     [Base EXCEPT !.own = "o" :> Object("L", "pa", "")],
     [Base EXCEPT !.watch = "r" :> Object("L", "", "")],
     [Base EXCEPT !.watch = "r" :> Object("L", "pa", "pd")],
     [Base EXCEPT !.watch = "w" :> Object("L", "pw", "pw"), !.pipelines = @ @@ "pw" :> Blocked],
     [Base EXCEPT !.watch = "w" :> Object("L", "pv", "") @@ "w2" :> Object("L", "pu", ""),
                  !.pipelines = @ @@ "pv" :> (<<"vars", "x">> :> JqFn(Ref("w")))
                                  @@ "pu" :> (<<"vars", "u">> :> JqFn(Ref("w2")))],
     [Base EXCEPT !.watch = "w" :> Object("L", "pw", "") @@ "w2" :> Object("L", "pv", ""),
                  !.pipelines = @ @@ "pw" :> Blocked @@ "pv" :> (<<"vars", "x">> :> JqFn(Ref("w2")))],
     [Base EXCEPT !.services = "s" :> Service("x" :> Out("L", TRUE) @@ "y" :> Out("M", TRUE))
                               @@ "t" :> Service("x" :> Out("N", TRUE))],
     [Base EXCEPT !.services = "s" :> Service("x" :> Out("L", TRUE)) @@ "t" :> Service("x" :> Out("L", TRUE))],
     [Base EXCEPT !.services = "s" :> Fn("jq")],
     [Base EXCEPT !.services = "s" :> Service(<<>>)],
     [Base EXCEPT !.services = "s" :> Service("x" :> Out(Nil, TRUE))],
     [Base EXCEPT !.services = "s" :> Nothing]}

MCConfigs == References4 \cup Accepted \cup Mistaken \cup Around
=============================================================================
