------------------------------ MODULE MCRunner ------------------------------
(* Small documents for Runner: one project with a backend, a frontend that  *)
(* connectors inject into, a folder_wrap, a monorepo of two projects.       *)
EXTENDS Runner

Make(k)       == [op |-> "make", key |-> k]
MakeIn(v, k)  == [op |-> "wrap", in |-> v, key |-> k]
Run(k)        == [op |-> "run", key |-> k]
Own(k)        == [op |-> "own", key |-> k]
AtProject(k)  == [op |-> "above", type |-> "project", key |-> k]
Inject(t, k)  == [op |-> "inject", to |-> t, key |-> k]
Only          == [op |-> "only"]
MarkIdx       == [op |-> "mark"]
RestFrom      == [op |-> "rest"]

Plain(t) == [type |-> t, nodegen |-> <<>>, walks |-> {}, skips |-> {}, early |-> TRUE,
             known |-> FALSE, fails |-> {}, slow |-> FALSE]

\* The blocks, after their nodegen handlers; "lib" is folder_wrap "lib".
Blocks ==
  [project   |-> [Plain("project") EXCEPT !.nodegen = <<Own("gitignore"), Own("package_json")>>],
   proj_a    |-> [Plain("project") EXCEPT !.nodegen = <<Own("gitignore")>>],
   proj_b    |-> Plain("project"),
   proj_c    |-> [Plain("project") EXCEPT !.nodegen = <<AtProject("gitignore")>>],
   monorepo  |-> Plain("monorepo"),
   gitignore |-> Plain("gitignore"),
   package_json |-> Plain("package_json"),
   env       |-> [Plain("env") EXCEPT !.nodegen = <<AtProject("gitignore")>>],
   config    |-> [Plain("config") EXCEPT !.early = FALSE, !.known = TRUE, !.nodegen = <<AtProject("env")>>],
   loop_sh   |-> Plain("node_loop_sh"),
   backend   |-> [Plain("backend") EXCEPT !.early = FALSE, !.known = TRUE,
                    !.nodegen = <<AtProject("config"), AtProject("loop_sh")>>],
   endpoint  |-> [Plain("function") EXCEPT !.skips = {"codebub", "codegen"}],
   endpoint2 |-> [Plain("function") EXCEPT !.early = FALSE, !.known = TRUE, !.nodegen = <<Make("arg")>>],
   plugin    |-> [Plain("plugin") EXCEPT !.nodegen = <<Inject("backend", "endpoint2")>>],
   arg       |-> Plain("arg"),
   frontend  |-> [Plain("frontend") EXCEPT !.early = FALSE, !.known = TRUE,
                    !.nodegen = <<AtProject("config"), Only, MarkIdx, AtProject("loop_sh"),
                                  RestFrom>>],
   com       |-> Plain("frontend_com"),
   iced      |-> Plain("frontend_mod_iced"),
   connect   |-> [Plain("backend_frontend_connect") EXCEPT !.nodegen = <<Inject("frontend", "iced")>>],
   progress  |-> [Plain("project_progress") EXCEPT !.nodegen = <<Run("connect"),
                                                                  Inject("frontend", "com")>>],
   browser   |-> [Plain("browser_ext") EXCEPT !.nodegen = <<Only, MakeIn("lib", "napi"),
                                                            AtProject("loop_sh")>>],
   lib       |-> Plain("folder_wrap"),
   napi      |-> [Plain("napi_package") EXCEPT !.nodegen = <<AtProject("env")>>,
                    !.walks = {"codegen"}],
   napi_class |-> Plain("napi_class")]

\* A tree by its nodes and the order of the children.
Doc(f, nodes) == [n \in nodes |-> IF n \in DOMAIN f THEN f[n] ELSE <<>>]

Connected ==
  Doc(<<>> :> <<"backend", "frontend", "progress", "plugin">> @@ <<"backend">> :> <<"endpoint">>
      @@ <<"backend", "endpoint">> :> <<"arg">>,
      {<<>>, <<"backend">>, <<"frontend">>, <<"progress">>, <<"plugin">>,
       <<"backend", "endpoint">>,
       <<"backend", "endpoint", "arg">>})
Wrapped ==
  Doc(<<>> :> <<"lib", "browser">> @@ <<"lib">> :> <<"napi">> @@ <<"lib", "napi">> :> <<"napi_class">>,
      {<<>>, <<"lib">>, <<"browser">>, <<"lib", "napi">>, <<"lib", "napi", "napi_class">>})
Extension ==
  Doc(<<>> :> <<"browser">>, {<<>>, <<"browser">>})
Mono ==
  Doc(<<>> :> <<"proj_a", "proj_b">> @@ <<"proj_a">> :> <<"backend">> @@ <<"proj_b">> :> <<"browser">>,
      {<<>>, <<"proj_a">>, <<"proj_b">>, <<"proj_a", "backend">>, <<"proj_b", "browser">>})
BadMono ==
  Doc(<<>> :> <<"proj_a", "backend">>, {<<>>, <<"proj_a">>, <<"backend">>})
\* The handler of a project that a monorepo walks has no project above curr_root.
NoProject ==
  Doc(<<>> :> <<"proj_c">>, {<<>>, <<"proj_c">>})

Shape(top, doc) == [top |-> top, declared |-> doc, block |-> Blocks, loads |-> TRUE]
Failing(s, k, p) == [s EXCEPT !.block[k].fails = {p}]
Slow(s)          == [s EXCEPT !.block["package_json"].slow = TRUE,
                              !.block["browser"].slow = TRUE]
Unknown(s)       == [s EXCEPT !.block["backend"].known = FALSE]

S1 == Shape("project", Connected)
S2 == Shape("project", Wrapped)
S3 == Shape("monorepo", Mono)

MCShapes == {S1, S2, S3, Shape("monorepo", BadMono), Shape("monorepo", NoProject),
             Shape("project", Doc(<<>> :> <<"plugin">>, {<<>>, <<"plugin">>})), Slow(S1), Slow(S2),
             Slow(Shape("project", Extension)), Unknown(S1),
             [S1 EXCEPT !.loads = FALSE]}
            \cup {Failing(s, k, p) : s \in {S1, Slow(S1), Slow(S3)}, k \in {"config"},
                                      p \in {"nodegen"} \cup Emitting}
MCFolderShapes == {S2}
MCMonoShapes   == {S3}
=============================================================================
