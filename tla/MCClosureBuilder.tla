-------------------------- MODULE MCClosureBuilder --------------------------
(* Small roots for TLC: libraries in every layout, scripts that call each  *)
(* other and programs that fail, roots whose linker is a stub, and errors  *)
(* of every kind in the search.                                            *)
EXTENDS ClosureBuilder

\* "a1" is the name of the file behind a link; "gl" belongs to a driver.
MCDirs == <<"bin", "lib", "lib64", "opt">>
MCDefaults == <<"lib">>
MCLibs == {"a", "b", "a1", "gl"}
MCLd == <<"lib64", "ld">>
MCHostLd == <<"host", "ld">>

App == <<"bin", "app">>
Tool == <<"bin", "tool">>
Sh == <<"bin", "sh">>
Run == <<"bin", "run">>
Job == <<"bin", "job">>

Root ==
    [at |-> [p \in LibPaths |-> NoPath],
     needs |-> [p \in Elves |-> {}], runpath |-> [p \in Elves |-> <<>>],
     static |-> {}, orphans |-> {}, garbled |-> {}, broken |-> {}, strays |-> {},
     shebang |-> [s \in ScriptPaths |-> Sh], calls |-> [s \in ScriptPaths |-> {}],
     stub |-> FALSE, hostLd |-> FALSE, before |-> FALSE,
     entries |-> <<App>>, traced |-> <<>>]

\* A link leads to a file.
Sane(r) == \A p \in LibPaths : r.at[p] # NoPath => r.at[r.at[p]] = r.at[p]

Layouts == {r \in
    {[Root EXCEPT !.at[<<"lib", "a">>] = la, !.at[<<"opt", "a">>] = oa,
                  !.at[<<"opt", "a1">>] = <<"opt", "a1">>, !.at[<<"lib", "gl">>] = <<"lib", "gl">>,
                  !.at[<<"lib", "b">>] = lb, !.at[<<"opt", "b">>] = ob,
                  !.needs[App] = na, !.needs[<<"lib", "a">>] = nl,
                  !.needs[<<"opt", "a">>] = nl, !.needs[<<"opt", "a1">>] = nl,
                  !.runpath[App] = ra, !.runpath[<<"opt", "a1">>] = rl,
                  !.traced = t] :
        la \in {NoPath, <<"lib", "a">>, <<"opt", "a">>, <<"opt", "a1">>},
        oa \in {NoPath, <<"opt", "a">>, <<"opt", "a1">>},
        lb \in {NoPath, <<"lib", "b">>}, ob \in {NoPath, <<"opt", "b">>, <<"lib", "b">>},
        na \in {{"a"}, {"a", "b", "gl"}}, nl \in {{}, {"b"}},
        ra \in {<<>>, <<"opt">>}, rl \in {<<>>, <<"opt">>},
        t \in {<<>>, <<<<"lib", "gl">>, <<"opt", "a1">>>>}} : Sane(r)}

\* The libraries of app are missing or not; tool and sh need none.
ScriptCalls ==
    {[Root EXCEPT !.entries = es, !.needs[App] = na, !.static = st,
                  !.shebang[Run] = Sh, !.shebang[Job] = sj,
                  !.calls = (Run :> cr) @@ (Job :> cj)] :
        es \in {<<Run>>, <<Job, Run>>, <<Run, Tool>>}, na \in {{}, {"a"}}, st \in {{}, {Tool}},
        sj \in {Sh, App, NoPath},
        cr \in SUBSET {App, Job, Run, Tool}, cj \in SUBSET {App, Run, Tool}}

Stubs ==
    {[Root EXCEPT !.at[<<"lib", "a">>] = <<"lib", "a">>, !.needs[App] = {"a"},
                  !.stub = TRUE, !.hostLd = h, !.before = b, !.static = st,
                  !.entries = es, !.traced = t, !.calls[Run] = {App, Tool}] :
        h \in BOOLEAN, b \in BOOLEAN, st \in {{}, {Tool}},
        es \in {<<App>>, <<App, Tool>>, <<Tool, Run>>},
        t \in {<<>>, <<MCLd>>, <<MCLd, App>>, <<App, MCLd>>}}

\* app needs a and gl, a needs b, tool needs b; all are there, but programs
\* have no interpreter, the linker fails, or what it lists is not in the root.
Faults ==
    {[Root EXCEPT !.at[<<"lib", "a">>] = <<"lib", "a">>, !.at[<<"lib", "b">>] = <<"lib", "b">>,
                  !.at[<<"lib", "gl">>] = <<"lib", "gl">>,
                  !.needs[App] = {"a", "gl"}, !.needs[<<"lib", "a">>] = {"b"}, !.needs[Tool] = {"b"},
                  !.orphans = orph, !.garbled = g, !.broken = br, !.strays = s,
                  !.stub = stub, !.hostLd = stub, !.before = stub, !.entries = es, !.traced = t,
                  !.shebang[Job] = sj, !.calls = (Run :> cr) @@ (Job :> {App})] :
        orph \in {{}, {App}, {Tool}, {Sh}}, g \in {{}, {<<"lib", "b">>}},
        br \in {{}, {App}, {<<"lib", "a">>}}, s \in {{}, {<<"lib", "a">>}, {<<"lib", "gl">>}},
        stub \in BOOLEAN, es \in {<<App>>, <<Run>>, <<Run, Tool>>}, t \in {<<>>, <<Tool>>},
        sj \in {Sh, Tool}, cr \in {{App}, {App, Job}, {App, Job, Tool}}}

MCFamilies == {Layouts, ScriptCalls, Stubs, Faults}
=============================================================================
