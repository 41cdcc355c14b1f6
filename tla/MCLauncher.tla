------------------------------ MODULE MCLauncher ------------------------------
(* Small instances of Launcher for TLC.                                    *)
EXTENDS Launcher, TLC

HostLibs == <<"/", "usr", "lib">>
Jvm      == <<"/", "jvm">>
OwnDir   == <<"payload", "usr", "lib">>
AppDir   == <<"payload", "app">>
LdPath   == <<"payload", "usr", "lib", "ld">>
C == "libc"

App(name, meta, dirs) ==
    [name |-> name, program |-> <<"payload", "usr", "bin", "app">>, script |-> NoScript,
     dynamic |-> TRUE, linker |-> LdPath, dirs |-> dirs, meta |-> meta,
     interp |-> <<"/", "lib64", "ld">>, needs |-> {C}]
\* A script of a node that is static.
Script(name) ==
    [name |-> name, program |-> <<"payload", "usr", "bin", "node">>,
     script |-> <<"payload", "usr", "bin", "npm">>, dynamic |-> FALSE, linker |-> <<>>,
     dirs |-> <<>>, meta |-> NoMeta, interp |-> <<>>, needs |-> {}]

InBundle(b, paths) == {<<"/", b>> \o p : p \in paths}
Programs == { <<"payload", "usr", "bin", "app">>, <<"payload", "usr", "bin", "node">>,
              <<"payload", "usr", "bin", "npm">>, LdPath, <<"payload", "lib64", "ld">> }
Libraries == {Append(OwnDir, C), Append(AppDir, C)}
ImageEnv ==
    [home |-> <<"/", "opt", "jvm">>, pypath |-> <<>>, path |-> <<<<"/", "usr", "bin">>>>, libs |-> <<>>]

First(plans, tree, stub, set) ==
    [plans |-> plans, tree |-> InBundle("b1", tree), stub |-> stub, set |-> set]
\* Another bundle, complete, with its libraries in a directory of its own.
Second ==
    [plans |-> <<App("other", NoMeta, <<AppDir>>)>>, tree |-> InBundle("b2", Programs \cup Libraries),
     stub |-> FALSE, set |-> <<>>]

UserEnv(home, libs) ==
    [home |-> home, pypath |-> <<Jvm, <<"site">>>>, path |-> <<<<"/", "usr", "bin">>, <<"bin">>>>,
     libs |-> libs]

HostWith(has) == {<<"/", "usr", "bin", "app">>} \cup (IF has THEN {Append(HostLibs, C)} ELSE {})

Make(mode, bundles, user, built, run) ==
    [mode |-> mode, bundles |-> bundles, user |-> user,
     buildHost |-> HostWith(built), runHost |-> HostWith(run)]

\* One bundle with everything missing that can be missing.
Incomplete ==
    { Make(mode, "b1" :> First(<<App("app", NoMeta, dirs), Script("npm")>>, tree, stub, <<>>),
           UserEnv(<<>>, <<>>), built, run) :
        mode \in {"host", "bwrap"}, dirs \in {<<OwnDir>>, <<AppDir, OwnDir>>},
        tree \in SUBSET (Programs \cup {Append(OwnDir, C)}), stub \in BOOLEAN,
        built \in BOOLEAN, run \in BOOLEAN }

\* Two bundles whose entries start each other.
Nested ==
    { Make("host",
           "b1" :> First(plans, Programs \cup {Append(OwnDir, C)}, FALSE, set) @@ "b2" :> Second,
           UserEnv(home, libs), FALSE, TRUE) :
        plans \in {<<App("app", NoMeta, <<OwnDir>>), App("image", ImageEnv, <<AppDir, OwnDir>>)>>,
                   <<App("app", NoMeta, <<OwnDir>>), Script("npm")>>,
                   <<Script("app"), App("app", NoMeta, <<OwnDir>>)>>},
        set \in {<<>>, <<"/", "set">>}, home \in {<<>>, Jvm, <<"jvm">>, <<"/", "b1", "payload", "jvm">>},
        libs \in {<<>>, <<HostLibs>>} }

\* One bundle in run mode chroot, for the launchers that fill payload/data.
Shared ==
    { Make("chroot", "b1" :> First(<<App("app", NoMeta, <<OwnDir>>)>>, Programs \cup Libraries, FALSE, <<>>),
           UserEnv(Jvm, <<>>), FALSE, FALSE) }

MCSetups == Incomplete \cup Nested \cup Shared

\* A complete bundle that a user starts on the machine that built it.
MCPathSetups ==
    { Make("host", "b1" :> First(<<App("app", NoMeta, <<OwnDir>>)>>, Programs \cup Libraries, FALSE, <<>>),
           UserEnv(<<>>, <<>>), TRUE, TRUE) }

AnyName == STRING

\* No launcher is told from another, nor is a data file.
Alike == Permutations(Launchers) \cup Permutations(Files)
=============================================================================
