----------------------------- MODULE MCTreeScan -----------------------------
(* A small instance of TreeScan for TLC. *)
EXTENDS TreeScan

Dirs == {"src", "lib", "log"}
AnyName == Dirs \cup {"a.log", "key", "catalog", "x.tmp", "", ".", "**"}
Literals == {"src", "lib", "log", "key"}

MCGlob == [s \in Literals \cup {"", "*", "*.log"} |->
    CASE s = "*" -> AnyName
      [] s = "*.log" -> {"a.log"}
      [] OTHER -> {s}]
MCEndsWith == {<<n, n>> : n \in AnyName} \cup {<<"catalog", "log">>, <<"a.log", "log">>}

E(path, kind) == [path |-> path, kind |-> kind]
MCTree == <<
    E(<<>>, "dir"), E(<<"a.log">>, "file"), E(<<"key">>, "link"),
    E(<<"lib">>, "dir"), E(<<"lib", "catalog">>, "file"),
    E(<<"lib", "src">>, "dir"), E(<<"lib", "src", "key">>, "file"),
    E(<<"src">>, "dir"), E(<<"src", "a.log">>, "file"),
    E(<<"src", "key">>, "file"),
    E(<<"src", "lib">>, "dir"), E(<<"src", "lib", "key">>, "file"),
    E(<<"src", "lib", "log">>, "dir"), E(<<"src", "lib", "log", "key">>, "file"),
    E(<<"src", "x.tmp">>, "file")>>

MCWords == {
    <<"key">>, <<"*.log">>, <<"lib">>, <<"*">>, <<"**">>, <<"lib", "**">>, <<"src", "">>,
    <<"src", "lib", "**">>, <<"src", "lib", "">>, <<"src", "lib">>, <<"src", "*">>,
    <<"**", "log">>, <<"**", "*.log">>, <<"src", "**", "key">>,
    <<"src", "**", "lib", "**", "key">>}
MCRawPatterns == [bang : BOOLEAN, words : MCWords]
=============================================================================
