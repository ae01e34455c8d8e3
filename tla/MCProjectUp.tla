----------------------------- MODULE MCProjectUp -----------------------------
(* Two runs, typed in a project, in a directory of a project inside it, or   *)
(* nowhere.  What the first one reads differs from the base in one respect   *)
(* or two; the second reads the base, or the base with another host.         *)
EXTENDS ProjectUp

CONSTANTS r1, r2

Plain == [named |-> FALSE, external |-> "unset"]

Svc(traits, uses, deps) == [traits |-> traits, uses |-> uses, depends_on |-> deps]

Only(name, value) == [n \in {name} |-> value]

Nothing == [n \in {} |-> Plain]

\* "web" needs "db"; "adm" is of use to nobody and publishes a port.
MCContent ==
    [base |-> [include   |-> {},
               services  |-> [web |-> Svc({}, {}, {"db"}), db |-> Svc({}, {"data"}, {}),
                              adm |-> Svc({"ports"}, {"data"}, {})],
               resources |-> Only("data", Plain)],
     ports |-> [include |-> {}, services |-> Only("db", Svc({"ports"}, {}, {})),
                resources |-> Nothing],
     outer |-> [include |-> {}, services |-> [n \in {} |-> Svc({}, {}, {})],
                resources |-> Only("data", [Plain EXCEPT !.external = "true"])],
     inner |-> [include |-> {}, services |-> [n \in {} |-> Svc({}, {}, {})],
                resources |-> Only("data", [Plain EXCEPT !.external = "false"])],
     named |-> [include |-> {}, services |-> [n \in {} |-> Svc({}, {}, {})],
                resources |-> Only("data", [Plain EXCEPT !.named = TRUE])],
     part  |-> [include |-> {}, services |-> Only("aux", Svc({}, {"net"}, {})),
                resources |-> Only("net", [Plain EXCEPT !.external = "true"])],
     whole |-> [include |-> {"part"}, services |-> Only("web", Svc({}, {}, {"aux"})),
                resources |-> Nothing]]

MCSanitize == [t \in {"app", "App!", "dev"} |-> IF t = "App!" THEN "app" ELSE t]

Path(p) == [path |-> p, process |-> "web", port |-> 3000]

Base ==
    [version   |-> 1,
     name      |-> "app",
     host      |-> "app.localhost",
     profile   |-> "",
     compose   |-> [files |-> <<"base">>, services |-> {"web"}, ownership |-> ""],
     processes |-> [p \in {"web"} |-> [command |-> TRUE, readiness |-> "file", path |-> TRUE]],
     routes    |-> <<Path(<<"/">>)>>]

Files(fs) == [Base EXCEPT !.compose.files = fs]

Elsewhere == [Base EXCEPT !.host = "b.localhost", !.name = "App!"]

Variants ==
    {[Base EXCEPT !.name = ""],
     [Base EXCEPT !.host = ""],
     [Base EXCEPT !.host = "no_host"],
     [Base EXCEPT !.compose.services = {}],
     [Base EXCEPT !.compose.services = {"gone"}],
     [Base EXCEPT !.compose.ownership = "reused", !.compose.services = {"adm"}],
     [Base EXCEPT !.compose.files = << >>],
     [Base EXCEPT !.compose.files = << >>, !.compose.services = {}],
     Files(<<"lost">>), Files(<<"base", "ports">>), Files(<<"base", "outer">>),
     Files(<<"base", "outer", "inner">>), Files(<<"base", "named">>), Files(<<"whole">>),
     [Base EXCEPT !.routes = <<[Path(<<"/">>) EXCEPT !.port = 70000]>>],
     [Base EXCEPT !.routes = <<[Path(<<"/">>) EXCEPT !.process = "gone"]>>],
     [Base EXCEPT !.routes = <<Path(<<"/", "a">>), Path(<<"/">>), Path(<<"/", "a", "/", "b">>)>>],
     [Base EXCEPT !.routes = <<Path(<<"/", "a", "/">>), Path(<<"/", "a">>),
                               Path(<<"/", "a">>), Path(<<"/", "a", "b">>)>>],
     [Base EXCEPT !.routes = <<Path(<<"/">>), Path(<<"/", "a">>), Path(<<"/", "b", "*">>),
                               Path(<<"/", "*", "/", "b">>)>>]}

In(dir, configs) == {[start |-> dir, config |-> c] : c \in configs}

Outer == <<"home", "a">>

Inner == <<"home", "a", "b", "src">>

Meeting == In(Outer, {Base, Elsewhere}) \union In(Inner, {Base})

MCFinds ==
    [r \in Run |-> IF r = r1
                  THEN Meeting \union In(Outer, Variants) \union In(<<"home">>, {Base})
                  ELSE Meeting]

OneFind == [r \in Run |-> In(Outer, {Base})]

MCRequests ==
    {<<"/">>, <<"/", "a">>, <<"/", "a", "b">>, <<"/", "a", "/", "b">>,
     <<"/", "a", "/", "b", "/", "c">>, <<"/", "b">>}

\* path.Match: a star stands for anything without a slash.
MCGlobs(pattern, name) ==
    LET match[i \in 1..Len(pattern) + 1, j \in 1..Len(name) + 1] ==
            IF i > Len(pattern) THEN j > Len(name)
            ELSE IF pattern[i] = "*"
                 THEN \/ match[i + 1, j]
                      \/ j <= Len(name) /\ name[j] # "/" /\ match[i, j + 1]
                 ELSE j <= Len(name) /\ name[j] = pattern[i] /\ match[i + 1, j + 1]
    IN  match[1, 1]

MCHasConfig == {Outer, Front(Inner)}

MCDefaultHost == [d \in MCHasConfig |-> IF Len(d) = 2 THEN "a.localhost" ELSE "b.localhost"]
=============================================================================
