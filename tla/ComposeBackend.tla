--------------------------- MODULE ComposeBackend ---------------------------
(***************************************************************************)
(* How a stack's Compose project is loaded and judged:                     *)
(* internal/composebackend/backend.go.                                     *)
(*                                                                         *)
(* A Compose file declares services and resources (networks, volumes,      *)
(* secrets and configs, which the code treats alike) and may include other *)
(* files.  compose-go merges the files and selects the services; the code  *)
(* also reads the files it was given, not those they include, on its own   *)
(* (loadRawPolicies), since the merged project no longer tells a name that *)
(* was written down from one that Compose made up.                         *)
(*                                                                         *)
(* The services that Compose profiles disable are not modelled.            *)
(***************************************************************************)
EXTENDS Errors, FiniteSets, Functions

CONSTANTS
    File,         \* the Compose files there are
    Content,      \* what each of them says
    Resource,     \* names of networks, volumes, secrets and configs
    Service,      \* names of services
    Text,         \* stack names and profiles as written in zerobased.yaml
    sanitizeName  \* and as lower-case words joined by underscores

\* What validateIsolation looks for in a service.
Traits == {"container_name", "ports", "host_network", "host_namespace", "provider"}

ServiceConfig == [traits : SUBSET Traits, uses : SUBSET Resource, depends_on : SUBSET Service]

RawResource == [named : BOOLEAN, external : {"unset", "false", "true"}]

ASSUME ComposeAssumption ==
    /\ IsFiniteSet(File) /\ IsFiniteSet(Service)
    /\ sanitizeName \in [Text -> Text]
    /\ DOMAIN Content = File
    /\ \A f \in File :
        /\ Content[f].include \subseteq File
        /\ \A s \in DOMAIN Content[f].services :
               s \in Service /\ Content[f].services[s] \in ServiceConfig
        /\ \A n \in DOMAIN Content[f].resources :
               n \in Resource /\ Content[f].resources[n] \in RawResource

\* Mutant of ProjectName: the hash leaves the directory out.
ProjectNameWithoutRoot(stackName, profile, root) ==
    <<"zb", sanitizeName[stackName], sanitizeName[profile]>>

\* The hash in the name is taken as injective.
ProjectName(stackName, profile, root) ==
    <<root, sanitizeName[stackName], sanitizeName[profile]>>

-----------------------------------------------------------------------------
(* What compose-go makes of the files.                                     *)

\* All of start and what next leads to from there, within a finite set.
Closure(all, start, next) ==
    LET within[k \in 0..Cardinality(all)] ==
            IF k = 0 THEN start
            ELSE LET W == within[k - 1] IN W \union UNION {next[x] : x \in W}
    IN  within[Cardinality(all)]

WithIncluded(files) == Closure(File, Range(files), [f \in File |-> Content[f].include])

Declaring(files, n) == {f \in WithIncluded(files) : n \in DOMAIN Content[f].resources}

HasService(files, s) == {f \in WithIncluded(files) : s \in DOMAIN Content[f].services}

Names(files) == {s \in Service : HasService(files, s) # {}}

Merged(files, s, part) == UNION {Content[f].services[s][part] : f \in HasService(files, s)}

IsNamed(files, n) == \E f \in Declaring(files, n) : Content[f].resources[n].named

\* Of the files given, the last one that says something decides.
IsExternal(files, n) ==
    LET says == {i \in DOMAIN files :
                    /\ files[i] \in Declaring(files, n)
                    /\ Content[files[i]].resources[n].external # "unset"}
    IN  IF says = {}
        THEN \E f \in Declaring(files, n) \ Range(files) :
                 Content[f].resources[n].external = "true"
        ELSE \E last \in says :
                 /\ \A i \in says : i <= last
                 /\ Content[files[last]].resources[n].external = "true"

\* WithSelectedServices, IncludeDependencies: all of them if none is named.
Selected(req) ==
    IF req.services = {} THEN Names(req.files)
    ELSE Closure(Names(req.files), req.services,
                 [s \in Names(req.files) |-> Merged(req.files, s, "depends_on")])

\* WithoutUnnecessaryResources.
Necessary(req) == UNION {Merged(req.files, s, "uses") : s \in Selected(req)}

\* compose-go refuses unknown names.
Resolves(req) ==
    /\ req.services \subseteq Names(req.files)
    /\ \A s \in Names(req.files) :
        /\ Merged(req.files, s, "depends_on") \subseteq Names(req.files)
        /\ \A n \in Merged(req.files, s, "uses") : Declaring(req.files, n) # {}

-----------------------------------------------------------------------------
(* What the backend makes of it.                                           *)

\* loadRawPolicies: a later file adds to what an earlier one said and never
\* takes it back.
RawNamed(files, n) ==
    \E f \in Range(files) : f \in Declaring(files, n) /\ Content[f].resources[n].named

RawExternal(files, n) ==
    \E f \in Range(files) :
        f \in Declaring(files, n) /\ Content[f].resources[n].external = "true"

\* Mutant of validateIsolation: the services asked for are judged, but not
\* those they depend on.
validateNamedOnly(req) ==
    req.ownership = "owned" =>
        /\ \A s \in req.services : Merged(req.files, s, "traits") = {}
        /\ \A n \in Necessary(req) : ~RawNamed(req.files, n) /\ ~RawExternal(req.files, n)

validateIsolation(req) ==
    req.ownership = "owned" =>
        /\ \A s \in Selected(req) : Merged(req.files, s, "traits") = {}
        /\ \A n \in Necessary(req) : ~RawNamed(req.files, n) /\ ~RawExternal(req.files, n)

Refused(code) == [error |-> New("compose_backend", code, Nil), services |-> {}]

\* The services to run, or an error.
Load(req) ==
    IF req.files = << >> \/ ~(Range(req.files) \subseteq File) \/ ~Resolves(req)
    THEN Refused("ModelInvalid")
    ELSE IF ~validateIsolation(req)
         THEN Refused("IsolationRejected")
         ELSE [error |-> Nil, services |-> Selected(req)]
=============================================================================
