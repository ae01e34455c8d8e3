SPECIFICATION Spec
CONSTANTS
    r1 = r1
    r2 = r2
    None = None
    Run = {r1, r2}
    File = {"base", "ports", "outer", "inner", "named", "part", "whole"}
    Content <- MCContent
    Resource = {"data", "net"}
    Service = {"web", "db", "adm", "aux"}
    Text = {"app", "App!", "dev"}
    sanitizeName <- MCSanitize
    Finds <- OneFind
    HasConfig <- MCHasConfig
    defaultHost <- MCDefaultHost
    ValidHost = {"app.localhost", "a.localhost", "b.localhost"}
    Globs <- MCGlobs
    Requests <- MCRequests
    Mishaps = {}
PROPERTIES
    TornDownWithItsStack
CHECK_DEADLOCK FALSE
