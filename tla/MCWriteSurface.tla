--------------------------- MODULE MCWriteSurface ---------------------------
(* A registered component, a new module whose stem is that of an always-on   *)
(* tool of the self-improving role, a helper next to them, and the requests  *)
(* and edits worth combining.                                                *)
EXTENDS WriteSurface

MCModules == {"ma", "mb", "mc"}
MCStem    == [m \in MCModules |-> CASE m = "ma" -> "x" [] m = "mb" -> "p" [] OTHER -> "q"]
MCCalls   == <<3, 1>>
MCStart   == [m \in MCModules |-> CASE m = "ma" -> "v0" [] m = "mb" -> Missing [] OTHER -> "helper"]
MCEdits   == ({"ma"} \X {"v1", "unsafe"}) \cup ({"mb"} \X {"v1", "helper"})
             \cup {<<Registry, Garbage>>, <<Foreign, "v1">>,
                   <<Registry, <<Entry("ma", TRUE), Entry("mb", FALSE)>>>>}
MCRequests == {<<p, "modify", FALSE>> : p \in {"ma", Registry, SchemaExt, Foreign, Comp, Glob}}
              \cup {<<Registry, "view", FALSE>>, <<"ma", "view", FALSE>>, <<"ma", "modify", TRUE>>}
=============================================================================
