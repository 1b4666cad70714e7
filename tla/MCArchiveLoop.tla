--------------------------- MODULE MCArchiveLoop ---------------------------
(* Small instance of ArchiveLoop: two generations after the starting node, *)
(* three exercises on two threads, one restart.                            *)
EXTENDS ArchiveLoop

Loop == [client |-> "loop", start |-> "initial", edit |-> FALSE, ens |-> FALSE,
         skip |-> FALSE, doms |-> {"dom"}, gens |-> MaxGen, method |-> "prop"]

CommandLines ==
    {[Loop EXCEPT !.start = "reset", !.ens = TRUE],
     [Loop EXCEPT !.edit = TRUE],
     [Loop EXCEPT !.start = "patched", !.method = "latest", !.gens = 1],
     [Loop EXCEPT !.doms = {"poly"}, !.method = "best"],
     [Loop EXCEPT !.doms = {"poly"}, !.edit = TRUE],
     [Loop EXCEPT !.doms = {"poly"}, !.skip = TRUE],
     [Loop EXCEPT !.client = "gan"],
     [Loop EXCEPT !.client = "cli"]}

(* One patch of each kind, and a batch with blanks.                        *)
PatchBatches ==
    {[i \in Instances |-> IF i \in Small THEN "solution"
                          ELSE IF i \in Medium THEN "rejected" ELSE "elsewhere"],
     [i \in Instances |-> IF i \in Small THEN None ELSE "solution"]}

(* The loop is started on a host that has built its images before.         *)
Warm == [base |-> "fresh", env |-> "fresh", inst |-> [i \in Instances |-> "fresh"]]

(* The other two start on any cache that treats the exercises alike.       *)
MCInit == /\ Init
          /\ cfg.client = "loop" => img = Warm
          /\ Cardinality({img.inst[i] : i \in Instances}) = 1
MCSpec == MCInit /\ [][Next]_vars /\ WF_vars(MainStep)
=============================================================================
