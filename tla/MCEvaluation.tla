---------------------------- MODULE MCEvaluation ----------------------------
(* A small instance of Evaluation: the kinds of domain, with and without a *)
(* seed, and separately the designs, patches and knowledge notes.          *)
EXTENDS Evaluation

PlainDesign == [mode |-> "passthrough", asm |-> None, pol |-> None, tools |-> {"base"}]
Plain == [kind |-> "parent", seeded |-> FALSE, anchors |-> {}, patch |-> "none",
          design |-> PlainDesign, notes |-> <<>>]

Draws == {[Plain EXCEPT !.kind = k, !.seeded = s, !.anchors = a] :
            k \in Kinds \ {"polyglot"}, s \in BOOLEAN, a \in {{}, {2, 3}}}
Named(m, a, c) == [mode |-> m, asm |-> a, pol |-> c, tools |-> {"base", "fresh", "ghost"}]
Patched == {[Plain EXCEPT !.kind = "polyglot", !.patch = p, !.notes = <<2, 3, 1, 2>>,
                          !.design = Named("slice", "good", None)] :
              p \in {"none", "lands", "fails"}}
Seams == {[Plain EXCEPT !.kind = "polyglot", !.design = Named(m, a, c)] :
            m \in {"passthrough", "custom"}, a \in {None, "refused"}, c \in PolicyName}

MCJobs == Draws \cup Patched \cup Seams
=============================================================================
