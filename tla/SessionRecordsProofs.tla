------------------------- MODULE SessionRecordsProofs -------------------------
(***************************************************************************)
(* Theorems about SessionRecords for every value of its constants: what a  *)
(* session wrote is served whole and redacted, what a session is given to  *)
(* read is what was, and costs are recorded as the proxy billed them,      *)
(* whatever is killed, restarted, rotated or quarantined on the way.       *)
(***************************************************************************)
EXTENDS SessionRecords, Integers, FiniteSetTheorems, SequenceTheorems,
        WellFoundedInduction, TLAPS

-----------------------------------------------------------------------------
(*                        The inductive invariant                          *)

TaskFiles == {TaskFile(g) : g \in Gens}
FileStates == [main : Seq(Rows) \cup {None}, parts : Seq(Rows), quar : Seq(Rows), wrote : Nat]

\* What read_all finds in a file's state.
ReadOf(rec) == IF rec.main # None THEN rec.parts \o rec.main ELSE rec.parts

\* The rows of a file that are a model's answers.
Outputs(rows) == Cardinality({i \in DOMAIN rows : rows[i].kind = "output"})

\* Rows 1 to n of a file, in order.
Numbered(rows, n) == Len(rows) = n /\ \A i \in DOMAIN rows : rows[i].n = i

\* Between the replacement of the file and the removal of the merged parts, the
\* rows of a file are in the file alone.
Dropping(f) == \E r \in Roles : In(r, "drop") /\ run[r].file = f
Holds(f) == IF Dropping(f) THEN files[f].main ELSE ReadOf(files[f])

\* The file of a role's session at this point of the loop.
SeatFile(r) == IF pc = "self" THEN SelfFile(r, att) ELSE GenFile(r, gen)

Types ==
    /\ TypeOK
    /\ files \in [Files -> FileStates] /\ audit \in [Files -> Nat]
    /\ lost \in [Files -> Nat] /\ \A f \in Files : lost[f] <= audit[f]
    /\ run \in [Roles -> Sessions \cup {NoRun}]
    /\ cards = [g \in Gens |-> cards[g]]
    /\ ledger \in Seq(Costs) /\ chat \in Nat
    /\ pc \in {"plan", "task", "eval", "settled"} => gen \in Gens
    /\ pc # "down" => att \in Attempts

\* A session runs where the loop started it, on the file of its own seat.
Seats ==
    \A r \in Roles : run[r] # NoRun =>
        /\ pc \in {"plan", "eval", "self"}
        /\ pc = "plan" => r = "planner"
        /\ pc = "eval" => r = "evaluator"
        /\ run[r].file = SeatFile(r)

\* The rows of the merged parts are, redacted, rows of a redacted file.
Covered(rec) == ~RawIn(rec.main) /\ Merged(rec.parts, rec.main)

\* How far a session is, and what that says of its file.
RunningOn(r, f) ==
    /\ run[r].st # "closed" => f \in unsettled
    /\ run[r].st = "open" /\ run[r].calls > 0 => Exists(f) /\ files[f].main # <<>>
    /\ run[r].st \in {"redact", "drop", "quarantine"} => Exists(f) /\ files[f].main # <<>>
    /\ run[r].st = "drop" => Covered(files[f])
    /\ run[r].st = "closed" => Exists(f) \/ Quarantined(f)
Running == \A r \in Roles : run[r] # NoRun => RunningOn(r, run[r].file)

\* A file whose last run was settled holds no unredacted row but in parts that
\* could not be removed.
CleanAt(f) ==
    f \notin unsettled \cup stuck /\ Exists(f) =>
        IF f \in left THEN Covered(files[f]) ELSE ~RawIn(ReadOf(files[f]))
Clean == \A f \in Files : CleanAt(f)

\* An archive is written in one piece, after the calls it records.
Archived ==
    \A f \in TaskFiles :
        /\ files[f].parts = <<>>
        /\ Exists(f) /\ f \notin torn => audit[f] > 0

\* A file that lost and doubled nothing holds every row once, in order, and as
\* many answers as the proxy billed but for the calls that stayed unanswered; an
\* archive does once it is there.
WholeAt(f) ==
    f \notin torn =>
        /\ Numbered(Holds(f), files[f].wrote)
        /\ ~Exists(f) => files[f].parts = <<>>
        /\ f \notin TaskFiles \/ Exists(f) => Outputs(Holds(f)) + lost[f] = audit[f]
Whole == \A f \in Files : WholeAt(f)

\* The self-improve files of this attempt and of later ones are still unused.
Fresh ==
    \A r \in Roles, a \in Attempts :
        a > att \/ (a = att /\ pc \notin {"self", "done", "down"}) =>
            /\ files[SelfFile(r, a)].parts = <<>>
            /\ files[SelfFile(r, a)].main \in {None, <<>>}
            /\ a > att => ~Exists(SelfFile(r, a))

\* So are their keys in the ledger.
Unrecorded ==
    \A i \in DOMAIN ledger : ledger[i].key[1] = "self_improve" =>
        /\ ledger[i].key[3] <= att
        /\ ledger[i].key[3] = att => pc \in {"self", "done", "down"}

\* While the task child works, its rows are the calls billed under its id,
\* or of those that stayed unanswered, unless the id was used before.
Working ==
    pc = "task" /\ TaskFile(gen) \notin torn =>
        ~Exists(TaskFile(gen)) /\ audit[TaskFile(gen)] = chat + lost[TaskFile(gen)]

Evidence ==
    pc = "eval" => /\ chat > 0 /\ Exists(TaskFile(gen))
                   /\ Len(files[TaskFile(gen)].main) = chat

\* An address of an index resolves, and leads to no self-improve file.
Bound(r, seg) ==
    /\ seg.file \in Files \ SelfFiles
    /\ SegmentEntry(seg.file, seg.line) = seg.n
    /\ seated \/ Fetch(r, seg.file, seg.line) = seg.n

Indexed ==
    \A r \in Roles :
        /\ index[r] # {} => pc \in {"self", "done"}
        /\ \A seg \in index[r] : Bound(r, seg)

Told == told # {} => pc \in {"plan", "eval", "self", "done"}

\* A session that is over is in the ledger, or its file was quarantined.
OnFile(f) == OnRecord(f) \/ Quarantined(f)

\* What the loop has recorded by now, in the layout where it records sessions.
Recording ==
    ~seated =>
        /\ pc \in {"task", "eval"} => OnFile(PlanFile(gen))
        /\ pc \in {"self", "done"} =>
              \A r \in Roles : run[r] = NoRun =>
                  SelfFile(r, att) \in unsettled \/ OnFile(SelfFile(r, att))

Reported == report # None => pc = "done"

IInv ==
    /\ Types /\ Seats /\ Running /\ Clean /\ Archived /\ Whole /\ Fresh
    /\ Unrecorded /\ Working /\ Evidence /\ Indexed /\ Told
    /\ StatementsLookBack /\ LedgerSound /\ Recording /\ Reported

-----------------------------------------------------------------------------
(*                       Numbers, names and sequences                      *)

\* A nonempty set of naturals has a least element.
LEMMA LeastNatural ==
    ASSUME NEW T, T \subseteq Nat, T # {}
    PROVE  \E x \in T : \A y \in T : x <= y
<1> DEFINE R == OpToRel(<, Nat)
<1>1. \A x, y \in Nat : y < x => <<y, x>> \in R
  BY DEF OpToRel
<1>2. IsWellFoundedOn(R, Nat)
  BY NatLessThanWellFounded
<1> HIDE DEF R
<1>3. PICK x \in T : \A y \in T : <<y, x>> \notin R
  BY <1>2, WFMin
<1>4. \A y \in T : x \in Nat /\ y \in Nat /\ ~(y < x)
  BY <1>3, <1>1
<1>5. \A y \in T : x <= y
  BY <1>4
<1> QED BY <1>5

\* A nonempty bounded set of naturals has a greatest element.
LEMMA GreatestNatural ==
    ASSUME NEW T, T \subseteq Nat, T # {}, NEW b \in Nat, \A x \in T : x <= b
    PROVE  \E x \in T : \A y \in T : y <= x
<1> DEFINE U == {b - x : x \in T}
<1>1. U # {} /\ \A u \in U : u \in Nat
  <2>1. \A x \in T : x \in Nat /\ b - x \in Nat
    OBVIOUS
  <2>2. U # {}
    OBVIOUS
  <2> QED BY <2>1, <2>2
<1>2. PICK u \in U : \A v \in U : u <= v
  <2> HIDE DEF U
  <2>1. U \subseteq Nat
    BY <1>1
  <2> QED BY <1>1, <2>1, LeastNatural
<1>3. PICK x \in T : u = b - x
  BY <1>2
<1>4. ASSUME NEW y \in T PROVE y <= x
  <2>1. u <= b - y
    BY <1>2
  <2> QED BY <2>1, <1>3
<1> QED BY <1>4

\* Which seat, role and number a file is of.
LEMMA FileNames ==
    /\ \A r \in Roles, g \in Gens :
          /\ GenFile(r, g) \in Files /\ GenFile(r, g) \in GenFiles
          /\ GenFile(r, g)[1] \in {"plan", "evaluate"}
          /\ GenFile(r, g)[2] = r /\ GenFile(r, g)[3] = g
    /\ \A r \in Roles, a \in Attempts :
          /\ SelfFile(r, a) \in Files /\ SelfFile(r, a) \in SelfFiles
          /\ SelfFile(r, a)[1] = "self_improve"
          /\ SelfFile(r, a)[2] = r /\ SelfFile(r, a)[3] = a
    /\ \A g \in Gens :
          /\ TaskFile(g) \in Files /\ TaskFile(g) \in TaskFiles
          /\ TaskFile(g)[1] = "task" /\ TaskFile(g)[3] = g
    /\ \A f \in Files :
          /\ f \in TaskFiles <=> f[1] = "task"
          /\ f \in SelfFiles <=> f[1] = "self_improve"
          /\ f \in SelfFiles => f[2] \in Roles /\ f[3] \in Attempts /\ f = SelfFile(f[2], f[3])
          /\ f \in GenFiles \/ f \in SelfFiles \/ f \in TaskFiles
    /\ \A f \in GenFiles : f \in Files /\ f[1] \in {"plan", "evaluate"}
    /\ \A f \in TaskFiles : \E g \in Gens : f = TaskFile(g)
<1>1. \A r \in Roles, g \in Gens :
        /\ GenFile(r, g) \in GenFiles
        /\ GenFile(r, g)[1] \in {"plan", "evaluate"}
        /\ GenFile(r, g)[2] = r /\ GenFile(r, g)[3] = g
  BY DEF GenFiles, GenFile, PlanFile, EvalFile, Roles
<1>2. \A r \in Roles, a \in Attempts :
        /\ SelfFile(r, a) \in SelfFiles
        /\ SelfFile(r, a)[1] = "self_improve"
        /\ SelfFile(r, a)[2] = r /\ SelfFile(r, a)[3] = a
  BY DEF SelfFiles, SelfFile
<1>3. \A g \in Gens :
        TaskFile(g) \in TaskFiles /\ TaskFile(g)[1] = "task" /\ TaskFile(g)[3] = g
  BY DEF TaskFiles, TaskFile
<1>4. Files = GenFiles \cup SelfFiles \cup TaskFiles
  BY DEF Files, TaskFiles
<1>5. \A f \in GenFiles : f[1] \in {"plan", "evaluate"}
  <2> SUFFICES ASSUME NEW f \in GenFiles PROVE f[1] \in {"plan", "evaluate"}
    OBVIOUS
  <2>1. PICK r \in Roles, g \in Gens : f = GenFile(r, g)
    BY DEF GenFiles
  <2> QED BY <1>1, <2>1
<1>6. \A f \in SelfFiles :
        f[1] = "self_improve" /\ f[2] \in Roles /\ f[3] \in Attempts /\ f = SelfFile(f[2], f[3])
  <2> SUFFICES ASSUME NEW f \in SelfFiles
               PROVE  /\ f[1] = "self_improve" /\ f[2] \in Roles /\ f[3] \in Attempts
                      /\ f = SelfFile(f[2], f[3])
    OBVIOUS
  <2>1. PICK r \in Roles, a \in Attempts : f = SelfFile(r, a)
    BY DEF SelfFiles
  <2> QED BY <1>2, <2>1
<1>7. \A f \in TaskFiles : f[1] = "task" /\ \E g \in Gens : f = TaskFile(g)
  BY <1>3 DEF TaskFiles
<1>8. \A f \in Files :
          /\ f \in TaskFiles <=> f[1] = "task"
          /\ f \in SelfFiles <=> f[1] = "self_improve"
  BY <1>4, <1>5, <1>6, <1>7
<1> QED BY <1>1, <1>2, <1>3, <1>4, <1>5, <1>6, <1>7, <1>8

\* Appending to the last of two joined sequences appends to the whole.
LEMMA AppendToConcat ==
    ASSUME NEW S, NEW s \in Seq(S), NEW t \in Seq(S), NEW e \in S
    PROVE  s \o Append(t, e) = Append(s \o t, e)
<1>1. Append(t, e) = t \o <<e>>
  BY AppendIsConcat
<1>2. Append(s \o t, e) = (s \o t) \o <<e>>
  <2>1. s \o t \in Seq(S)
    BY ConcatProperties
  <2> QED BY <2>1, AppendIsConcat
<1>3. \A u \in Seq(S) : (s \o t) \o u = s \o (t \o u)
  BY ConcatAssociative
<1>4. <<e>> \in Seq(S)
  OBVIOUS
<1> QED BY <1>1, <1>2, <1>3, <1>4

\* trajectory_log.append adds the row behind all others, rotation or not.
LEMMA AppendRow ==
    ASSUME NEW rec \in FileStates, NEW row \in Rows
    PROVE  /\ Append1(rec, row) \in FileStates
           /\ Append1(rec, row).main # None /\ Append1(rec, row).main # <<>>
           /\ Append1(rec, row).wrote = rec.wrote /\ Append1(rec, row).quar = rec.quar
           /\ ReadOf(Append1(rec, row)) = Append(ReadOf(rec), row)
<1>1. None \notin Seq(Rows)
  BY NoneAssumption
<1>2. rec.parts \in Seq(Rows) /\ (rec.main = None \/ rec.main \in Seq(Rows))
  BY DEF FileStates
<1>3. <<row>> \in Seq(Rows) /\ <<row>> # None /\ <<row>> # <<>>
  <2>1. <<row>> \in Seq(Rows) /\ <<row>> # <<>>
    OBVIOUS
  <2> QED BY <1>1, <2>1
<1>4. CASE rec.main = None
  <2>1. Append1(rec, row) = [rec EXCEPT !.main = <<row>>]
    BY <1>4 DEF Append1, FileStates
  <2>2. rec.parts \o <<row>> = Append(rec.parts, row)
    BY <1>2, AppendIsConcat
  <2> QED BY <1>3, <1>4, <2>1, <2>2 DEF FileStates, ReadOf
<1>5. CASE rec.main # None /\ Len(rec.main) >= RotateAt
  <2>1. Append1(rec, row) = [rec EXCEPT !.parts = @ \o rec.main, !.main = <<row>>]
    BY <1>5 DEF Append1
  <2>2. rec.main \in Seq(Rows) /\ rec.parts \o rec.main \in Seq(Rows)
    BY <1>2, <1>5
  <2>3. (rec.parts \o rec.main) \o <<row>> = Append(rec.parts \o rec.main, row)
    BY <2>2, AppendIsConcat
  <2> QED BY <1>3, <1>5, <2>1, <2>2, <2>3 DEF FileStates, ReadOf
<1>6. CASE rec.main # None /\ ~(Len(rec.main) >= RotateAt)
  <2>1. Append1(rec, row) = [rec EXCEPT !.main = Append(@, row)]
    BY <1>6 DEF Append1, FileStates
  <2>2. rec.main \in Seq(Rows) /\ Append(rec.main, row) \in Seq(Rows)
    BY <1>2, <1>6
  <2>3. Append(rec.main, row) # None /\ Append(rec.main, row) # <<>>
    BY <1>1, <2>2
  <2>4. rec.parts \o Append(rec.main, row) = Append(rec.parts \o rec.main, row)
    <3>1. rec.parts \in Seq(Rows) /\ rec.main \in Seq(Rows)
      BY <1>2, <2>2
    <3>2. \A s, t \in Seq(Rows) : \A e \in Rows : s \o Append(t, e) = Append(s \o t, e)
      BY AppendToConcat
    <3> QED BY <3>1, <3>2
  <2> QED BY <1>6, <2>1, <2>2, <2>3, <2>4 DEF FileStates, ReadOf
<1> QED BY <1>4, <1>5, <1>6

\* One written row: the next number, at the end of what is read back.
LEMMA WrittenRow ==
    ASSUME NEW rec \in FileStates, NEW kind \in {"output", "cm_view"}
    PROVE  /\ Written(rec, kind) \in FileStates
           /\ Written(rec, kind).main # None /\ Written(rec, kind).main # <<>>
           /\ Written(rec, kind).wrote = rec.wrote + 1
           /\ Written(rec, kind).quar = rec.quar
           /\ ReadOf(Written(rec, kind)) =
                 Append(ReadOf(rec), [n |-> rec.wrote + 1, kind |-> kind, raw |-> TRUE])
<1> DEFINE row == [n |-> rec.wrote + 1, kind |-> kind, raw |-> TRUE]
           app == Append1(rec, row)
<1>1. rec.wrote \in Nat
  BY DEF FileStates
<1>2. row \in Rows
  BY <1>1 DEF Rows
<1>3. /\ app \in FileStates /\ app.main # None /\ app.main # <<>>
      /\ app.wrote = rec.wrote /\ app.quar = rec.quar
      /\ ReadOf(app) = Append(ReadOf(rec), row)
  <2> HIDE DEF row
  <2> QED BY <1>2, AppendRow
<1>4. Written(rec, kind) = [app EXCEPT !.wrote = @ + 1]
  BY DEF Written
<1>5. /\ Written(rec, kind).main = app.main /\ Written(rec, kind).parts = app.parts
      /\ Written(rec, kind).quar = app.quar
      /\ Written(rec, kind).wrote = rec.wrote + 1 /\ Written(rec, kind) \in FileStates
  <2> HIDE DEF app
  <2>1. /\ app.wrote \in Nat /\ app.wrote = rec.wrote
        /\ app = [main |-> app.main, parts |-> app.parts, quar |-> app.quar, wrote |-> app.wrote]
    BY <1>1, <1>3 DEF FileStates
  <2>2. Written(rec, kind) =
          [main |-> app.main, parts |-> app.parts, quar |-> app.quar, wrote |-> app.wrote + 1]
    BY <1>4, <2>1
  <2> QED BY <1>3, <2>1, <2>2 DEF FileStates
<1>6. ReadOf(Written(rec, kind)) = ReadOf(app)
  BY <1>5 DEF ReadOf
<1> QED BY <1>3, <1>5, <1>6

\* read_all returns a finite sequence of rows.
LEMMA ReadRows ==
    ASSUME NEW rec \in FileStates
    PROVE  ReadOf(rec) \in Seq(Rows) /\ Len(ReadOf(rec)) \in Nat
<1>1. rec.parts \in Seq(Rows) /\ (rec.main = None \/ rec.main \in Seq(Rows))
  BY DEF FileStates
<1>2. rec.main # None => rec.parts \o rec.main \in Seq(Rows)
  BY <1>1
<1>3. ReadOf(rec) \in Seq(Rows)
  BY <1>1, <1>2 DEF ReadOf
<1> QED BY <1>3

\* Rows stay numbered when the next one is added.
LEMMA NumberedAppend ==
    ASSUME NEW rows \in Seq(Rows), NEW row \in Rows, NEW n \in Nat,
           Numbered(rows, n), row.n = n + 1
    PROVE  Numbered(Append(rows, row), n + 1)
<1>1. /\ Len(Append(rows, row)) = Len(rows) + 1
      /\ \A i \in 1 .. Len(rows) : Append(rows, row)[i] = rows[i]
      /\ Append(rows, row)[Len(rows) + 1] = row
  BY AppendProperties
<1>2. Len(rows) = n /\ \A i \in 1 .. n : rows[i].n = i
  BY DEF Numbered
<1>3. DOMAIN Append(rows, row) = 1 .. n + 1
  <2>1. Append(rows, row) \in Seq(Rows)
    BY AppendProperties
  <2> QED BY <1>1, <1>2, <2>1
<1>4. ASSUME NEW i \in 1 .. n + 1 PROVE Append(rows, row)[i].n = i
  <2>1. CASE i = n + 1
    BY <1>1, <1>2, <2>1
  <2>2. CASE i # n + 1
    <3>1. i \in 1 .. n
      BY <2>2
    <3> QED BY <1>1, <1>2, <3>1
  <2> QED BY <2>1, <2>2
<1> QED BY <1>1, <1>2, <1>3, <1>4 DEF Numbered

\* An answer is one more output, the context seam's row is none.
LEMMA OutputsAppend ==
    ASSUME NEW rows \in Seq(Rows), NEW row \in Rows
    PROVE  /\ Outputs(rows) \in Nat
           /\ row.kind = "output" => Outputs(Append(rows, row)) = Outputs(rows) + 1
           /\ row.kind # "output" => Outputs(Append(rows, row)) = Outputs(rows)
<1> DEFINE Outs == {i \in DOMAIN rows : rows[i].kind = "output"}
           l == Len(rows) + 1
           more == {i \in DOMAIN Append(rows, row) : Append(rows, row)[i].kind = "output"}
<1>1. /\ Len(Append(rows, row)) = l /\ Append(rows, row) \in Seq(Rows)
      /\ \A i \in 1 .. Len(rows) : Append(rows, row)[i] = rows[i]
      /\ Append(rows, row)[l] = row
  BY AppendProperties
<1>2. DOMAIN rows = 1 .. Len(rows) /\ DOMAIN Append(rows, row) = 1 .. l /\ Len(rows) \in Nat
  BY <1>1
<1>3. IsFiniteSet(Outs) /\ Cardinality(Outs) \in Nat
  <2>1. IsFiniteSet(1 .. Len(rows))
    BY <1>2, FS_Interval
  <2>2. Outs \subseteq 1 .. Len(rows)
    BY <1>2
  <2>3. IsFiniteSet(Outs)
    <3> HIDE DEF Outs
    <3> QED BY <2>1, <2>2, FS_Subset
  <2> HIDE DEF Outs
  <2> QED BY <2>3, FS_CardinalityType
<1>4. l \notin Outs
  BY <1>2
<1>5. more = IF row.kind = "output" THEN Outs \cup {l} ELSE Outs
  BY <1>1, <1>2
<1>6. Cardinality(Outs \cup {l}) = Cardinality(Outs) + 1
  <2> HIDE DEF Outs, l
  <2> QED BY <1>3, <1>4, FS_AddElement
<1>7. Outputs(rows) = Cardinality(Outs) /\ Outputs(Append(rows, row)) = Cardinality(more)
  BY DEF Outputs
<1> HIDE DEF Outs, l, more
<1> QED BY <1>3, <1>5, <1>6, <1>7

\* A file's answers can be counted.
LEMMA OutputsOf ==
    ASSUME NEW rec \in FileStates
    PROVE  Outputs(ReadOf(rec)) \in Nat
<1>1. ReadOf(rec) \in Seq(Rows)
  BY ReadRows
<1>2. [n |-> 0, kind |-> "output", raw |-> TRUE] \in Rows
  BY DEF Rows
<1> QED BY <1>1, <1>2, OutputsAppend

\* Redaction rewrites texts only: number, order and usage of the rows stay.
LEMMA RedactedRows ==
    ASSUME NEW rows \in Seq(Rows), NEW n \in Nat
    PROVE  /\ Redacted(rows) \in Seq(Rows)
           /\ ~RawIn(Redacted(rows))
           /\ Numbered(rows, n) => Numbered(Redacted(rows), n)
           /\ Outputs(Redacted(rows)) = Outputs(rows)
           /\ Len(Redacted(rows)) = Len(rows)
           /\ \A i \in 1 .. Len(rows) : Redacted(rows)[i] = [rows[i] EXCEPT !.raw = FALSE]
<1>1. DOMAIN rows = 1 .. Len(rows) /\ Len(rows) \in Nat
  OBVIOUS
<1>2. \A i \in 1 .. Len(rows) : rows[i] \in Rows
  OBVIOUS
<1>3. \A i \in 1 .. Len(rows) :
        /\ Redacted(rows)[i] \in Rows /\ Redacted(rows)[i].n = rows[i].n
        /\ Redacted(rows)[i].kind = rows[i].kind /\ Redacted(rows)[i].raw = FALSE
  BY <1>1, <1>2 DEF Redacted, Rows
<1>4. Redacted(rows) = [i \in 1 .. Len(rows) |-> [rows[i] EXCEPT !.raw = FALSE]]
  BY <1>1 DEF Redacted
<1>5. Redacted(rows) \in [1 .. Len(rows) -> Rows]
  BY <1>3, <1>4
<1>6. /\ Redacted(rows) \in Seq(Rows) /\ DOMAIN Redacted(rows) = DOMAIN rows
      /\ Len(Redacted(rows)) = Len(rows)
  BY <1>1, <1>5
<1>7. ~RawIn(Redacted(rows))
  BY <1>1, <1>3, <1>6 DEF RawIn
<1>8. Outputs(Redacted(rows)) = Outputs(rows)
  <2>1. {i \in DOMAIN Redacted(rows) : Redacted(rows)[i].kind = "output"}
          = {i \in DOMAIN rows : rows[i].kind = "output"}
    BY <1>1, <1>3, <1>6
  <2> QED BY <2>1 DEF Outputs
<1>9. Numbered(rows, n) => Numbered(Redacted(rows), n)
  BY <1>1, <1>3, <1>6 DEF Numbered
<1>10. \A i \in 1 .. Len(rows) : Redacted(rows)[i] = [rows[i] EXCEPT !.raw = FALSE]
  BY <1>4
<1> QED BY <1>6, <1>7, <1>8, <1>9, <1>10

\* The rows of a prefix are, redacted, a prefix of the redacted rows.
LEMMA RedactedPrefix ==
    ASSUME NEW part \in Seq(Rows), NEW main \in Seq(Rows),
           NEW rows \in Seq(Rows), rows = part \o main
    PROVE  /\ Merged(part, Redacted(rows)) /\ ~RawIn(Redacted(rows))
           /\ main # <<>> => Redacted(rows) # <<>>
<1> DEFINE p == Len(part)
           m == Len(main)
           l == Len(rows)
<1>1. /\ l = p + m /\ p \in Nat /\ m \in Nat
      /\ \A i \in 1 .. p + m : rows[i] = IF i <= p THEN part[i] ELSE main[i - p]
  BY ConcatProperties
<1>2. DOMAIN part = 1 .. p /\ (main # <<>> => m # 0)
  BY EmptySeq
<1>3. /\ ~RawIn(Redacted(rows)) /\ Len(Redacted(rows)) = l
      /\ \A i \in 1 .. l : Redacted(rows)[i] = [rows[i] EXCEPT !.raw = FALSE]
  <2>1. 0 \in Nat
    OBVIOUS
  <2> QED BY <2>1, RedactedRows
<1>4. Merged(part, Redacted(rows))
  <2> HIDE DEF p, m, l
  <2>1. \A i \in 1 .. p : i \in 1 .. l /\ i \in 1 .. p + m /\ i <= p
    BY <1>1
  <2>2. \A i \in 1 .. p : Redacted(rows)[i] = [part[i] EXCEPT !.raw = FALSE]
    BY <1>1, <1>3, <2>1
  <2>3. Len(part) <= Len(Redacted(rows))
    BY <1>1, <1>3 DEF p
  <2> QED BY <1>2, <2>2, <2>3 DEF Merged
<1>5. main # <<>> => Redacted(rows) # <<>>
  <2>1. Len(<<>>) = 0
    OBVIOUS
  <2> HIDE DEF p, m, l
  <2>2. main # <<>> => l # 0
    BY <1>1, <1>2
  <2> QED BY <1>3, <2>1, <2>2
<1> QED BY <1>3, <1>4, <1>5

\* What redaction puts in place covers the parts that were merged.
LEMMA RedactedCovers ==
    ASSUME NEW rec \in FileStates, rec.main # None
    PROVE  /\ Covered([rec EXCEPT !.main = Redacted(ReadOf(rec))])
           /\ rec.main # <<>> => Redacted(ReadOf(rec)) # <<>>
<1>1. /\ rec.parts \in Seq(Rows) /\ rec.main \in Seq(Rows)
      /\ ReadOf(rec) = rec.parts \o rec.main /\ ReadOf(rec) \in Seq(Rows)
  BY DEF FileStates, ReadOf
<1>2. \A s, t, u \in Seq(Rows) : u = s \o t =>
        /\ Merged(s, Redacted(u)) /\ ~RawIn(Redacted(u))
        /\ t # <<>> => Redacted(u) # <<>>
  BY RedactedPrefix
<1>3. /\ Merged(rec.parts, Redacted(ReadOf(rec))) /\ ~RawIn(Redacted(ReadOf(rec)))
      /\ rec.main # <<>> => Redacted(ReadOf(rec)) # <<>>
  BY <1>1, <1>2
<1> DEFINE new == Redacted(ReadOf(rec))
<1> HIDE DEF new
<1>4. [rec EXCEPT !.main = new].main = new /\ [rec EXCEPT !.main = new].parts = rec.parts
  BY DEF FileStates
<1> QED BY <1>3, <1>4 DEF Covered, new

\* No parts are covered by whatever is redacted.
LEMMA NoParts ==
    ASSUME NEW main, main \in Seq(Rows) PROVE Merged(<<>>, main)
<1>1. Len(<<>>) = 0 /\ DOMAIN <<>> = {} /\ Len(main) \in Nat
  OBVIOUS
<1> QED BY <1>1 DEF Merged

\* An empty file has no answers, is numbered and holds nothing raw.
LEMMA NoRows ==
    /\ Outputs(<<>>) = 0 /\ Numbered(<<>>, 0) /\ ~RawIn(<<>>)
    /\ <<>> # None /\ <<>> \in Seq(Rows)
<1>1. {i \in DOMAIN <<>> : <<>>[i].kind = "output"} = {}
  OBVIOUS
<1>2. Outputs(<<>>) = 0
  BY <1>1, FS_EmptySet DEF Outputs
<1>3. <<>> \in Seq(Rows) /\ DOMAIN <<>> = {} /\ Len(<<>>) = 0
  OBVIOUS
<1>4. <<>> # None
  BY <1>3, NoneAssumption
<1> QED BY <1>2, <1>3, <1>4 DEF Numbered, RawIn

\* The rows of an archive (trajectory.collect).
LEMMA ArchiveRows ==
    ASSUME NEW n \in Nat,
           NEW rows, rows = [i \in 1 .. n |-> [n |-> i, kind |-> "output", raw |-> FALSE]]
    PROVE  /\ rows \in Seq(Rows) /\ ~RawIn(rows) /\ Numbered(rows, n)
           /\ Len(rows) = n /\ Outputs(rows) = n
<1>1. rows \in [1 .. n -> Rows]
  BY DEF Rows
<1>2. rows \in Seq(Rows) /\ Len(rows) = n /\ DOMAIN rows = 1 .. n
  BY <1>1
<1>3. \A i \in 1 .. n : rows[i].n = i /\ rows[i].kind = "output" /\ rows[i].raw = FALSE
  OBVIOUS
<1>4. {i \in DOMAIN rows : rows[i].kind = "output"} = 1 .. n
  BY <1>2, <1>3
<1>5. Cardinality(1 .. n) = n
  BY FS_Interval
<1> QED BY <1>2, <1>3, <1>4, <1>5 DEF Outputs, Numbered, RawIn

-----------------------------------------------------------------------------
(*                         The steps of a session                          *)

\* The parts of TypeOK that a step may change.
LEMMA TypesFlat ==
    ASSUME Types
    PROVE  /\ seated \in BOOLEAN /\ gen \in 0 .. MaxGen /\ att \in 0 .. MaxCrashes + 1
           /\ saved \in 1 .. MaxGen + 1 /\ crashes \in 0 .. MaxCrashes
           /\ faults \in 0 .. MaxFaults /\ unsettled \subseteq Files /\ torn \subseteq Files
           /\ left \subseteq Files /\ stuck \subseteq Files
           /\ lost \in [Files -> Nat] /\ \A f \in Files : lost[f] <= audit[f]
           /\ files \in [Files -> FileStates] /\ audit \in [Files -> Nat]
           /\ run \in [Roles -> Sessions \cup {NoRun}] /\ ledger \in Seq(Costs) /\ chat \in Nat
  BY DEF Types, TypeOK

\* The file a running session is on.
LEMMA RunFile ==
    ASSUME Types, Seats, NEW r \in Roles, run[r] # NoRun
    PROVE  /\ run[r] \in Sessions /\ run[r].file \in Files \ TaskFiles
           /\ run[r].file[2] = r /\ run[r].file = SeatFile(r)
           /\ run[r].file \in SelfFiles <=> pc = "self"
<1>1. run[r] \in Sessions
  BY DEF Types
<1>2. run[r].file = SeatFile(r) /\ pc \in {"plan", "eval", "self"}
  BY DEF Seats
<1>3. pc = "self" => att \in Attempts
  BY DEF Types
<1>4. pc # "self" => gen \in Gens
  BY <1>2 DEF Types
<1>5. CASE pc = "self"
  <2>1. SeatFile(r) = SelfFile(r, att)
    BY <1>5 DEF SeatFile
  <2>2. /\ SelfFile(r, att) \in Files /\ SelfFile(r, att)[1] = "self_improve"
        /\ SelfFile(r, att)[2] = r /\ SelfFile(r, att) \in SelfFiles
    BY <1>3, <1>5, FileNames
  <2>3. SelfFile(r, att) \notin TaskFiles
    BY <2>2, FileNames
  <2> QED BY <1>1, <1>2, <1>5, <2>1, <2>2, <2>3
<1>6. CASE pc # "self"
  <2>1. SeatFile(r) = GenFile(r, gen)
    BY <1>6 DEF SeatFile
  <2>2. /\ GenFile(r, gen) \in Files /\ GenFile(r, gen)[1] \in {"plan", "evaluate"}
        /\ GenFile(r, gen)[2] = r
    BY <1>4, <1>6, FileNames
  <2>3. GenFile(r, gen) \notin TaskFiles /\ GenFile(r, gen) \notin SelfFiles
    BY <2>2, FileNames
  <2> QED BY <1>1, <1>2, <1>6, <2>1, <2>2, <2>3
<1> QED BY <1>5, <1>6

\* What every step of a session leaves alone.
Frame(r, f) ==
    /\ UNCHANGED loopState
    /\ files' \in [Files -> FileStates] /\ audit' \in [Files -> Nat]
    /\ lost' \in [Files -> Nat] /\ \A g \in Files : lost'[g] <= audit'[g]
    /\ run' \in [Roles -> Sessions \cup {NoRun}]
    /\ \A g \in Files : g # f =>
          files'[g] = files[g] /\ audit'[g] = audit[g] /\ lost'[g] = lost[g]
    /\ files[f].quar # <<>> => files'[f].quar # <<>>
    /\ \A q \in Roles : q # r => run'[q] = run[q]
    /\ run'[r] # NoRun /\ run'[r].file = f
    /\ unsettled' \subseteq Files /\ torn' \subseteq Files /\ torn \subseteq torn'
    /\ left' \subseteq Files /\ stuck' \subseteq Files
    /\ \A g \in Files : g # f =>
          /\ (g \in unsettled' <=> g \in unsettled) /\ (g \in torn' <=> g \in torn)
          /\ (g \in left' <=> g \in left) /\ (g \in stuck' <=> g \in stuck)
    /\ faults' \in 0 .. MaxFaults

\* A running session is told from an empty seat.
LEMMA SessionNotNone == \A s \in Sessions : s # NoRun
  BY NoneAssumption DEF NoRun

\* A session that begins is open and has made no call.
LEMMA BegunSession ==
    ASSUME NEW f \in Files, NEW n \in Nat
    PROVE  /\ [Begun(f) EXCEPT !.runs = n] \in Sessions
           /\ [Begun(f) EXCEPT !.runs = n].file = f
           /\ [Begun(f) EXCEPT !.runs = n].st = "open"
           /\ [Begun(f) EXCEPT !.runs = n].calls = 0
           /\ Begun(f) \in Sessions /\ Begun(f).file = f
           /\ Begun(f).st = "open" /\ Begun(f).calls = 0
<1>1. Begun(f) = [file |-> f, st |-> "open", calls |-> 0, runs |-> 1, try |-> 1, err |-> FALSE]
  BY DEF Begun
<1>2. Begun(f) \in Sessions /\ Begun(f).file = f /\ Begun(f).st = "open" /\ Begun(f).calls = 0
  BY <1>1 DEF Sessions, Stages
<1> HIDE DEF Begun
<1>3. /\ [Begun(f) EXCEPT !.runs = n] \in Sessions
      /\ [Begun(f) EXCEPT !.runs = n].file = f
      /\ [Begun(f) EXCEPT !.runs = n].st = "open"
      /\ [Begun(f) EXCEPT !.runs = n].calls = 0
  BY <1>2 DEF Sessions
<1> QED BY <1>2, <1>3

\* Joining something gives something.
LEMMA JoinedNotEmpty ==
    ASSUME NEW s \in Seq(Rows), NEW t \in Seq(Rows), t # <<>>
    PROVE  s \o t \in Seq(Rows) /\ s \o t # <<>>
<1>1. s \o t \in Seq(Rows) /\ Len(s \o t) = Len(s) + Len(t) /\ Len(s) \in Nat
  BY ConcatProperties
<1>2. Len(t) \in Nat \ {0} /\ Len(<<>>) = 0
  BY EmptySeq
<1>3. Len(s \o t) # 0
  BY <1>1, <1>2
<1> QED BY <1>1, <1>2, <1>3

\* An answer is billed, and maybe a call that stayed unanswered.
LEMMA BilledCalls ==
    ASSUME Types, NEW f \in Files, Billed(f)
    PROVE  /\ audit' \in [Files -> Nat] /\ lost' \in [Files -> Nat]
           /\ \A g \in Files : lost'[g] <= audit'[g]
           /\ \A g \in Files : g # f => audit'[g] = audit[g] /\ lost'[g] = lost[g]
           /\ audit'[f] + lost[f] = audit[f] + lost'[f] + 1
           /\ faults' \in 0 .. MaxFaults
<1>1. /\ audit \in [Files -> Nat] /\ lost \in [Files -> Nat]
      /\ \A g \in Files : lost[g] <= audit[g]
      /\ faults \in 0 .. MaxFaults /\ MaxFaults \in Nat
  BY TypesFlat, BoundsAssumption
<1>2. audit[f] \in Nat /\ lost[f] \in Nat /\ lost[f] <= audit[f]
  BY <1>1
<1>3. CASE audit' = [audit EXCEPT ![f] = @ + 1] /\ UNCHANGED <<lost, faults>>
  <2>1. /\ audit'[f] = audit[f] + 1 /\ audit' \in [Files -> Nat]
        /\ \A g \in Files : g # f => audit'[g] = audit[g]
    BY <1>1, <1>3
  <2>2. \A g \in Files : lost'[g] <= audit'[g]
    BY <1>1, <1>2, <1>3, <2>1
  <2> QED BY <1>1, <1>2, <1>3, <2>1, <2>2
<1>4. CASE /\ Fault /\ audit' = [audit EXCEPT ![f] = @ + 2]
           /\ lost' = [lost EXCEPT ![f] = @ + 1]
  <2>1. /\ audit'[f] = audit[f] + 2 /\ audit' \in [Files -> Nat]
        /\ \A g \in Files : g # f => audit'[g] = audit[g]
    BY <1>1, <1>2, <1>4
  <2>2. /\ lost'[f] = lost[f] + 1 /\ lost' \in [Files -> Nat]
        /\ \A g \in Files : g # f => lost'[g] = lost[g]
    BY <1>1, <1>2, <1>4
  <2>3. faults' \in 0 .. MaxFaults
    BY <1>1, <1>4 DEF Fault
  <2>4. \A g \in Files : lost'[g] <= audit'[g]
    BY <1>1, <1>2, <2>1, <2>2
  <2> QED BY <1>2, <2>1, <2>2, <2>3, <2>4
<1> QED BY <1>3, <1>4 DEF Billed

\* A session's step touches its own seat and its own file only.
LEMMA SessionFrame ==
    ASSUME Types, Seats, Running, NEW r \in Roles, SessionStep(r)
    PROVE  /\ run[r] # NoRun
           /\ \A f \in Files : f = run[r].file => Frame(r, f)
<1>1. run[r] # NoRun
  BY DEF SessionStep, Turn, EndRun, Redact, RedactFails, DropParts, Quarantine, RunAgain,
         SessionDies, In
<1> SUFFICES ASSUME NEW f \in Files, f = run[r].file PROVE Frame(r, f)
  BY <1>1
<1>2. run[r] \in Sessions /\ f \in Files
  BY <1>1, RunFile
<1>3. /\ files \in [Files -> FileStates] /\ audit \in [Files -> Nat]
      /\ run \in [Roles -> Sessions \cup {NoRun}]
      /\ unsettled \subseteq Files /\ torn \subseteq Files /\ faults \in 0 .. MaxFaults
      /\ left \subseteq Files /\ stuck \subseteq Files /\ MaxFaults \in Nat
      /\ lost \in [Files -> Nat] /\ \A g \in Files : lost[g] <= audit[g]
  BY TypesFlat, BoundsAssumption
<1>4. \A s \in Sessions : s # NoRun
  BY SessionNotNone
<1>5. ASSUME NEW new \in Sessions, new.file = f, run' = [run EXCEPT ![r] = new]
      PROVE  /\ run' \in [Roles -> Sessions \cup {NoRun}]
             /\ \A q \in Roles : q # r => run'[q] = run[q]
             /\ run'[r] = new /\ run'[r] # NoRun /\ run'[r].file = f
  BY <1>3, <1>4, <1>5
<1>6. ASSUME NEW new \in FileStates, files' = [files EXCEPT ![f] = new],
             files[f].quar # <<>> => new.quar # <<>>
      PROVE  /\ files' \in [Files -> FileStates]
             /\ \A g \in Files : g # f => files'[g] = files[g]
             /\ files[f].quar # <<>> => files'[f].quar # <<>>
  BY <1>3, <1>6
<1>7. ASSUME Fault PROVE faults' \in 0 .. MaxFaults
  BY <1>3, <1>7 DEF Fault
<1>8. files[f] \in FileStates /\ audit[f] \in Nat
  BY <1>3
<1>9. ASSUME audit' = [audit EXCEPT ![f] = @ + 1]
      PROVE  /\ audit' \in [Files -> Nat] /\ \A g \in Files : g # f => audit'[g] = audit[g]
             /\ \A g \in Files : lost[g] <= audit'[g]
  <2>1. /\ audit' \in [Files -> Nat] /\ \A g \in Files : g # f => audit'[g] = audit[g]
        /\ audit'[f] = audit[f] + 1
    BY <1>3, <1>8, <1>9
  <2>2. lost[f] \in Nat /\ lost[f] <= audit[f]
    BY <1>3
  <2> QED BY <1>3, <1>8, <2>1, <2>2
<1>10. CASE Turn(r)
  <2>1. run' = [run EXCEPT ![r] = [run[r] EXCEPT !.calls = @ + 1]]
    BY <1>10 DEF Turn
  <2>2. [run[r] EXCEPT !.calls = @ + 1] \in Sessions /\ [run[r] EXCEPT !.calls = @ + 1].file = f
    BY <1>2 DEF Sessions
  <2>3. files' = [files EXCEPT ![f] = Written(Written(files[f], "cm_view"), "output")]
    BY <1>3, <1>10 DEF Turn
  <2> DEFINE one == Written(files[f], "cm_view")
             two == Written(one, "output")
  <2>4. two \in FileStates /\ two.quar = files[f].quar
    <3>1. one \in FileStates /\ one.quar = files[f].quar
      BY <1>8, WrittenRow
    <3> HIDE DEF one
    <3> QED BY <3>1, WrittenRow
  <2>5. Billed(f) /\ UNCHANGED <<loopState, unsettled, left, stuck, torn>>
    BY <1>10 DEF Turn
  <2>6. files' = [files EXCEPT ![f] = two]
    BY <2>3
  <2> HIDE DEF one, two
  <2>7. /\ files' \in [Files -> FileStates] /\ \A g \in Files : g # f => files'[g] = files[g]
        /\ files[f].quar # <<>> => files'[f].quar # <<>>
    BY <1>6, <2>4, <2>6
  <2>8. /\ audit' \in [Files -> Nat] /\ lost' \in [Files -> Nat]
        /\ \A g \in Files : lost'[g] <= audit'[g]
        /\ \A g \in Files : g # f => audit'[g] = audit[g] /\ lost'[g] = lost[g]
        /\ faults' \in 0 .. MaxFaults
    BY <2>5, BilledCalls
  <2>9. /\ run' \in [Roles -> Sessions \cup {NoRun}]
        /\ \A q \in Roles : q # r => run'[q] = run[q]
        /\ run'[r] # NoRun /\ run'[r].file = f
    BY <1>5, <2>1, <2>2
  <2> QED BY <1>3, <2>5, <2>7, <2>8, <2>9 DEF Frame
<1>11. CASE EndRun(r)
  <2>1. run' = [run EXCEPT ![r] = [run[r] EXCEPT !.st = "redact"]]
    BY <1>11 DEF EndRun
  <2>2. [run[r] EXCEPT !.st = "redact"] \in Sessions /\ [run[r] EXCEPT !.st = "redact"].file = f
    BY <1>2 DEF Sessions, Stages
  <2>3. UNCHANGED <<loopState, files, audit, faults, ghosts>>
    BY <1>11 DEF EndRun
  <2> QED BY <1>3, <1>5, <2>1, <2>2, <2>3 DEF Frame, ghosts
<1>12. CASE Redact(r)
  <2>1. run' = [run EXCEPT ![r] = [run[r] EXCEPT !.st = "drop"]]
    BY <1>12 DEF Redact
  <2>2. [run[r] EXCEPT !.st = "drop"] \in Sessions /\ [run[r] EXCEPT !.st = "drop"].file = f
    BY <1>2 DEF Sessions, Stages
  <2>3. files' = [files EXCEPT ![f] = [files[f] EXCEPT !.main = Redacted(ReadAll(f))]]
    BY <1>12 DEF Redact
  <2>4. [files[f] EXCEPT !.main = Redacted(ReadAll(f))] \in FileStates
    <3>1. ReadAll(f) = ReadOf(files[f])
      BY DEF ReadAll, ReadOf, Exists
    <3>2. Redacted(ReadAll(f)) \in Seq(Rows)
      <4>1. ReadOf(files[f]) \in Seq(Rows)
        BY <1>8, ReadRows
      <4>2. \A rows \in Seq(Rows) : Redacted(rows) \in Seq(Rows)
        BY RedactedRows
      <4> QED BY <3>1, <4>1, <4>2
    <3> QED BY <1>8, <3>2 DEF FileStates
  <2>5. UNCHANGED <<loopState, audit, faults, ghosts>>
    BY <1>12 DEF Redact
  <2>6. files[f].quar # <<>> => [files[f] EXCEPT !.main = Redacted(ReadAll(f))].quar # <<>>
    BY <1>8 DEF FileStates
  <2> QED BY <2>6, <1>3, <1>5, <1>6, <2>1, <2>2, <2>3, <2>4, <2>5 DEF Frame, ghosts
<1>13. CASE RedactFails(r)
  <2> DEFINE next == IF run[r].try = 1 THEN "redact" ELSE "quarantine"
             new == [run[r] EXCEPT !.err = TRUE, !.try = 2, !.st = next]
  <2>1. run' = [run EXCEPT ![r] = new]
    BY <1>13 DEF RedactFails
  <2>2. new \in Sessions /\ new.file = f
    BY <1>2 DEF Sessions, Stages
  <2>3. faults' \in 0 .. MaxFaults /\ UNCHANGED <<loopState, files, audit, ghosts>>
    BY <1>3, <1>7, <1>13 DEF RedactFails
  <2> HIDE DEF new
  <2> QED BY <1>3, <1>5, <2>1, <2>2, <2>3 DEF Frame, ghosts
<1>14. CASE DropParts(r)
  <2> DEFINE next == IF run[r].err THEN "quarantine" ELSE "closed"
             new == [run[r] EXCEPT !.st = next]
  <2>1. run' = [run EXCEPT ![r] = new]
    BY <1>14 DEF DropParts, EndRedaction
  <2>2. new \in Sessions /\ new.file = f
    BY <1>2 DEF Sessions, Stages
  <2>3. /\ UNCHANGED <<loopState, audit, lost>>
        /\ unsettled' = unsettled \/ unsettled' = unsettled \ {f}
        /\ stuck' = stuck \/ stuck' = stuck \ {f}
    BY <1>14 DEF DropParts, EndRedaction
  <2>4. \/ /\ files' = [files EXCEPT ![f] = [files[f] EXCEPT !.parts = <<>>]]
           /\ left' = left \ {f} /\ UNCHANGED <<faults, torn>>
        \/ /\ Fault /\ left' = left \cup {f} /\ torn' = torn \cup {f}
           /\ UNCHANGED files
    BY <1>14 DEF DropParts
  <2>5. /\ [files[f] EXCEPT !.parts = <<>>] \in FileStates
        /\ [files[f] EXCEPT !.parts = <<>>].quar = files[f].quar
    BY <1>8, NoRows DEF FileStates
  <2> HIDE DEF new
  <2>6. /\ files' \in [Files -> FileStates] /\ \A g \in Files : g # f => files'[g] = files[g]
        /\ files[f].quar # <<>> => files'[f].quar # <<>>
        /\ faults' \in 0 .. MaxFaults
    BY <1>3, <1>6, <1>7, <2>4, <2>5
  <2>7. /\ unsettled' \subseteq Files /\ torn' \subseteq Files /\ torn \subseteq torn'
        /\ left' \subseteq Files /\ stuck' \subseteq Files
        /\ \A g \in Files : g # f =>
              /\ (g \in unsettled' <=> g \in unsettled) /\ (g \in torn' <=> g \in torn)
              /\ (g \in left' <=> g \in left) /\ (g \in stuck' <=> g \in stuck)
    BY <1>2, <1>3, <2>3, <2>4
  <2> QED BY <1>3, <1>5, <2>1, <2>2, <2>3, <2>6, <2>7 DEF Frame
<1>15. CASE Quarantine(r)
  <2> DEFINE new == [run[r] EXCEPT !.st = "closed"]
             moved == [files[f] EXCEPT !.quar = @ \o files[f].main, !.main = None]
  <2>1. run' = [run EXCEPT ![r] = new]
    BY <1>15 DEF Quarantine
  <2>2. new \in Sessions /\ new.file = f
    BY <1>2 DEF Sessions, Stages
  <2>3. UNCHANGED <<loopState, audit, faults, left, lost>> /\ unsettled' = unsettled \ {f}
    BY <1>15 DEF Quarantine
  <2>4. \/ /\ files' = [files EXCEPT ![f] = moved]
           /\ stuck' = stuck \ {f} /\ torn' = torn \cup {f}
        \/ stuck' = stuck \cup {f} /\ UNCHANGED <<files, torn>>
    BY <1>15 DEF Quarantine
  <2>5. moved \in FileStates /\ moved.quar # <<>>
    <3>1. /\ files[f].main \in Seq(Rows) /\ files[f].main # <<>>
          /\ files[f].quar \in Seq(Rows)
      BY <1>1, <1>8, <1>15 DEF Running, RunningOn, Quarantine, In, Exists, FileStates
    <3>2. /\ files[f].quar \o files[f].main \in Seq(Rows)
          /\ files[f].quar \o files[f].main # <<>>
      BY <3>1, JoinedNotEmpty
    <3> QED BY <1>8, <3>2 DEF FileStates
  <2> HIDE DEF new, moved
  <2>6. /\ files' \in [Files -> FileStates] /\ \A g \in Files : g # f => files'[g] = files[g]
        /\ files[f].quar # <<>> => files'[f].quar # <<>>
    BY <1>3, <1>6, <2>4, <2>5
  <2>7. /\ unsettled' \subseteq Files /\ torn' \subseteq Files /\ torn \subseteq torn'
        /\ left' \subseteq Files /\ stuck' \subseteq Files
        /\ \A g \in Files : g # f =>
              /\ (g \in unsettled' <=> g \in unsettled) /\ (g \in torn' <=> g \in torn)
              /\ (g \in left' <=> g \in left) /\ (g \in stuck' <=> g \in stuck)
    BY <1>2, <1>3, <2>3, <2>4
  <2> QED BY <1>3, <1>5, <2>1, <2>2, <2>3, <2>6, <2>7 DEF Frame
<1>16. CASE RunAgain(r)
  <2> DEFINE new == [Begun(f) EXCEPT !.runs = run[r].runs + 1]
  <2>1. run' = [run EXCEPT ![r] = new]
    BY <1>16 DEF RunAgain
  <2>2. new \in Sessions /\ new.file = f
    <3>1. run[r].runs + 1 \in Nat
      BY <1>2 DEF Sessions
    <3> QED BY <3>1, BegunSession
  <2>3. /\ unsettled' = unsettled \cup {f}
        /\ UNCHANGED <<loopState, files, audit, faults, left, stuck, torn, lost>>
    BY <1>16 DEF RunAgain
  <2> HIDE DEF new
  <2> QED BY <1>3, <1>5, <2>1, <2>2, <2>3 DEF Frame
<1>17. CASE SessionDies(r)
  <2> DEFINE new == [run[r] EXCEPT !.st = "dead"]
  <2>1. run' = [run EXCEPT ![r] = new]
    BY <1>17 DEF SessionDies
  <2>2. new \in Sessions /\ new.file = f
    BY <1>2 DEF Sessions, Stages
  <2>3. faults' \in 0 .. MaxFaults /\ UNCHANGED <<loopState, unsettled, left, stuck, lost>>
    BY <1>7, <1>17 DEF SessionDies
  <2>4. \/ torn' = torn \cup Doubled(r) /\ UNCHANGED <<files, audit>>
        \/ CutOff(r, {})
    BY <1>17 DEF SessionDies
  <2>5. Doubled(r) \subseteq {f}
    BY DEF Doubled
  <2>6. CutOff(r, {}) =>
          /\ audit' = [audit EXCEPT ![f] = @ + 1]
          /\ files' = [files EXCEPT ![f] = Written(files[f], "cm_view")]
          /\ torn' = torn \cup {f}
    BY <1>3 DEF CutOff
  <2>7. /\ Written(files[f], "cm_view") \in FileStates
        /\ Written(files[f], "cm_view").quar = files[f].quar
    BY <1>8, WrittenRow
  <2> HIDE DEF new
  <2>8. /\ files' \in [Files -> FileStates] /\ \A g \in Files : g # f => files'[g] = files[g]
        /\ files[f].quar # <<>> => files'[f].quar # <<>>
        /\ \A g \in Files : lost[g] <= audit'[g]
        /\ audit' \in [Files -> Nat] /\ \A g \in Files : g # f => audit'[g] = audit[g]
    BY <1>3, <1>6, <1>9, <2>4, <2>6, <2>7
  <2>9. /\ torn' \subseteq Files /\ torn \subseteq torn'
        /\ \A g \in Files : g # f => (g \in torn' <=> g \in torn)
    BY <1>2, <1>3, <2>4, <2>5, <2>6
  <2> QED BY <1>3, <1>5, <2>1, <2>2, <2>3, <2>8, <2>9 DEF Frame
<1> QED BY <1>10, <1>11, <1>12, <1>13, <1>14, <1>15, <1>16, <1>17, SMTT(30) DEF SessionStep

\* Only the two roles' own files are ever between redaction and clean-up.
LEMMA SessionDropping ==
    ASSUME Types, Seats, NEW r \in Roles, run[r] # NoRun,
           NEW f \in Files, f = run[r].file, Frame(r, f)
    PROVE  /\ Dropping(f) <=> run[r].st = "drop"
           /\ Dropping(f)' <=> run'[r].st = "drop"
           /\ \A g \in Files : g # f => (Dropping(g)' <=> Dropping(g))
<1>1. \A q \in Roles : run[q] # NoRun => run[q].file[2] = q
  BY RunFile
<1>2. \A q \in Roles : q # r /\ run[q] # NoRun => run[q].file # f
  BY <1>1
<1>3. /\ \A q \in Roles : q # r => run'[q] = run[q]
      /\ run'[r] # NoRun /\ run'[r].file = f
  BY DEF Frame
<1>4. Dropping(f) <=> run[r].st = "drop"
  BY <1>2 DEF Dropping, In
<1>5. Dropping(f)' <=> run'[r].st = "drop"
  BY <1>2, <1>3 DEF Dropping, In
<1>6. \A g \in Files : g # f => (Dropping(g)' <=> Dropping(g))
  BY <1>3 DEF Dropping, In
<1> QED BY <1>4, <1>5, <1>6

\* read_all of a file depends on that file alone.
LEMMA ReadAllOf == \A f \in Files : ReadAll(f) = ReadOf(files[f])
  BY DEF ReadAll, ReadOf, Exists

\* A turn of a session (a call and the row appended for it) keeps its file whole.
LEMMA TurnFile ==
    ASSUME Types, Seats, NEW r \in Roles, NEW f \in Files, f = run[r].file, run[r] # NoRun,
           Frame(r, f), RunningOn(r, f), WholeAt(f), Turn(r)
    PROVE  RunningOn(r, f)' /\ CleanAt(f)' /\ WholeAt(f)'
<1> DEFINE cm == [n |-> files[f].wrote + 1, kind |-> "cm_view", raw |-> TRUE]
           one == Written(files[f], "cm_view")
           out == [n |-> one.wrote + 1, kind |-> "output", raw |-> TRUE]
           two == Written(one, "output")
           rows == ReadOf(files[f])
<1>1. /\ files[f] \in FileStates /\ files[f].wrote \in Nat /\ audit[f] \in Nat
      /\ run[r] \in Sessions
  BY RunFile, TypesFlat DEF FileStates
<1>2. files' = [files EXCEPT ![f] = two] /\ audit'[f] + lost[f] = audit[f] + lost'[f] + 1
  BY BilledCalls DEF Turn
<1>3. /\ run[r].st = "open" /\ run'[r].st = "open" /\ unsettled' = unsettled /\ torn' = torn
  BY <1>1, TypesFlat DEF Turn, In, Sessions
<1>4. /\ one \in FileStates /\ one.wrote = files[f].wrote + 1 /\ ReadOf(one) = Append(rows, cm)
  BY <1>1, WrittenRow
<1>5. /\ two \in FileStates /\ two.main # None /\ two.main # <<>>
      /\ two.wrote = one.wrote + 1
      /\ ReadOf(two) = Append(ReadOf(one), out)
  <2> HIDE DEF one
  <2> QED BY <1>4, WrittenRow
<1>6. /\ cm \in Rows /\ out \in Rows /\ cm.n = files[f].wrote + 1 /\ out.n = one.wrote + 1
      /\ cm.kind # "output" /\ out.kind = "output"
  <2>1. one.wrote \in Nat
    BY <1>1, <1>4
  <2> HIDE DEF one
  <2> QED BY <1>1, <2>1 DEF Rows
<1>7. files'[f] = two
  BY <1>2, TypesFlat
<1>8. Holds(f) = rows /\ Holds(f)' = ReadOf(two)
  <2>1. ~Dropping(f) /\ ~Dropping(f)'
    BY <1>3, SessionDropping
  <2> HIDE DEF two
  <2> QED BY <1>7, <2>1 DEF Holds
<1>9. rows \in Seq(Rows) /\ ReadOf(one) \in Seq(Rows)
  <2> HIDE DEF one
  <2> QED BY <1>1, <1>4, ReadRows
<1>10. Numbered(rows, files[f].wrote) => Numbered(ReadOf(two), two.wrote)
  <2>1. Numbered(rows, files[f].wrote) => Numbered(Append(rows, cm), files[f].wrote + 1)
    <3> HIDE DEF rows, cm
    <3> QED BY <1>1, <1>6, <1>9, NumberedAppend
  <2>2. Numbered(ReadOf(one), one.wrote) => Numbered(Append(ReadOf(one), out), one.wrote + 1)
    <3>1. one.wrote \in Nat
      BY <1>1, <1>4
    <3> HIDE DEF one, out
    <3> QED BY <1>6, <1>9, <3>1, NumberedAppend
  <2> HIDE DEF rows, one, two, out, cm
  <2> QED BY <1>4, <1>5, <2>1, <2>2
<1>11. Outputs(ReadOf(two)) = Outputs(rows) + 1
  <2> HIDE DEF rows, one, two, out, cm
  <2>1. Outputs(Append(rows, cm)) = Outputs(rows)
    BY <1>6, <1>9, OutputsAppend
  <2>2. Outputs(Append(ReadOf(one), out)) = Outputs(ReadOf(one)) + 1
    BY <1>6, <1>9, OutputsAppend
  <2> QED BY <1>4, <1>5, <2>1, <2>2
<1>12. f \in unsettled' /\ Exists(f)' /\ files'[f].main # <<>>
  <2>1. f \in unsettled
    BY <1>3 DEF RunningOn
  <2> HIDE DEF two
  <2> QED BY <1>3, <1>5, <1>7, <2>1 DEF Exists
<1>13. RunningOn(r, f)' /\ CleanAt(f)'
  BY <1>3, <1>12 DEF RunningOn, CleanAt
<1>14. f \notin TaskFiles
  BY RunFile
<1>15. WholeAt(f)'
  <2> HIDE DEF two, rows
  <2> SUFFICES ASSUME f \notin torn'
               PROVE  /\ Numbered(Holds(f)', files'[f].wrote) /\ Exists(f)'
                      /\ Outputs(Holds(f)') + lost'[f] = audit'[f]
    BY DEF WholeAt, Outputs, Numbered
  <2>1. Numbered(Holds(f), files[f].wrote) /\ Outputs(Holds(f)) + lost[f] = audit[f]
    BY <1>3, <1>14 DEF WholeAt
  <2>2. Outputs(ReadOf(files[f])) \in Nat
    BY <1>1, OutputsOf
  <2>3. /\ lost[f] \in Nat /\ lost'[f] \in Nat /\ audit'[f] \in Nat
    BY TypesFlat DEF Frame
  <2>4. Outputs(Holds(f)') + lost'[f] = audit'[f]
    <3>1. Outputs(rows) \in Nat
      BY <2>2 DEF rows
    <3> QED BY <1>1, <1>2, <1>8, <1>11, <2>1, <2>3, <3>1
  <2> QED BY <1>7, <1>8, <1>10, <1>12, <2>1, <2>4
<1> QED BY <1>13, <1>15

\* The end of a run, a failed redaction and another run leave the file alone.
LEMMA EndRunFile ==
    ASSUME Types, Seats, NEW r \in Roles, NEW f \in Files, f = run[r].file, run[r] # NoRun,
           Frame(r, f), RunningOn(r, f), CleanAt(f), WholeAt(f),
           EndRun(r) \/ RedactFails(r) \/ RunAgain(r)
    PROVE  RunningOn(r, f)' /\ CleanAt(f)' /\ WholeAt(f)'
<1>1. /\ files' = files /\ audit' = audit /\ torn' = torn
      /\ left' = left /\ stuck' = stuck /\ lost' = lost
      /\ unsettled' = unsettled \/ unsettled' = unsettled \cup {f}
  BY DEF EndRun, RedactFails, RunAgain, ghosts
<1>2. run[r] \in Sessions /\ run \in [Roles -> Sessions \cup {NoRun}]
  BY RunFile, TypesFlat
<1>3. run[r].st # "drop" /\ run'[r].st # "drop"
  <2>1. CASE EndRun(r)
    BY <1>2, <2>1 DEF EndRun, In, Sessions
  <2>2. CASE RedactFails(r)
    BY <1>2, <2>2 DEF RedactFails, In, Sessions
  <2>3. CASE RunAgain(r)
    <3>1. run'[r] = [Begun(f) EXCEPT !.runs = run[r].runs + 1] /\ run[r].runs + 1 \in Nat
      BY <1>2, <2>3 DEF RunAgain, Sessions
    <3>2. run'[r].st = "open"
      BY <3>1, BegunSession
    <3> QED BY <2>3, <3>2 DEF RunAgain, In
  <2> QED BY <2>1, <2>2, <2>3
<1>4. Holds(f)' = Holds(f)
  BY <1>1, <1>3, SessionDropping DEF Holds
<1>5. WholeAt(f)'
  BY <1>1, <1>4 DEF WholeAt, Exists
<1>6. CleanAt(f)'
  BY <1>1 DEF CleanAt, Exists
<1>7. RunningOn(r, f)'
  <2>1. CASE EndRun(r)
    <3>1. run[r].st = "open" /\ run[r].calls > 0 /\ run'[r].st = "redact"
      BY <1>2, <2>1 DEF EndRun, In, Sessions
    <3> QED BY <1>1, <3>1 DEF RunningOn, Exists
  <2>2. CASE RedactFails(r)
    <3>1. run[r].st = "redact" /\ run'[r].st \in {"redact", "quarantine"}
      BY <1>2, <2>2 DEF RedactFails, In, Sessions
    <3> QED BY <1>1, <3>1 DEF RunningOn, Exists
  <2>3. CASE RunAgain(r)
    <3>1. run'[r] = [Begun(f) EXCEPT !.runs = run[r].runs + 1] /\ run[r].runs + 1 \in Nat
      BY <1>2, <2>3 DEF RunAgain, Sessions
    <3>2. run'[r].st = "open" /\ run'[r].calls = 0
      BY <3>1, BegunSession
    <3>3. f \in unsettled'
      BY <2>3 DEF RunAgain
    <3> QED BY <3>2, <3>3 DEF RunningOn
  <2> QED BY <2>1, <2>2, <2>3
<1> QED BY <1>5, <1>6, <1>7

\* Redaction keeps number, order and kinds of the rows and settles the file.
LEMMA RedactFile ==
    ASSUME Types, Seats, NEW r \in Roles, NEW f \in Files, f = run[r].file, run[r] # NoRun,
           Frame(r, f), RunningOn(r, f), WholeAt(f), Redact(r)
    PROVE  RunningOn(r, f)' /\ CleanAt(f)' /\ WholeAt(f)'
<1> DEFINE rows == ReadOf(files[f])
           new == Redacted(rows)
<1>1. /\ files[f] \in FileStates /\ files[f].wrote \in Nat /\ run[r] \in Sessions
      /\ files \in [Files -> FileStates] /\ run \in [Roles -> Sessions \cup {NoRun}]
  BY RunFile, TypesFlat DEF FileStates
<1>2. ReadAll(f) = rows
  BY ReadAllOf
<1>3. /\ files' = [files EXCEPT ![f] = [files[f] EXCEPT !.main = new]]
      /\ audit' = audit /\ lost' = lost /\ torn' = torn /\ unsettled' = unsettled
      /\ run[r].st = "redact"
  BY <1>2 DEF Redact, ghosts, In
<1>4. run'[r].st = "drop"
  BY <1>1 DEF Redact, Sessions
<1>5. rows \in Seq(Rows)
  BY <1>1, ReadRows
<1>6. /\ new \in Seq(Rows) /\ ~RawIn(new) /\ Outputs(new) = Outputs(rows)
      /\ Numbered(rows, files[f].wrote) => Numbered(new, files[f].wrote)
  <2> HIDE DEF rows
  <2> QED BY <1>1, <1>5, RedactedRows
<1>7. new # None
  <2> HIDE DEF new
  <2> QED BY <1>6, NoneAssumption
<1>8. files'[f].main = new /\ files'[f].wrote = files[f].wrote
  <2> HIDE DEF new
  <2> QED BY <1>1, <1>3 DEF FileStates
<1>9. Holds(f) = rows /\ Holds(f)' = new
  <2>1. ~Dropping(f) /\ Dropping(f)'
    BY <1>3, <1>4, SessionDropping
  <2> HIDE DEF new
  <2> QED BY <1>8, <2>1 DEF Holds
<1>10. f \in unsettled' /\ Exists(f) /\ Exists(f)' /\ files[f].main # <<>>
  <2> HIDE DEF new
  <2> QED BY <1>3, <1>7, <1>8 DEF RunningOn, Exists
<1>11. Covered(files'[f]) /\ files'[f].main # <<>>
  <2>1. files'[f] = [files[f] EXCEPT !.main = new]
    <3> HIDE DEF new
    <3> QED BY <1>1, <1>3
  <2>2. Covered([files[f] EXCEPT !.main = new]) /\ new # <<>>
    BY <1>1, <1>10, RedactedCovers DEF Exists
  <2> HIDE DEF new, rows
  <2> QED BY <1>8, <2>1, <2>2
<1> HIDE DEF new, rows
<1>13. RunningOn(r, f)' /\ CleanAt(f)'
  <2>1. run'[r].st # "closed" /\ run'[r].st # "open"
    BY <1>4, Zenon
  <2>2. Covered(files[f])'
    BY <1>11 DEF Covered, Merged, RawIn
  <2>3. RunningOn(r, f)'
    BY <1>10, <1>11, <2>1, <2>2 DEF RunningOn
  <2> QED BY <1>10, <2>3 DEF CleanAt
<1>12. WholeAt(f)'
  <2> SUFFICES ASSUME f \notin torn'
               PROVE  /\ Numbered(Holds(f)', files'[f].wrote) /\ Exists(f)'
                      /\ Outputs(Holds(f)') + lost'[f] = audit'[f]
    BY DEF WholeAt, Outputs, Numbered
  <2> QED BY <1>3, <1>6, <1>8, <1>9, <1>10 DEF WholeAt
<1> QED BY <1>12, <1>13

\* Removing the merged parts leaves exactly the redacted rows; parts that stay are
\* covered by them.
LEMMA DropPartsFile ==
    ASSUME Types, Seats, NEW r \in Roles, NEW f \in Files, f = run[r].file, run[r] # NoRun,
           Frame(r, f), RunningOn(r, f), WholeAt(f), DropParts(r)
    PROVE  RunningOn(r, f)' /\ CleanAt(f)' /\ WholeAt(f)'
<1>1. /\ files[f] \in FileStates /\ run[r] \in Sessions
      /\ files \in [Files -> FileStates] /\ run \in [Roles -> Sessions \cup {NoRun}]
  BY RunFile, TypesFlat
<1>2. run[r].st = "drop" /\ audit' = audit /\ lost' = lost
  BY DEF DropParts, EndRedaction, In
<1>3. /\ run'[r].st = IF run[r].err THEN "quarantine" ELSE "closed"
      /\ unsettled' = IF run[r].err THEN unsettled ELSE unsettled \ {f}
  BY <1>1 DEF DropParts, EndRedaction, Sessions
<1>4. /\ Exists(f) /\ f \in unsettled /\ Covered(files[f])
      /\ files[f].main \in Seq(Rows) /\ files[f].main # <<>>
  BY <1>1, <1>2 DEF RunningOn, FileStates, Exists
<1>5. Holds(f) = files[f].main /\ ~Dropping(f)'
  BY <1>2, <1>3, SessionDropping DEF Holds
<1>6. ASSUME Exists(f)', files'[f].main # <<>> PROVE RunningOn(r, f)'
  BY <1>3, <1>4, <1>6 DEF RunningOn
<1>7. CASE files' = [files EXCEPT ![f].parts = <<>>] /\ left' = left \ {f} /\ torn' = torn
  <2>1. files'[f] = [files[f] EXCEPT !.parts = <<>>]
    BY <1>1, <1>7
  <2>2. /\ files'[f].main = files[f].main /\ files'[f].parts = <<>>
        /\ files'[f].wrote = files[f].wrote
    BY <1>1, <2>1 DEF FileStates
  <2>3. Exists(f)' /\ files'[f].main # <<>>
    BY <1>4, <2>2 DEF Exists
  <2>4. ReadOf(files'[f]) = files[f].main
    <3>1. <<>> \o files[f].main = files[f].main
      BY <1>4, ConcatEmptySeq
    <3> QED BY <2>2, <2>3, <3>1 DEF ReadOf, Exists
  <2>5. Holds(f)' = files[f].main
    BY <1>5, <2>4 DEF Holds
  <2>6. CleanAt(f)'
    <3>1. f \notin left'
      BY <1>7
    <3> QED BY <1>4, <2>4, <3>1 DEF CleanAt, RawIn, Covered
  <2>7. WholeAt(f)'
    <3> SUFFICES ASSUME f \notin torn'
                 PROVE  /\ Numbered(Holds(f)', files'[f].wrote) /\ Exists(f)'
                        /\ Outputs(Holds(f)') + lost'[f] = audit'[f]
      BY DEF WholeAt, Outputs, Numbered
    <3> QED BY <1>2, <1>4, <1>5, <1>7, <2>2, <2>3, <2>5 DEF WholeAt
  <2> QED BY <1>6, <2>3, <2>6, <2>7
<1>8. CASE left' = left \cup {f} /\ torn' = torn \cup {f} /\ files' = files
  <2>1. f \in torn' /\ f \in left' /\ Exists(f)' /\ files'[f].main # <<>>
    BY <1>4, <1>8, Zenon DEF Exists
  <2>2. Covered(files[f])'
    BY <1>4, <1>8 DEF Covered, Merged, RawIn
  <2> QED BY <1>6, <2>1, <2>2 DEF CleanAt, WholeAt
<1> QED BY <1>7, <1>8 DEF DropParts

\* Quarantine moves the file away, which then counts as torn, or fails and says so.
LEMMA QuarantineFile ==
    ASSUME Types, Seats, NEW r \in Roles, NEW f \in Files, f = run[r].file, run[r] # NoRun,
           Frame(r, f), RunningOn(r, f), WholeAt(f), Quarantine(r)
    PROVE  RunningOn(r, f)' /\ CleanAt(f)' /\ WholeAt(f)'
<1>1. /\ files[f] \in FileStates /\ run[r] \in Sessions
      /\ files \in [Files -> FileStates] /\ run \in [Roles -> Sessions \cup {NoRun}]
  BY RunFile, TypesFlat
<1>2. run[r].st = "quarantine" /\ audit' = audit /\ lost' = lost
  BY DEF Quarantine, In
<1>3. run'[r].st = "closed"
  BY <1>1 DEF Quarantine, Sessions
<1>4. /\ Exists(f) /\ files[f].main # <<>> /\ files[f].main \in Seq(Rows)
      /\ files[f].quar \in Seq(Rows)
  <2>1. Exists(f) /\ files[f].main # <<>>
    BY <1>2 DEF RunningOn
  <2>2. files[f].main # None
    BY <2>1 DEF Exists
  <2>3. files[f] \in FileStates
    BY <1>1
  <2>4. files[f].main \in Seq(Rows) /\ files[f].quar \in Seq(Rows)
    BY <2>2, <2>3 DEF FileStates
  <2> QED BY <2>1, <2>4
<1>5. CASE /\ files' = [files EXCEPT ![f].quar = @ \o files[f].main, ![f].main = None]
           /\ torn' = torn \cup {f}
  <2>1. files'[f] = [files[f] EXCEPT !.quar = @ \o files[f].main, !.main = None]
    BY <1>1, <1>5
  <2>2. ~Exists(f)' /\ files'[f].quar = files[f].quar \o files[f].main
    BY <1>1, <2>1 DEF Exists, FileStates
  <2>3. Quarantined(f)'
    BY <1>4, <2>2, JoinedNotEmpty DEF Quarantined
  <2>4. RunningOn(r, f)'
    BY <1>3, <2>3 DEF RunningOn
  <2> QED BY <1>5, <2>2, <2>4 DEF CleanAt, WholeAt
<1>6. CASE stuck' = stuck \cup {f} /\ UNCHANGED <<files, torn>>
  <2>1. Holds(f)' = Holds(f)
    BY <1>2, <1>3, <1>6, SessionDropping DEF Holds
  <2>2. CleanAt(f)'
    BY <1>6 DEF CleanAt
  <2>3. WholeAt(f)'
    BY <1>2, <1>6, <2>1 DEF WholeAt, Exists
  <2>4. RunningOn(r, f)'
    BY <1>3, <1>4, <1>6 DEF RunningOn, Exists
  <2> QED BY <2>2, <2>3, <2>4
<1> QED BY <1>5, <1>6 DEF Quarantine

\* A session that is killed, wherever it is, leaves a whole file or a torn one.
LEMMA DiesFile ==
    ASSUME Types, Seats, NEW r \in Roles, NEW f \in Files, f = run[r].file, run[r] # NoRun,
           Frame(r, f), RunningOn(r, f), CleanAt(f), WholeAt(f), SessionDies(r)
    PROVE  RunningOn(r, f)' /\ CleanAt(f)' /\ WholeAt(f)'
<1>1. /\ files[f] \in FileStates /\ run[r] \in Sessions
      /\ files \in [Files -> FileStates] /\ run \in [Roles -> Sessions \cup {NoRun}]
  BY RunFile, TypesFlat
<1>2. run[r].st # "closed" /\ unsettled' = unsettled /\ lost' = lost
  BY DEF SessionDies
<1>3. run'[r].st = "dead"
  BY <1>1 DEF SessionDies, Sessions
<1>4. f \in unsettled'
  BY <1>2 DEF RunningOn
<1>5. RunningOn(r, f)' /\ CleanAt(f)'
  BY <1>3, <1>4 DEF RunningOn, CleanAt
<1>6. CASE torn' = torn \cup Doubled(r) /\ UNCHANGED <<files, audit>>
  <2> SUFFICES ASSUME f \notin torn' PROVE WholeAt(f)'
    BY <1>5 DEF WholeAt
  <2>1. f \notin torn /\ f \notin Doubled(r)
    BY <1>6
  <2>2. run[r].st = "drop" => files[f].parts = <<>>
    BY <2>1 DEF Doubled, In
  <2>3. ~Dropping(f)' /\ (Dropping(f) <=> run[r].st = "drop")
    BY <1>3, SessionDropping
  <2>4. Holds(f)' = Holds(f)
    <3>1. CASE run[r].st = "drop"
      <4>1. files[f].main \in Seq(Rows) /\ files[f].main # None
        BY <1>1, <3>1 DEF RunningOn, Exists, FileStates
      <4>2. <<>> \o files[f].main = files[f].main
        BY <4>1, ConcatEmptySeq
      <4> QED BY <1>6, <2>2, <2>3, <3>1, <4>1, <4>2 DEF Holds, ReadOf
    <3>2. CASE run[r].st # "drop"
      BY <1>6, <2>3, <3>2 DEF Holds
    <3> QED BY <3>1, <3>2
  <2> QED BY <1>2, <1>6, <2>1, <2>4 DEF WholeAt, Exists
<1>7. CASE CutOff(r, {})
  <2>1. f \in torn'
    BY <1>7 DEF CutOff
  <2> QED BY <1>5, <2>1 DEF WholeAt
<1> QED BY <1>6, <1>7 DEF SessionDies

\* A session step keeps the file it works on as it should be.
LEMMA SessionFile ==
    ASSUME Types, Seats, Running, Clean, Whole, NEW r \in Roles, SessionStep(r),
           NEW f \in Files, f = run[r].file
    PROVE  RunningOn(r, f)' /\ CleanAt(f)' /\ WholeAt(f)'
<1>1. run[r] # NoRun /\ Frame(r, f)
  BY SessionFrame
<1>2. RunningOn(r, f) /\ CleanAt(f) /\ WholeAt(f)
  BY <1>1 DEF Running, Clean, Whole
<1> QED BY <1>1, <1>2, TurnFile, EndRunFile, RedactFile, DropPartsFile, QuarantineFile, DiesFile
        DEF SessionStep

-----------------------------------------------------------------------------
(*                What the steps of a session leave alone                  *)

\* An index keeps its addresses as long as no file it leads to changes.
LEMMA BoundKept ==
    ASSUME \A f \in Files \ SelfFiles : files'[f] = files[f], seated' = seated,
           NEW r \in Roles, NEW seg, Bound(r, seg)
    PROVE  Bound(r, seg)'
<1>1. \A f \in Files \ SelfFiles : Exists(f)' = Exists(f)
  BY DEF Exists
<1>2. \A f \in Files \ SelfFiles : \A line : SegmentEntry(f, line)' = SegmentEntry(f, line)
  BY <1>1 DEF SegmentEntry
<1>3. \A g \in Gens : GenFile(r, g) \in Files \ SelfFiles
  BY FileNames
<1>4. \A g \in Gens : ReadSession(GenFile(r, g)).kind' = ReadSession(GenFile(r, g)).kind
  BY <1>1, <1>3 DEF ReadSession
<1>5. SessionIndex(r)' = SessionIndex(r)
  <2>1. {h \in Gens : ReadSession(GenFile(r, h)).kind' # "none"}
          = {h \in Gens : ReadSession(GenFile(r, h)).kind # "none"}
    BY <1>4
  <2> QED BY <1>1, <1>3, <2>1 DEF SessionIndex
<1>6. \A e \in SessionIndex(r) : e.gen \in Gens
  BY DEF SessionIndex
<1>7. SessionEntries(r)' = SessionEntries(r)
  <2> DEFINE Es == {GenFile(r, e.gen) : e \in SessionIndex(r)}
  <2>1. Es' = Es
    BY <1>5
  <2>2. \A f \in Es : f \in Files \ SelfFiles
    BY <1>3, <1>6
  <2>3. SessionEntries(r) = {f \in Es : ~seated /\ Exists(f)}
    BY DEF SessionEntries
  <2>4. SessionEntries(r)' = {f \in Es : ~seated /\ Exists(f)'}
    BY <2>1 DEF SessionEntries
  <2> HIDE DEF Es
  <2> QED BY <1>1, <2>2, <2>3, <2>4
<1>8. seg.file \in Files \ SelfFiles
  BY DEF Bound
<1>9. SegmentEntry(seg.file, seg.line)' = SegmentEntry(seg.file, seg.line)
  BY <1>2, <1>8
<1>10. Fetch(r, seg.file, seg.line)' = Fetch(r, seg.file, seg.line)
  BY <1>7, <1>9 DEF Fetch
<1> QED BY <1>8, <1>9, <1>10 DEF Bound

\* A statement stays true as long as no task child is billed.
LEMMA StatementsKept ==
    ASSUME \A g \in Gens : audit'[TaskFile(g)] = audit[TaskFile(g)], told' = told,
           StatementsLookBack
    PROVE  StatementsLookBack'
<1>1. \A g : TaskCost(g)' = TaskCost(g)
  BY DEF TaskCost
<1>2. \A st : StatementLooksBack(st) => StatementLooksBack(st)'
  BY <1>1 DEF StatementLooksBack
<1> QED BY <1>2 DEF StatementsLookBack

\* The plan file of a generation is a file.
LEMMA PlanFileOf ==
    \A g \in Gens : PlanFile(g) \in Files /\ EvalFile(g) \in Files
<1>1. \A g \in Gens : /\ GenFile("planner", g) = PlanFile(g)
                      /\ GenFile("evaluator", g) = EvalFile(g)
  BY DEF GenFile
<1>2. "planner" \in Roles /\ "evaluator" \in Roles
  BY DEF Roles
<1> QED BY <1>1, <1>2, FileNames

\* What is in the ledger or quarantined stays so, and before reconciliation there
\* is no alarm: the ledger stays sound.
LEMMA LedgerKept ==
    ASSUME LedgerSound, report = None, report' = None, pc' # "done",
           seated' = seated, cards' = cards,
           ledger' = ledger \/ (OneRecordPerSession' /\ (seated => ledger' = <<>>)),
           \A g \in Files : OnFile(g) => OnFile(g)'
    PROVE  LedgerSound' /\ Reported'
<1>1. OneRecordPerSession' /\ (seated => ledger' = <<>>)
  BY DEF LedgerSound, OneRecordPerSession, SettledOnRecord
<1>2. SettledOnRecord'
  <2> SUFFICES ASSUME ~seated, NEW g \in Gens, cards[g] # None,
                      NEW f \in {PlanFile(g), EvalFile(g)}
               PROVE  OnRecord(f)' \/ Quarantined(f)'
    BY <1>1 DEF SettledOnRecord, OnRecord, Quarantined
  <2>1. f \in Files
    BY PlanFileOf
  <2>2. OnFile(f)
    BY DEF LedgerSound, SettledOnRecord, OnFile
  <2> QED BY <2>1, <2>2 DEF OnFile
<1>3. NoFalseAlarm' /\ Reported'
  BY DEF NoFalseAlarm, Reported
<1> QED BY <1>1, <1>2, <1>3 DEF LedgerSound

\* Every step of a running session preserves the invariant.
LEMMA SessionInv ==
    ASSUME IInv, NEW r \in Roles, SessionStep(r)
    PROVE  IInv'
<1> USE DEF IInv
<1>1. run[r] # NoRun /\ \A f \in Files : f = run[r].file => Frame(r, f)
  BY SessionFrame
<1>2. PICK f \in Files : f = run[r].file
  BY <1>1, RunFile
<1>3. f \notin TaskFiles /\ f[2] = r /\ f = SeatFile(r) /\ (f \in SelfFiles <=> pc = "self")
  BY <1>1, <1>2, RunFile
<1>4. Frame(r, f)
  BY <1>1, <1>2
<1>5. RunningOn(r, f)' /\ CleanAt(f)' /\ WholeAt(f)'
  BY <1>2, SessionFile
<1>6. /\ seated' = seated /\ ledger' = ledger /\ cards' = cards /\ report' = report
      /\ told' = told /\ index' = index /\ chat' = chat /\ pc' = pc /\ gen' = gen
      /\ att' = att /\ saved' = saved /\ crashes' = crashes
  BY <1>4 DEF Frame, loopState
<1>7. /\ \A g \in Files : g # f =>
            /\ files'[g] = files[g] /\ audit'[g] = audit[g] /\ lost'[g] = lost[g]
            /\ (g \in unsettled' <=> g \in unsettled) /\ (g \in torn' <=> g \in torn)
            /\ (g \in left' <=> g \in left) /\ (g \in stuck' <=> g \in stuck)
      /\ \A q \in Roles : q # r => run'[q] = run[q]
      /\ run'[r] # NoRun /\ run'[r].file = f /\ torn \subseteq torn'
  BY <1>4 DEF Frame
<1>8. \A g \in Files : g # f => (Exists(g)' <=> Exists(g)) /\ (Holds(g)' = Holds(g))
  <2>1. \A g \in Files : g # f => (Dropping(g)' <=> Dropping(g))
    BY <1>1, <1>2, <1>4, SessionDropping
  <2> QED BY <1>7, <2>1 DEF Exists, Holds
<1>9. Types'
  <2>1. /\ files' \in [Files -> FileStates] /\ audit' \in [Files -> Nat]
        /\ run' \in [Roles -> Sessions \cup {NoRun}] /\ faults' \in 0 .. MaxFaults
        /\ unsettled' \subseteq Files /\ torn' \subseteq Files
        /\ left' \subseteq Files /\ stuck' \subseteq Files
        /\ lost' \in [Files -> Nat] /\ \A g \in Files : lost'[g] <= audit'[g]
    BY <1>4 DEF Frame
  <2>2. \A g \in Files : audit'[g] \in Nat /\ files'[g].wrote \in Nat
    BY <2>1 DEF FileStates
  <2>3. \A g \in Files : lost'[g] \in Nat
    BY <2>1
  <2> QED BY <1>6, <2>1, <2>2, <2>3 DEF Types, TypeOK
<1>10. Seats'
  BY <1>1, <1>2, <1>6, <1>7 DEF Seats, SeatFile
<1>11. Running'
  <2>1. RunningOn(r, f)'
    BY <1>5
  <2>2. ASSUME NEW q \in Roles, q # r, run'[q] # NoRun, NEW g \in Files, g = run[q].file
        PROVE  RunningOn(q, g)'
    <3>1. run'[q] = run[q] /\ run[q] # NoRun /\ run[q].file[2] = q
      BY <1>7, <2>2, RunFile
    <3>2. g # f /\ RunningOn(q, g)
      BY <1>3, <2>2, <3>1 DEF Running
    <3>3. files'[g] = files[g] /\ (g \in unsettled' <=> g \in unsettled)
      BY <1>7, <3>2
    <3> QED BY <3>1, <3>2, <3>3 DEF RunningOn, Exists, Quarantined, Covered, RawIn, Merged
  <2>3. \A q \in Roles : q # r /\ run'[q] # NoRun => run'[q] = run[q] /\ run[q].file \in Files
    BY <1>7, RunFile
  <2>4. ASSUME NEW q \in Roles, run'[q] # NoRun, NEW g \in Files, g = run'[q].file
        PROVE  RunningOn(q, g)'
    BY <1>7, <2>1, <2>2, <2>3, <2>4
  <2>5. \A q \in Roles : run'[q] # NoRun => run'[q].file \in Files
    BY <1>7, <2>3
  <2>6. ASSUME NEW q \in Roles, run'[q] # NoRun PROVE RunningOn(q, run[q].file)'
    <3>1. PICK g \in Files : g = run'[q].file
      BY <2>5, <2>6
    <3>2. RunningOn(q, g)'
      BY <2>4, <2>6, <3>1
    <3> QED BY <3>1, <3>2 DEF RunningOn, Exists, Quarantined, Covered, RawIn, Merged
  <2> QED BY <2>6 DEF Running
<1>12. Clean'
  <2> SUFFICES ASSUME NEW g \in Files PROVE CleanAt(g)'
    BY DEF Clean
  <2>1. CASE g # f
    <3>1. CleanAt(g) /\ files'[g] = files[g] /\ (Exists(g)' <=> Exists(g))
      BY <1>7, <1>8, <2>1 DEF Clean
    <3>2. /\ (g \in unsettled' <=> g \in unsettled) /\ (g \in left' <=> g \in left)
          /\ (g \in stuck' <=> g \in stuck)
      BY <1>7, <2>1
    <3> QED BY <3>1, <3>2 DEF CleanAt, Covered, RawIn, Merged
  <2> QED BY <1>5, <2>1
<1>13. Whole'
  <2> SUFFICES ASSUME NEW g \in Files PROVE WholeAt(g)'
    BY DEF Whole
  <2>1. CASE g # f
    <3>1. WholeAt(g)
      BY DEF Whole
    <3> QED BY <1>7, <1>8, <2>1, <3>1 DEF WholeAt
  <2> QED BY <1>5, <2>1
<1>14. \A g \in TaskFiles : g \in Files /\ g # f
  BY <1>3, FileNames
<1>15. Archived'
  BY <1>7, <1>8, <1>14 DEF Archived
<1>16. Fresh'
  <2> SUFFICES ASSUME NEW q \in Roles, NEW a \in Attempts,
                      a > att \/ (a = att /\ pc \notin {"self", "done", "down"})
               PROVE  SelfFile(q, a) \in Files /\ SelfFile(q, a) # f
    BY <1>6, <1>7, <1>8 DEF Fresh
  <2>1. /\ SelfFile(q, a) \in Files /\ SelfFile(q, a) \in SelfFiles /\ SelfFile(q, a)[3] = a
    BY FileNames
  <2>2. CASE pc = "self"
    <3>1. att \in Attempts
      BY <2>2 DEF Types
    <3>2. f = SelfFile(r, att) /\ f[3] = att
      BY <1>3, <2>2, <3>1, FileNames DEF SeatFile
    <3>3. a \in Nat /\ att \in Nat /\ a > att
      BY <2>2, <3>1, BoundsAssumption DEF Attempts
    <3> QED BY <2>1, <3>2, <3>3
  <2>3. CASE pc # "self"
    BY <1>3, <2>1, <2>3
  <2> QED BY <2>1, <2>2, <2>3
<1>17. Unrecorded'
  BY <1>6 DEF Unrecorded
<1>18. pc \in {"plan", "eval", "self"}
  BY <1>1 DEF Seats
<1>19. Working'
  BY <1>6, <1>18 DEF Working
<1>20. Evidence'
  <2> SUFFICES ASSUME pc = "eval" PROVE Evidence'
    BY <1>6 DEF Evidence
  <2>1. TaskFile(gen) \in TaskFiles
    BY FileNames DEF Types
  <2> QED BY <1>6, <1>7, <1>8, <1>14, <2>1 DEF Evidence
<1>21. Indexed'
  <2> SUFFICES ASSUME NEW q \in Roles, NEW seg \in index[q] PROVE Bound(q, seg)'
    BY <1>6 DEF Indexed
  <2>1. pc = "self" /\ Bound(q, seg)
    BY <1>18 DEF Indexed
  <2>2. \A g \in Files \ SelfFiles : files'[g] = files[g]
    BY <1>3, <1>7, <2>1
  <2> QED BY <1>6, <2>1, <2>2, BoundKept
<1>22. Told'
  BY <1>6 DEF Told
<1>23. StatementsLookBack'
  <2>1. \A g \in Gens : audit'[TaskFile(g)] = audit[TaskFile(g)]
    BY <1>7, <1>14, FileNames
  <2> QED BY <1>6, <2>1, StatementsKept
<1>24. report = None
  BY <1>18 DEF Reported
<1>25. \A g \in Files : OnFile(g) => OnFile(g)'
  <2> SUFFICES ASSUME NEW g \in Files PROVE OnFile(g) => OnFile(g)'
    OBVIOUS
  <2>1. files[g].quar # <<>> => files'[g].quar # <<>>
    BY <1>4, <1>7 DEF Frame
  <2> QED BY <1>6, <2>1 DEF OnFile, OnRecord, Quarantined
<1>26. LedgerSound' /\ Reported'
  BY <1>6, <1>18, <1>24, <1>25, LedgerKept
<1>27. Recording'
  <2> SUFFICES ASSUME ~seated PROVE Recording'
    BY <1>6 DEF Recording
  <2>1. pc \in {"task", "eval"} => OnFile(PlanFile(gen)) /\ PlanFile(gen) \in Files
    BY PlanFileOf DEF Recording, Types
  <2>2. ASSUME pc = "self", NEW q \in Roles, run'[q] = NoRun
        PROVE  \E g \in Files : g = SelfFile(q, att) /\ (g \in unsettled' \/ OnFile(g)')
    <3>1. q # r /\ run[q] = NoRun /\ att \in Attempts
      BY <1>7, <2>2 DEF Types
    <3>2. /\ SelfFile(q, att) \in Files /\ SelfFile(q, att)[2] = q
          /\ SelfFile(q, att) \in unsettled \/ OnFile(SelfFile(q, att))
      BY <2>2, <3>1, FileNames DEF Recording
    <3> QED BY <1>3, <1>7, <1>25, <3>1, <3>2
  <2>3. pc \in {"task", "eval"} => \E g \in Files : g = PlanFile(gen) /\ OnFile(g)'
    BY <1>25, <2>1
  <2> QED BY <1>6, <1>18, <2>2, <2>3 DEF Recording, OnFile, OnRecord, Quarantined
<1> QED BY <1>9, <1>10, <1>11, <1>12, <1>13, <1>15, <1>16, <1>17, <1>19, <1>20, <1>21,
           <1>22, <1>23, <1>26, <1>27

-----------------------------------------------------------------------------
(*                          The steps of the loop                          *)

\* Files that nobody writes stay as they should be.
LEMMA FilesKept ==
    ASSUME Clean, Archived, Whole, UNCHANGED <<files, audit, left, stuck, lost>>,
           torn \subseteq torn', unsettled \subseteq unsettled',
           \A f \in Files : Dropping(f)' <=> Dropping(f)
    PROVE  Clean' /\ Archived' /\ Whole'
<1>1. \A f \in Files : (Exists(f)' <=> Exists(f)) /\ Holds(f)' = Holds(f)
  BY DEF Exists, Holds
<1>2. Clean'
  <2> SUFFICES ASSUME NEW f \in Files PROVE CleanAt(f)'
    BY DEF Clean
  <2> QED BY <1>1 DEF Clean, CleanAt, Covered, RawIn, Merged
<1>3. Archived'
  <2>1. \A f \in TaskFiles : f \in Files
    BY FileNames
  <2> QED BY <1>1, <2>1 DEF Archived
<1>4. Whole'
  <2> SUFFICES ASSUME NEW f \in Files PROVE WholeAt(f)'
    BY DEF Whole
  <2>1. WholeAt(f)
    BY DEF Whole
  <2> QED BY <1>1, <2>1 DEF WholeAt
<1> QED BY <1>2, <1>3, <1>4

\* loop._record_session_cost adds at most one record, under a new key.
LEMMA RecordedOnce ==
    ASSUME ledger \in Seq(Costs), OneRecordPerSession,
           NEW rec, rec = None \/ rec \in Costs, ledger' = Recorded(rec)
    PROVE  /\ ledger' \in Seq(Costs) /\ OneRecordPerSession'
           /\ \A i \in DOMAIN ledger' :
                 \/ i \in DOMAIN ledger /\ ledger'[i] = ledger[i]
                 \/ rec # None /\ ledger'[i] = rec
           /\ ledger' # ledger => rec # None /\ ledger'[Len(ledger')] = rec
           /\ \A f : OnRecord(f) => OnRecord(f)'
           /\ \A f : rec # None /\ rec.key = f => OnRecord(f)'
           /\ rec = None => ledger' = ledger
<1>1. CASE rec = None \/ \E i \in DOMAIN ledger : ledger[i].key = rec.key
  <2>1. ledger' = ledger
    BY <1>1 DEF Recorded
  <2> QED BY <1>1, <2>1 DEF OneRecordPerSession, OnRecord
<1>2. CASE rec # None /\ ~\E i \in DOMAIN ledger : ledger[i].key = rec.key
  <2>1. ledger' = Append(ledger, rec) /\ rec \in Costs
    BY <1>2 DEF Recorded
  <2>2. /\ ledger' \in Seq(Costs) /\ Len(ledger') = Len(ledger) + 1
        /\ \A i \in 1 .. Len(ledger) : ledger'[i] = ledger[i]
        /\ ledger'[Len(ledger) + 1] = rec
    BY <2>1, AppendProperties
  <2>3. DOMAIN ledger = 1 .. Len(ledger) /\ DOMAIN ledger' = 1 .. Len(ledger) + 1
        /\ Len(ledger) \in Nat
    BY <2>2
  <2>4. \A i \in DOMAIN ledger' :
          \/ i \in DOMAIN ledger /\ ledger'[i] = ledger[i]
          \/ i = Len(ledger) + 1 /\ ledger'[i] = rec
    BY <2>2, <2>3
  <2>5. OneRecordPerSession'
    BY <1>2, <2>4 DEF OneRecordPerSession
  <2>6. \A f : OnRecord(f) => OnRecord(f)'
    <3>1. \A i \in DOMAIN ledger : i \in DOMAIN ledger' /\ ledger'[i] = ledger[i]
      BY <2>2, <2>3
    <3> QED BY <3>1 DEF OnRecord
  <2>7. OnRecord(rec.key)'
    <3>1. Len(ledger) + 1 \in DOMAIN ledger' /\ ledger'[Len(ledger) + 1] = rec
      BY <2>2, <2>3
    <3> QED BY <3>1 DEF OnRecord
  <2> QED BY <1>2, <2>2, <2>4, <2>5, <2>6, <2>7
<1> QED BY <1>1, <1>2

\* What the ledger has of a seat is one of its records.
LEMMA LatestRecord ==
    ASSUME ledger \in Seq(Costs), NEW seat, NEW role, NEW exclude
    PROVE  \/ LatestCost(seat, role, exclude) = None
           \/ \E i \in DOMAIN ledger :
                 /\ LatestCost(seat, role, exclude) = ledger[i]
                 /\ ledger[i].key[1] = seat /\ ledger[i].key[3] # exclude
<1> DEFINE hits == {i \in DOMAIN ledger :
                      /\ ledger[i].key[1] = seat /\ ledger[i].key[2] = role
                      /\ ledger[i].key[3] # exclude}
<1>1. CASE hits = {}
  BY <1>1 DEF LatestCost
<1>2. CASE hits # {}
  <2>1. hits \subseteq Nat /\ Len(ledger) \in Nat /\ \A i \in hits : i <= Len(ledger)
    OBVIOUS
  <2>2. \E i \in hits : \A j \in hits : j <= i
    <3> HIDE DEF hits
    <3> QED BY <1>2, <2>1, GreatestNatural
  <2> DEFINE last == CHOOSE i \in hits : \A j \in hits : j <= i
  <2>3. last \in hits
    <3> HIDE DEF hits
    <3> QED BY <2>2
  <2>4. LatestCost(seat, role, exclude) = ledger[last]
    BY <1>2 DEF LatestCost
  <2> HIDE DEF last
  <2> QED BY <2>3, <2>4
<1> QED BY <1>1, <1>2

\* A role's constructor resets a file nobody has written to.
LEMMA ConstructedFiles ==
    ASSUME Types, NEW a \in Attempts, Constructed(a) \/ UNCHANGED files,
           \A r \in Roles : /\ files[SelfFile(r, a)].parts = <<>>
                            /\ files[SelfFile(r, a)].main \in {None, <<>>}
    PROVE  /\ files' \in [Files -> FileStates]
           /\ \A f \in Files : /\ ReadOf(files'[f]) = ReadOf(files[f])
                               /\ files'[f].wrote = files[f].wrote
                               /\ files'[f].quar = files[f].quar
           /\ \A f \in Files : (\A r \in Roles : f # SelfFile(r, a)) => files'[f] = files[f]
           /\ \A r \in Roles : /\ files'[SelfFile(r, a)].parts = <<>>
                               /\ files'[SelfFile(r, a)].main \in {None, <<>>}
                               /\ ReadOf(files[SelfFile(r, a)]) = <<>>
<1>1. files \in [Files -> FileStates]
  BY TypesFlat
<1>2. \A r \in Roles : SelfFile(r, a) \in Files
  BY FileNames
<1>3. <<>> \o <<>> = <<>> /\ <<>> # None
  <2>1. \A s \in Seq(Rows) : <<>> \o s = s
    BY ConcatEmptySeq
  <2> QED BY <2>1, NoRows
<1>4. \A r \in Roles : ReadOf(files[SelfFile(r, a)]) = <<>>
  BY <1>3 DEF ReadOf
<1>5. CASE UNCHANGED files
  BY <1>1, <1>4, <1>5
<1>6. CASE Constructed(a)
  <2>1. \A f \in Files : Reset(files[f]) \in FileStates
    BY <1>1, NoRows DEF Reset, FileStates
  <2>2. files' \in [Files -> FileStates]
    BY <1>1, <1>6, <2>1 DEF Constructed
  <2>3. \A f \in Files : (\A r \in Roles : f # SelfFile(r, a)) => files'[f] = files[f]
    BY <1>6 DEF Constructed
  <2>4. \A r \in Roles : files'[SelfFile(r, a)] = Reset(files[SelfFile(r, a)])
    BY <1>2, <1>6 DEF Constructed
  <2>5. \A r \in Roles :
          /\ files'[SelfFile(r, a)].parts = <<>> /\ files'[SelfFile(r, a)].main = <<>>
          /\ files'[SelfFile(r, a)].wrote = files[SelfFile(r, a)].wrote
          /\ files'[SelfFile(r, a)].quar = files[SelfFile(r, a)].quar
    <3>1. \A rec \in FileStates :
            /\ Reset(rec).parts = <<>> /\ Reset(rec).main = <<>>
            /\ Reset(rec).wrote = rec.wrote /\ Reset(rec).quar = rec.quar
      BY DEF Reset, FileStates
    <3>2. \A r \in Roles : files[SelfFile(r, a)] \in FileStates
      BY <1>1, <1>2
    <3> QED BY <2>4, <3>1, <3>2
  <2>6. \A r \in Roles : ReadOf(files'[SelfFile(r, a)]) = <<>>
    BY <1>3, <2>5 DEF ReadOf
  <2>7. \A f \in Files : /\ ReadOf(files'[f]) = ReadOf(files[f])
                         /\ files'[f].wrote = files[f].wrote
                         /\ files'[f].quar = files[f].quar
    <3> SUFFICES ASSUME NEW f \in Files
                 PROVE  /\ ReadOf(files'[f]) = ReadOf(files[f])
                        /\ files'[f].wrote = files[f].wrote /\ files'[f].quar = files[f].quar
      OBVIOUS
    <3>1. CASE \E r \in Roles : f = SelfFile(r, a)
      BY <1>4, <2>5, <2>6, <3>1
    <3>2. CASE \A r \in Roles : f # SelfFile(r, a)
      BY <2>3, <3>2
    <3> QED BY <3>1, <3>2
  <2> QED BY <1>4, <2>2, <2>3, <2>5, <2>7
<1> QED BY <1>5, <1>6

\* Such a reset is seen by no reader of the files.
LEMMA ConstructedKept ==
    ASSUME Types, Clean, Archived, Whole, NEW a \in Attempts,
           Constructed(a) \/ UNCHANGED files, UNCHANGED <<audit, left, stuck, lost>>,
           \A r \in Roles : /\ files[SelfFile(r, a)].parts = <<>>
                            /\ files[SelfFile(r, a)].main \in {None, <<>>},
           torn \subseteq torn', unsettled \subseteq unsettled',
           \A f \in Files : ~Dropping(f) /\ ~Dropping(f)'
    PROVE  /\ Clean' /\ Archived' /\ Whole'
           /\ \A f \in Files \ SelfFiles : files'[f] = files[f]
<1> DEFINE Same(f) == files'[f] = files[f]
           Reset2(f) == /\ ReadOf(files[f]) = <<>> /\ files'[f].parts = <<>>
                        /\ files'[f].main \in {None, <<>>} /\ f \in SelfFiles
<1>1. \A f \in Files : /\ ReadOf(files'[f]) = ReadOf(files[f])
                       /\ files'[f].wrote = files[f].wrote
  BY ConstructedFiles
<1>2. \A f \in Files : Same(f) \/ Reset2(f)
  <2> SUFFICES ASSUME NEW f \in Files PROVE Same(f) \/ Reset2(f)
    OBVIOUS
  <2>1. CASE \E r \in Roles : f = SelfFile(r, a)
    <3>1. PICK r \in Roles : f = SelfFile(r, a)
      BY <2>1
    <3>2. f \in SelfFiles
      BY <3>1, FileNames
    <3>3. /\ ReadOf(files[f]) = <<>> /\ files'[f].parts = <<>>
          /\ files'[f].main \in {None, <<>>}
      BY <3>1, ConstructedFiles
    <3> QED BY <3>2, <3>3
  <2>2. CASE \A r \in Roles : f # SelfFile(r, a)
    BY <2>2, ConstructedFiles
  <2> QED BY <2>1, <2>2
<1>3. \A f \in Files \ SelfFiles : Same(f)
  BY <1>2
<1>4. Clean'
  <2> SUFFICES ASSUME NEW f \in Files, f \notin unsettled' \cup stuck, Exists(f)'
               PROVE  IF f \in left THEN Covered(files'[f]) ELSE ~RawIn(ReadOf(files'[f]))
    BY DEF Clean, CleanAt, RawIn, Covered, Merged
  <2>1. CASE Same(f)
    <3>1. Exists(f)
      BY <2>1 DEF Exists
    <3>2. CleanAt(f) /\ f \notin unsettled \cup stuck
      BY DEF Clean
    <3> QED BY <2>1, <3>1, <3>2 DEF CleanAt
  <2>2. CASE Reset2(f)
    <3>1. files'[f].main = <<>> /\ files'[f].parts = <<>>
      BY <2>2 DEF Exists
    <3>2. Covered(files'[f])
      BY <3>1, NoRows, NoParts DEF Covered
    <3>3. ~RawIn(ReadOf(files'[f]))
      BY <1>1, <2>2, NoRows
    <3> QED BY <3>2, <3>3
  <2> QED BY <1>2, <2>1, <2>2
<1>5. Archived'
  <2>1. \A f \in TaskFiles : f \in Files \ SelfFiles
    BY FileNames
  <2> QED BY <1>3, <2>1 DEF Archived, Exists
<1>6. Whole'
  <2> SUFFICES ASSUME NEW f \in Files PROVE WholeAt(f)'
    BY DEF Whole
  <2>1. Holds(f)' = Holds(f)
    BY <1>1 DEF Holds
  <2>2. WholeAt(f)
    BY DEF Whole
  <2>3. CASE Same(f)
    BY <2>1, <2>2, <2>3 DEF WholeAt, Exists
  <2>4. CASE Reset2(f)
    <3>1. f \notin TaskFiles
      BY <2>4, FileNames
    <3>2. files'[f].wrote = files[f].wrote /\ files'[f].parts = <<>>
      BY <1>1, <2>4
    <3> HIDE DEF Reset2
    <3> QED BY <2>1, <2>2, <3>1, <3>2 DEF WholeAt
  <2> QED BY <1>2, <2>3, <2>4
<1> QED BY <1>3, <1>4, <1>5, <1>6

\* Usage of no rows is not known (cost_ledger._sum_usage).
LEMMA UsageOf ==
    ASSUME NEW rows
    PROVE  Usage(rows) = IF Outputs(rows) = 0 THEN None ELSE Outputs(rows)
  BY DEF Usage, Outputs

\* What a self-improve session is told is of earlier attempts.
LEMMA SelfStatementLooksBack ==
    ASSUME Types, Fresh, Unrecorded, pc \notin {"self", "done", "down"}, att \in Attempts,
           NEW r \in Roles
    PROVE  /\ SelfStatement(r).seat = "self_improve"
           /\ SelfStatement(r).gen = att
           /\ SelfStatement(r).own # None => SelfStatement(r).own.key[3] # att
           /\ \A h \in SelfStatement(r).history : h.key[3] = att => h.tok = None
<1>1. /\ SelfStatement(r).seat = "self_improve" /\ SelfStatement(r).gen = att
      /\ SelfStatement(r).own = LatestCost("self_improve", r, None)
      /\ SelfStatement(r).history = OwnSessions(r)
  BY DEF SelfStatement
<1>2. ASSUME LatestCost("self_improve", r, None) # None
      PROVE  LatestCost("self_improve", r, None).key[3] # att
  <2>1. ledger \in Seq(Costs)
    BY TypesFlat
  <2>2. PICK i \in DOMAIN ledger : /\ LatestCost("self_improve", r, None) = ledger[i]
                                   /\ ledger[i].key[1] = "self_improve"
    BY <1>2, <2>1, LatestRecord
  <2> QED BY <2>2 DEF Unrecorded
<1>3. ASSUME NEW h \in OwnSessions(r), h.key[3] = att PROVE h.tok = None
  <2>1. PICK a \in Attempts : h = SessionCost(SelfFile(r, a)) /\ h # None
    BY DEF OwnSessions
  <2>2. h = [key |-> SelfFile(r, a), tok |-> Usage(ReadAll(SelfFile(r, a)))]
    BY <2>1 DEF SessionCost
  <2>3. a = att
    <3>1. h.key = SelfFile(r, a)
      BY <2>2
    <3> QED BY <1>3, <3>1, FileNames
  <2>4. /\ files[SelfFile(r, a)].parts = <<>> /\ files[SelfFile(r, a)].main \in {None, <<>>}
    BY <2>3 DEF Fresh
  <2>5. ReadAll(SelfFile(r, a)) = <<>>
    <3>1. <<>> \o <<>> = <<>>
      <4>1. \A s \in Seq(Rows) : <<>> \o s = s
        BY ConcatEmptySeq
      <4> QED BY <4>1, NoRows
    <3> QED BY <2>4, <3>1 DEF ReadAll, Exists
  <2>6. Usage(<<>>) = None
    BY UsageOf, NoRows
  <2> QED BY <2>2, <2>5, <2>6
<1> QED BY <1>1, <1>2, <1>3

\* Every address of a new index resolves.
LEMMA MaterializedBound ==
    ASSUME NEW r \in Roles, NEW seg \in Materialized(r)
    PROVE  Bound(r, seg)
<1>1. PICK f \in SessionUniverse(r) \cup {t \in {TaskFile(g) : g \in Gens} : Exists(t)} :
        seg \in Scan(f)
  BY DEF Materialized
<1>2. PICK i \in DOMAIN files[f].main :
        /\ IsSegment(files[f].main[i])
        /\ seg = [file |-> f, line |-> i, n |-> files[f].main[i].n]
  BY <1>1 DEF Scan
<1>3. seg.file = f /\ seg.line = i /\ seg.n = files[f].main[i].n
  BY <1>2
<1>4. CASE f \in SessionUniverse(r)
  <2>1. PICK e \in SessionIndex(r) : ~seated /\ ~e.quarantined /\ f = GenFile(r, e.gen)
    BY <1>4 DEF SessionUniverse
  <2>2. e.gen \in Gens /\ e.quarantined = ~Exists(GenFile(r, e.gen))
    BY DEF SessionIndex
  <2>3. Exists(f) /\ f \in Files \ SelfFiles
    BY <2>1, <2>2, FileNames
  <2>4. SegmentEntry(f, i) = seg.n
    BY <1>2, <1>3, <2>3 DEF SegmentEntry
  <2>5. f \in SessionEntries(r)
    BY <2>1, <2>3 DEF SessionEntries
  <2> QED BY <1>3, <2>3, <2>4, <2>5 DEF Bound, Fetch
<1>5. CASE f \in {t \in {TaskFile(g) : g \in Gens} : Exists(t)}
  <2>1. f \in TaskFiles /\ Exists(f)
    BY <1>5 DEF TaskFiles
  <2>2. f \in Files \ SelfFiles /\ f[1] = "task"
    <3>1. PICK g \in Gens : f = TaskFile(g)
      BY <2>1, FileNames
    <3> QED BY <2>1, <3>1, FileNames
  <2>3. SegmentEntry(f, i) = seg.n
    BY <1>2, <1>3, <2>1 DEF SegmentEntry
  <2> QED BY <1>3, <2>2, <2>3 DEF Bound, Fetch
<1> QED BY <1>1, <1>4, <1>5

\* The next round opens a plan session or, at the end, the self-improve ones.
LEMMA RoundInv ==
    ASSUME IInv, NextRound, pc \in {"boot", "plan", "task", "eval", "settled"},
           UNCHANGED <<seated, audit, ledger, cards, report, att, crashes, chat,
                       left, stuck, lost>>,
           faults' \in 0 .. MaxFaults, torn \subseteq torn', torn' \subseteq Files,
           \A r \in Roles : run[r] # NoRun => run[r].st = "dead"
    PROVE  IInv'
<1> USE DEF IInv
<1>1. /\ gen \in 0 .. MaxGen /\ att \in Attempts /\ MaxGen \in Nat \ {0} /\ saved' = gen + 1
      /\ files \in [Files -> FileStates] /\ audit \in [Files -> Nat] /\ unsettled \subseteq Files
  BY TypesFlat, BoundsAssumption DEF Types, NextRound
<1>2. \A f \in Files : ~Dropping(f)
  BY DEF Dropping, In
<1>3. saved' \in 1 .. MaxGen + 1
  BY <1>1
<1>4. told = {} \/ pc \in {"plan", "eval"}
  BY DEF Told
<1>5. \A r \in Roles : index[r] = {}
  BY DEF Indexed
<1>6. ASSUME \A f \in Files : files'[f].quar = files[f].quar, pc' # "done"
      PROVE  LedgerSound' /\ Reported'
  <2>1. report = None
    BY DEF Reported
  <2>2. \A f \in Files : OnFile(f) => OnFile(f)'
    BY <1>6 DEF OnFile, OnRecord, Quarantined
  <2> QED BY <1>6, <2>1, <2>2, LedgerKept
<1>7. \A i \in DOMAIN ledger : ledger[i].key[1] = "self_improve" =>
        ledger[i].key[3] <= att /\ ledger[i].key[3] # att
  BY DEF Unrecorded
<1>8. CASE gen < MaxGen
  <2>1. OpenPlan(gen + 1) /\ gen + 1 \in Gens
    BY <1>1, <1>8 DEF NextRound, Gens
  <2>2. /\ pc' = "plan" /\ gen' = gen + 1 /\ gen' \in Gens /\ gen' \in 0 .. MaxGen
        /\ unsettled' = unsettled \cup {PlanFile(gen')}
        /\ UNCHANGED <<files, index>>
    BY <1>1, <2>1 DEF OpenPlan, Gens
  <2>3. PlanFile(gen') \in Files /\ PlanFile(gen') = GenFile("planner", gen')
    <3>1. "planner" \in Roles
      BY DEF Roles
    <3> QED BY <2>2, <3>1, FileNames DEF GenFile
  <2>4. /\ run' = [r \in Roles |-> IF r = "planner" THEN Begun(PlanFile(gen')) ELSE NoRun]
        /\ Begun(PlanFile(gen')) \in Sessions
        /\ Begun(PlanFile(gen')).st = "open" /\ Begun(PlanFile(gen')).calls = 0
        /\ Begun(PlanFile(gen')).file = PlanFile(gen')
    BY <2>1, <2>2, <2>3, BegunSession DEF OpenPlan
  <2>5. \A r \in Roles : run'[r] # NoRun =>
          /\ r = "planner" /\ run'[r].st = "open" /\ run'[r].calls = 0
          /\ run'[r].file = PlanFile(gen')
    BY <2>4
  <2>6. \A f \in Files : ~Dropping(f)'
    BY <2>5 DEF Dropping, In
  <2>7. told' = {PlanStatement(gen')}
    BY <2>1, <2>2 DEF OpenPlan
  <2>8. PlanStatement(gen').seat = "plan" /\ PlanStatement(gen').gen = gen'
    BY DEF PlanStatement
  <2>9. Types'
    <3>1. \A st \in told' : st.seat \in {"plan", "evaluate", "self_improve"}
      BY <2>7, <2>8
    <3>2. run' \in [Roles -> Sessions \cup {NoRun}]
      BY <2>4
    <3>3. unsettled' \subseteq Files
      BY <1>1, <2>2, <2>3
    <3> QED BY <1>1, <1>3, <2>2, <3>1, <3>2, <3>3 DEF Types, TypeOK
  <2>10. Seats'
    BY <2>2, <2>3, <2>5 DEF Seats, SeatFile
  <2>11. Running'
    BY <2>2, <2>5 DEF Running, RunningOn
  <2>12. Clean' /\ Archived' /\ Whole'
    BY <1>2, <2>2, <2>6, FilesKept
  <2>13. Fresh'
    BY <2>2 DEF Fresh, Exists
  <2>14. Unrecorded' /\ Working' /\ Evidence' /\ Told'
    BY <1>7, <2>2 DEF Unrecorded, Working, Evidence, Told
  <2>15. Indexed'
    BY <1>5, <2>2 DEF Indexed
  <2>16. StatementsLookBack'
    <3>1. \A g : TaskCost(g)' = TaskCost(g)
      BY DEF TaskCost
    <3>2. /\ PlanStatement(gen').task = TaskCost(gen' - 1)
          /\ \A h \in PlanStatement(gen').history : h.gen < gen' /\ h.tok = TaskCost(h.gen)
      <4>1. PlanStatement(gen').task = TaskCost(gen' - 1)
        BY DEF PlanStatement
      <4>2. ASSUME NEW h \in PlanStatement(gen').history
            PROVE  h.gen < gen' /\ h.tok = TaskCost(h.gen)
        <5>1. PICK k \in Earlier(gen') : h = [gen |-> k, tok |-> TaskCost(k)]
          BY DEF PlanStatement
        <5>2. k < gen'
          BY <1>1, <2>2 DEF Earlier
        <5> QED BY <5>1, <5>2
      <4> QED BY <4>1, <4>2
    <3> DEFINE st == PlanStatement(gen')
    <3>3. st.seat = "plan" /\ st.gen = gen'
      BY <2>8
    <3> HIDE DEF st
    <3>4. \A s \in told' : s = st
      BY <2>7 DEF st
    <3>5. /\ st.task = TaskCost(gen' - 1)
          /\ \A h \in st.history : h.gen < gen' /\ h.tok = TaskCost(h.gen)
      BY <3>2 DEF st
    <3> QED BY <3>1, <3>3, <3>4, <3>5 DEF StatementsLookBack, StatementLooksBack
  <2>17. LedgerSound' /\ Reported' /\ Recording'
    BY <1>6, <2>2 DEF Recording
  <2> QED BY <2>9, <2>10, <2>11, <2>12, <2>13, <2>14, <2>15, <2>16, <2>17
<1>9. CASE ~(gen < MaxGen)
  <2>1. OpenSelf
    BY <1>9 DEF NextRound
  <2>2. /\ pc' = "self" /\ gen' = gen
        /\ told' = {SelfStatement(r) : r \in Roles}
        /\ run' = [r \in Roles |-> Begun(SelfFile(r, att))]
        /\ unsettled' = unsettled \cup {SelfFile(r, att) : r \in Roles}
        /\ index' = [r \in Roles |-> Materialized(r)]
        /\ Constructed(att) \/ UNCHANGED files
    BY <2>1 DEF OpenSelf
  <2>3. \A r \in Roles :
          /\ SelfFile(r, att) \in Files
          /\ Begun(SelfFile(r, att)) \in Sessions /\ Begun(SelfFile(r, att)).st = "open"
          /\ Begun(SelfFile(r, att)).calls = 0
          /\ Begun(SelfFile(r, att)).file = SelfFile(r, att)
    BY <1>1, FileNames, BegunSession
  <2>4. \A r \in Roles :
          /\ run'[r] \in Sessions /\ run'[r].st = "open" /\ run'[r].calls = 0
          /\ run'[r].file = SelfFile(r, att)
    BY <2>2, <2>3
  <2>5. \A f \in Files : ~Dropping(f)'
    BY <2>2, <2>3 DEF Dropping, In
  <2>6. \A r \in Roles : /\ files[SelfFile(r, att)].parts = <<>>
                         /\ files[SelfFile(r, att)].main \in {None, <<>>}
    BY <1>1 DEF Fresh
  <2>7. /\ Clean' /\ Archived' /\ Whole'
        /\ \A f \in Files \ SelfFiles : files'[f] = files[f]
    BY <1>1, <1>2, <2>2, <2>5, <2>6, ConstructedKept
  <2>8. /\ files' \in [Files -> FileStates]
        /\ \A f \in Files : (\A r \in Roles : f # SelfFile(r, att)) => files'[f] = files[f]
        /\ \A f \in Files : files'[f].quar = files[f].quar
    BY <1>1, <2>2, <2>6, ConstructedFiles
  <2>9. \A r \in Roles :
          /\ SelfStatement(r).seat = "self_improve" /\ SelfStatement(r).gen = att
          /\ SelfStatement(r).own # None => SelfStatement(r).own.key[3] # att
          /\ \A h \in SelfStatement(r).history : h.key[3] = att => h.tok = None
    BY <1>1, SelfStatementLooksBack
  <2>10. \A st \in told' :
          /\ st.seat = "self_improve" /\ st.gen = att
          /\ st.own # None => st.own.key[3] # att
          /\ \A h \in st.history : h.key[3] = att => h.tok = None
    BY <2>2, <2>9
  <2>11. Types'
    <3>1. \A f \in Files : audit'[f] \in Nat /\ files'[f].wrote \in Nat
      BY <1>1, <2>8 DEF FileStates
    <3>2. run' \in [Roles -> Sessions \cup {NoRun}]
      BY <2>2, <2>3
    <3>3. unsettled' \subseteq Files
      BY <1>1, <2>2, <2>3
    <3> QED BY <1>1, <1>3, <2>2, <2>8, <2>10, <3>1, <3>2, <3>3 DEF Types, TypeOK
  <2>12. Seats'
    BY <2>2, <2>4 DEF Seats, SeatFile
  <2>13. Running'
    <3>1. \A r \in Roles : SelfFile(r, att) \in unsettled'
      BY <2>2
    <3> QED BY <2>4, <3>1 DEF Running, RunningOn
  <2>14. Fresh'
    <3> SUFFICES ASSUME NEW r \in Roles, NEW a \in Attempts, a > att
                 PROVE  files'[SelfFile(r, a)] = files[SelfFile(r, a)]
      <4>1. att \in Nat /\ \A a \in Attempts : a \in Nat
        BY <1>1, BoundsAssumption DEF Attempts
      <4> QED BY <2>2, <4>1 DEF Fresh, Exists
    <3>1. a # att
      BY <1>1, BoundsAssumption DEF Attempts
    <3>2. SelfFile(r, a) \in Files /\ \A q \in Roles : SelfFile(r, a) # SelfFile(q, att)
      BY <1>1, <3>1, FileNames
    <3> QED BY <2>8, <3>2
  <2>15. Unrecorded' /\ Working' /\ Evidence' /\ Told'
    BY <1>7, <2>2 DEF Unrecorded, Working, Evidence, Told
  <2>16. Indexed'
    <3>1. \A r \in Roles : \A seg \in index'[r] : Bound(r, seg)
      BY <2>2, MaterializedBound
    <3>2. \A r \in Roles : \A seg : Bound(r, seg) => Bound(r, seg)'
      BY <2>7, BoundKept
    <3> QED BY <2>2, <3>1, <3>2 DEF Indexed
  <2>17. StatementsLookBack'
    BY <2>10 DEF StatementsLookBack, StatementLooksBack
  <2>18. Recording'
    <3>1. \A r \in Roles : run'[r] # NoRun
      BY <2>4, SessionNotNone
    <3> QED BY <2>2, <3>1 DEF Recording
  <2>19. LedgerSound' /\ Reported'
    BY <1>6, <2>2, <2>8
  <2> QED BY <2>7, <2>11, <2>12, <2>13, <2>14, <2>15, <2>16, <2>17, <2>18, <2>19
<1> QED BY <1>8, <1>9

\* A session's compact record, when there is one, is of the file itself.
LEMMA SessionCostOf ==
    ASSUME Types, NEW f \in Files, SessionCost(f) # None
    PROVE  /\ SessionCost(f) \in Costs /\ SessionCost(f).key = f /\ Exists(f)
           /\ SessionCost(f).tok = Usage(ReadOf(files[f]))
<1>1. files[f] \in FileStates
  BY TypesFlat
<1>2. SessionCost(f) = [key |-> f, tok |-> Usage(ReadAll(f))] /\ Exists(f)
  BY DEF SessionCost
<1>3. Usage(ReadOf(files[f])) \in Nat \cup {None}
  BY <1>1, OutputsOf, UsageOf
<1> QED BY <1>2, <1>3, ReadAllOf DEF Costs

\* There is one of every session file in the in-process layout, and of archives,
LEMMA SessionCostThere ==
    ASSUME Types, NEW f \in Files, Exists(f), ~seated \/ f \in TaskFiles
    PROVE  SessionCost(f) # None
<1>1. files[f] \in FileStates
  BY TypesFlat
<1>2. Usage(ReadAll(f)) \in Nat \cup {None}
  BY <1>1, OutputsOf, UsageOf, ReadAllOf
<1>3. f \in TaskFiles => f[1] = "task"
  BY FileNames
<1>4. SessionCost(f) = [key |-> f, tok |-> Usage(ReadAll(f))]
  BY <1>3 DEF SessionCost
<1>5. SessionCost(f) \in Costs
  BY <1>2, <1>4 DEF Costs
<1> QED BY <1>5, NoneAssumption

\* and of no session file in the seat layout.
LEMMA SeatedNoCost ==
    ASSUME seated, NEW f \in Files, f \notin TaskFiles
    PROVE  SessionCost(f) = None
<1>1. f[1] # "task"
  BY FileNames
<1> QED BY <1>1 DEF SessionCost

\* It is what the proxy billed, unless rows were lost.
LEMMA SessionCostSpent ==
    ASSUME Types, Whole, NEW f \in Files, SessionCost(f) # None, ~Dropping(f)
    PROVE  Spent(SessionCost(f).key, SessionCost(f).tok)
<1>1. /\ SessionCost(f).key = f /\ Exists(f)
      /\ SessionCost(f).tok = Usage(ReadOf(files[f]))
  BY SessionCostOf
<1>2. f \notin torn => Outputs(ReadOf(files[f])) + lost[f] = audit[f]
  BY <1>1 DEF Whole, WholeAt, Holds
<1>3. /\ Outputs(ReadOf(files[f])) \in Nat /\ lost[f] \in Nat /\ audit[f] \in Nat
      /\ None \notin Nat
  <2>1. files[f] \in FileStates
    BY TypesFlat
  <2> QED BY <2>1, TypesFlat, OutputsOf, NoneAssumption
<1>4. SessionCost(f).tok = IF Outputs(ReadOf(files[f])) = 0 THEN None ELSE Outputs(ReadOf(files[f]))
  BY <1>1, UsageOf
<1> DEFINE n == Outputs(ReadOf(files[f]))
           tok == SessionCost(f).tok
<1>5. tok # 0
  BY <1>3, <1>4
<1>6. (IF tok = None THEN 0 ELSE tok) = n
  BY <1>3, <1>4
<1> HIDE DEF n, tok
<1>7. f \notin torn => audit[f] = lost[f] + (IF tok = None THEN 0 ELSE tok)
  BY <1>2, <1>3, <1>6 DEF n
<1> QED BY <1>1, <1>5, <1>7 DEF Spent, tok

\* While no session runs, nothing is between redaction and clean-up.
LEMMA NobodyDrops ==
    ASSUME \A r \in Roles : run[r] # NoRun => run[r].st # "drop",
           \A r \in Roles : run'[r] # NoRun => run'[r].st # "drop"
    PROVE  \A f \in Files : ~Dropping(f) /\ ~Dropping(f)'
  BY DEF Dropping, In

\* The construction of the roles at the start of the loop preserves it.
LEMMA BootInv ==
    ASSUME IInv, Boot
    PROVE  IInv'
<1> USE DEF IInv
<1>1. /\ pc = "down" /\ att' = att + 1 /\ pc' = "boot" /\ gen' = saved - 1
      /\ Constructed(att + 1) \/ UNCHANGED files
      /\ UNCHANGED <<seated, audit, ledger, cards, report, told, index, run, chat, saved,
                     crashes, faults, unsettled, left, stuck, torn, lost>>
  BY DEF Boot, ghosts
<1>2. /\ att \in Nat /\ att + 1 \in Attempts /\ att' \in 0 .. MaxCrashes + 1
      /\ gen' \in 0 .. MaxGen /\ MaxCrashes \in Nat
  <2>1. /\ att < MaxCrashes + 1 /\ att \in 0 .. MaxCrashes + 1 /\ saved \in 1 .. MaxGen + 1
        /\ MaxCrashes \in Nat /\ MaxGen \in Nat
    BY TypesFlat, BoundsAssumption DEF Boot
  <2> QED BY <1>1, <2>1 DEF Attempts
<1>3. \A r \in Roles : run[r] = NoRun
  BY <1>1 DEF Seats
<1>4. told = {} /\ \A r \in Roles : index[r] = {}
  BY <1>1 DEF Told, Indexed
<1>5. \A f \in Files : ~Dropping(f) /\ ~Dropping(f)'
  BY <1>1, <1>3, NobodyDrops
<1>6. \A r \in Roles : /\ files[SelfFile(r, att + 1)].parts = <<>>
                       /\ files[SelfFile(r, att + 1)].main \in {None, <<>>}
  BY <1>2 DEF Fresh
<1>7. Clean' /\ Archived' /\ Whole'
  BY <1>1, <1>2, <1>5, <1>6, ConstructedKept
<1>8. /\ files' \in [Files -> FileStates]
      /\ \A f \in Files : (\A r \in Roles : f # SelfFile(r, att + 1)) => files'[f] = files[f]
      /\ \A r \in Roles : /\ files'[SelfFile(r, att + 1)].parts = <<>>
                          /\ files'[SelfFile(r, att + 1)].main \in {None, <<>>}
      /\ \A f \in Files : files'[f].quar = files[f].quar
  BY <1>1, <1>2, <1>6, ConstructedFiles
<1>9. Types'
  <2>1. \A f \in Files : files'[f].wrote \in Nat
    BY <1>8 DEF FileStates
  <2> QED BY <1>1, <1>2, <1>8, <2>1 DEF Types, TypeOK
<1>10. Seats' /\ Running'
  BY <1>1, <1>3 DEF Seats, Running
<1>11. Fresh'
  <2> SUFFICES ASSUME NEW r \in Roles, NEW a \in Attempts, a >= att + 1
               PROVE  /\ files'[SelfFile(r, a)].parts = <<>>
                      /\ files'[SelfFile(r, a)].main \in {None, <<>>}
                      /\ a > att + 1 => files'[SelfFile(r, a)].main = None
    <3>1. \A a \in Attempts : a \in Nat
      BY <1>2 DEF Attempts
    <3> QED BY <1>1, <1>2, <3>1 DEF Fresh, Exists
  <2>1. CASE a = att + 1
    BY <1>2, <1>8, <2>1
  <2>2. CASE a # att + 1
    <3>1. a > att /\ a > att + 1
      BY <1>2, <2>2 DEF Attempts
    <3>2. SelfFile(r, a) \in Files /\ \A q \in Roles : SelfFile(r, a) # SelfFile(q, att + 1)
      BY <1>2, <2>2, FileNames
    <3>3. files'[SelfFile(r, a)] = files[SelfFile(r, a)]
      BY <1>8, <3>2
    <3> QED BY <3>1, <3>3 DEF Fresh, Exists
  <2> QED BY <2>1, <2>2
<1>12. Unrecorded'
  <2>1. \A i \in DOMAIN ledger : ledger[i].key[1] = "self_improve" => ledger[i].key[3] \in Nat
    <3> SUFFICES ASSUME NEW i \in DOMAIN ledger, ledger[i].key[1] = "self_improve"
                 PROVE  ledger[i].key[3] \in Nat
      OBVIOUS
    <3>1. ledger[i].key \in Files
      <4>1. ledger \in Seq(Costs)
        BY TypesFlat
      <4>2. ledger[i] \in Costs
        BY <4>1
      <4> QED BY <4>2 DEF Costs
    <3>2. ledger[i].key[3] \in Attempts
      BY <3>1, FileNames
    <3> QED BY <1>2, <3>2 DEF Attempts
  <2> QED BY <1>1, <1>2, <2>1 DEF Unrecorded
<1>13. Working' /\ Evidence' /\ Told' /\ Indexed'
  BY <1>1, <1>4 DEF Working, Evidence, Told, Indexed
<1>14. StatementsLookBack'
  BY <1>1, <1>4 DEF StatementsLookBack
<1>15. LedgerSound' /\ Reported' /\ Recording'
  <2>1. report = None
    BY <1>1 DEF Reported
  <2>2. \A f \in Files : OnFile(f) => OnFile(f)'
    BY <1>1, <1>8 DEF OnFile, OnRecord, Quarantined
  <2>3. Recording'
    BY <1>1 DEF Recording
  <2> QED BY <1>1, <2>1, <2>2, <2>3, LedgerKept
<1> QED BY <1>7, <1>9, <1>10, <1>11, <1>12, <1>13, <1>14, <1>15

\* So does opening the first round,
LEMMA FirstRoundInv ==
    ASSUME IInv, FirstRound
    PROVE  IInv'
<1>1. pc = "boot" /\ NextRound /\ torn' = torn
      /\ UNCHANGED <<seated, audit, ledger, cards, report, att, crashes, chat, faults,
                     left, stuck, lost>>
  BY DEF FirstRound
<1>2. Types /\ \A r \in Roles : run[r] = NoRun
  BY <1>1 DEF IInv, Seats
<1>3. faults' \in 0 .. MaxFaults /\ torn' \subseteq Files
  BY <1>1, <1>2, TypesFlat
<1> QED BY <1>1, <1>2, <1>3, RoundInv

\* archiving a round as invalid, with the rows that went missing,
LEMMA InvalidInv ==
    ASSUME IInv, NEW gone, gone \subseteq Files, Invalid(gone),
           pc \in {"plan", "task", "eval", "settled"},
           faults' = faults \/ Fault,
           \A r \in Roles : run[r] # NoRun => run[r].st = "dead"
    PROVE  IInv'
<1>1. /\ NextRound /\ torn' = torn \cup gone
      /\ UNCHANGED <<seated, audit, ledger, cards, report, att, crashes, chat,
                     left, stuck, lost>>
  BY DEF Invalid
<1>2. faults \in 0 .. MaxFaults /\ torn \subseteq Files /\ MaxFaults \in Nat
  BY TypesFlat, BoundsAssumption DEF IInv
<1>3. torn' \subseteq Files /\ torn \subseteq torn'
  BY <1>1, <1>2
<1>4. CASE faults' = faults
  BY <1>1, <1>2, <1>3, <1>4, RoundInv
<1>5. CASE Fault
  <2>1. faults' \in 0 .. MaxFaults
    BY <1>2, <1>5 DEF Fault
  <2> QED BY <1>1, <1>3, <2>1, RoundInv
<1> QED BY <1>4, <1>5

\* the failure of a round in any of its stages,
LEMMA FailedInv ==
    ASSUME IInv, PlanFailed \/ TaskFailed \/ CollectFails \/ EvalFailed \/ Settle
    PROVE  IInv'
<1>1. CASE PlanFailed
  <2>1. \A r \in Roles : run[r] # NoRun => run[r].st = "dead"
    BY <1>1 DEF PlanFailed, In, IInv, Seats
  <2> QED BY <1>1, <2>1, InvalidInv DEF PlanFailed
<1>2. CASE TaskFailed \/ CollectFails
  <2>1. pc = "task" /\ Invalid({TaskFile(gen)}) /\ (faults' = faults \/ Fault)
    BY <1>2 DEF TaskFailed, CollectFails
  <2>2. \A r \in Roles : run[r] # NoRun => run[r].st = "dead"
    BY <2>1 DEF IInv, Seats
  <2>3. {TaskFile(gen)} \subseteq Files
    BY <2>1, FileNames DEF IInv, Types
  <2> QED BY <2>1, <2>2, <2>3, InvalidInv
<1>3. CASE EvalFailed
  <2>1. \A r \in Roles : run[r] # NoRun => run[r].st = "dead"
    BY <1>3 DEF EvalFailed, In, IInv, Seats
  <2> QED BY <1>3, <2>1, InvalidInv DEF EvalFailed
<1>4. CASE Settle
  <2>1. \A r \in Roles : run[r] # NoRun => run[r].st = "dead"
    BY <1>4 DEF Settle, IInv, Seats
  <2> QED BY <1>4, <2>1, InvalidInv DEF Settle
<1> QED BY <1>1, <1>2, <1>3, <1>4

\* The cost of a generation's session goes into the ledger under its own key.
LEMMA GenRecorded ==
    ASSUME IInv, NEW r \in Roles, gen \in Gens, pc \notin {"self", "done", "down"},
           ledger' = Recorded(SessionCost(GenFile(r, gen)))
    PROVE  /\ ledger' \in Seq(Costs) /\ OneRecordPerSession'
           /\ \A i \in DOMAIN ledger' : ledger'[i].key[1] = "self_improve" =>
                 ledger'[i].key[3] <= att /\ ledger'[i].key[3] # att
           /\ seated => ledger' = ledger
           /\ \A f : OnRecord(f) => OnRecord(f)'
           /\ \A f : ~seated /\ Exists(f) /\ f = GenFile(r, gen) => OnRecord(f)'
<1> USE DEF IInv
<1> DEFINE rec == SessionCost(GenFile(r, gen))
<1>1. /\ GenFile(r, gen) \in Files /\ GenFile(r, gen)[1] # "self_improve"
  BY FileNames
<1>2. rec # None => rec \in Costs /\ rec.key = GenFile(r, gen)
  BY <1>1, SessionCostOf
<1>3. ledger \in Seq(Costs) /\ OneRecordPerSession
  BY TypesFlat DEF LedgerSound
<1> HIDE DEF rec
<1>4. ledger' = Recorded(rec)
  BY DEF rec
<1>5. /\ ledger' \in Seq(Costs) /\ OneRecordPerSession'
      /\ \A i \in DOMAIN ledger' :
            \/ i \in DOMAIN ledger /\ ledger'[i] = ledger[i]
            \/ rec # None /\ ledger'[i] = rec
      /\ \A f : OnRecord(f) => OnRecord(f)'
      /\ \A f : rec # None /\ rec.key = f => OnRecord(f)'
      /\ rec = None => ledger' = ledger
  BY <1>2, <1>3, <1>4, RecordedOnce
<1>6. seated => rec = None
  BY <1>1, FileNames, SeatedNoCost DEF rec
<1>7. ~seated /\ Exists(GenFile(r, gen)) => rec # None
  BY <1>1, SessionCostThere DEF rec
<1> QED BY <1>1, <1>2, <1>5, <1>6, <1>7 DEF Unrecorded

\* settling the plan session into the ledger,
LEMMA PlanSettledInv ==
    ASSUME IInv, PlanSettled
    PROVE  IInv'
<1> USE DEF IInv
<1>1. /\ pc = "plan" /\ pc' = "task" /\ chat' = 0 /\ told' = {}
      /\ run["planner"] # NoRun /\ run["planner"].st = "closed"
      /\ ledger' = Recorded(SessionCost(PlanFile(gen)))
      /\ run' = [run EXCEPT !["planner"] = NoRun]
      /\ torn' = IF audit[TaskFile(gen)] > 0 THEN torn \cup {TaskFile(gen)} ELSE torn
      /\ UNCHANGED <<seated, files, audit, cards, report, index, gen, att, saved, crashes,
                     faults, unsettled, left, stuck, lost>>
  BY DEF PlanSettled, In, sessionFiles
<1>2. /\ gen \in Gens /\ TaskFile(gen) \in TaskFiles /\ TaskFile(gen) \in Files
      /\ "planner" \in Roles /\ PlanFile(gen) = GenFile("planner", gen)
  BY <1>1, FileNames DEF Types, Roles, GenFile
<1>3. \A r \in Roles : run[r] # NoRun => r = "planner"
  BY <1>1 DEF Seats
<1>4. \A r \in Roles : run'[r] = NoRun
  <2>1. run \in [Roles -> Sessions \cup {NoRun}]
    BY TypesFlat
  <2> QED BY <1>1, <1>3, <2>1
<1>5. \A f \in Files : ~Dropping(f) /\ ~Dropping(f)'
  BY <1>1, <1>3, <1>4, NobodyDrops
<1>6. torn \subseteq torn' /\ torn' \subseteq Files
  BY <1>1, <1>2, TypesFlat
<1>7. Clean' /\ Archived' /\ Whole'
  BY <1>1, <1>5, <1>6, FilesKept
<1>8. /\ ledger' \in Seq(Costs) /\ OneRecordPerSession'
      /\ \A i \in DOMAIN ledger' : ledger'[i].key[1] = "self_improve" =>
            ledger'[i].key[3] <= att /\ ledger'[i].key[3] # att
      /\ seated => ledger' = ledger
      /\ \A f : OnRecord(f) => OnRecord(f)'
      /\ \A f : ~seated /\ Exists(f) /\ f = PlanFile(gen) => OnRecord(f)'
  BY <1>1, <1>2, GenRecorded
<1>9. Types'
  <2>1. run' \in [Roles -> Sessions \cup {NoRun}]
    BY <1>1, TypesFlat
  <2> QED BY <1>1, <1>2, <1>6, <1>8, <2>1 DEF Types, TypeOK
<1>10. Seats' /\ Running'
  BY <1>4 DEF Seats, Running
<1>11. Fresh' /\ Unrecorded'
  BY <1>1, <1>8 DEF Fresh, Unrecorded, Exists
<1>12. Working'
  <2> SUFFICES ASSUME TaskFile(gen) \notin torn'
               PROVE  /\ ~Exists(TaskFile(gen))'
                      /\ audit'[TaskFile(gen)] = chat' + lost'[TaskFile(gen)]
    BY <1>1 DEF Working, Exists
  <2>1. /\ audit[TaskFile(gen)] \in Nat /\ ~(audit[TaskFile(gen)] > 0)
        /\ lost[TaskFile(gen)] \in Nat /\ lost[TaskFile(gen)] <= audit[TaskFile(gen)]
    BY <1>1, <1>2, TypesFlat
  <2>2. TaskFile(gen) \notin torn
    BY <1>6
  <2> QED BY <1>1, <1>2, <2>1, <2>2 DEF Archived, Exists
<1>13. Evidence' /\ Told' /\ Indexed' /\ StatementsLookBack'
  BY <1>1 DEF Evidence, Told, Indexed, StatementsLookBack
<1>14. LedgerSound' /\ Reported'
  <2>1. report = None
    BY <1>1 DEF Reported
  <2>2. \A f \in Files : OnFile(f) => OnFile(f)'
    BY <1>1, <1>8 DEF OnFile, Quarantined
  <2>3. seated => ledger' = <<>>
    BY <1>8 DEF LedgerSound, SettledOnRecord
  <2> QED BY <1>1, <1>8, <2>1, <2>2, <2>3, LedgerKept
<1>15. Recording'
  <2>1. run["planner"].file = PlanFile(gen)
    BY <1>1, <1>2 DEF Seats, SeatFile
  <2>2. Exists(PlanFile(gen)) \/ Quarantined(PlanFile(gen))
    BY <1>1, <1>2, <2>1 DEF Running, RunningOn
  <2>3. ~seated => OnFile(PlanFile(gen))'
    BY <1>1, <1>8, <2>2 DEF OnFile, Quarantined
  <2> QED BY <1>1, <2>3 DEF Recording, OnFile
<1> QED BY <1>7, <1>9, <1>10, <1>11, <1>12, <1>13, <1>14, <1>15

\* a call of the task child through the proxy,
LEMMA TaskCallInv ==
    ASSUME IInv, TaskCall
    PROVE  IInv'
<1> USE DEF IInv
<1> DEFINE t == TaskFile(gen)
<1>1. /\ pc = "task" /\ audit' = [audit EXCEPT ![t] = @ + 1]
      /\ \/ chat' = chat + 1 /\ UNCHANGED <<lost, faults>>
         \/ Fault /\ lost' = [lost EXCEPT ![t] = @ + 1] /\ UNCHANGED chat
      /\ UNCHANGED <<seated, files, ledger, cards, report, told, index, run, pc, gen, att,
                     saved, crashes, unsettled, left, stuck, torn>>
  BY DEF TaskCall
<1>2. /\ gen \in Gens /\ t \in TaskFiles /\ t \in Files /\ audit \in [Files -> Nat]
      /\ chat \in Nat /\ lost \in [Files -> Nat] /\ \A f \in Files : lost[f] <= audit[f]
      /\ faults \in 0 .. MaxFaults /\ MaxFaults \in Nat
  BY <1>1, FileNames, TypesFlat, BoundsAssumption DEF Types
<1> HIDE DEF t
<1>3. /\ audit' \in [Files -> Nat] /\ audit'[t] = audit[t] + 1 /\ chat' \in Nat
      /\ \A f \in Files : f # t => audit'[f] = audit[f]
      /\ lost' \in [Files -> Nat] /\ chat' + lost'[t] = chat + lost[t] + 1
      /\ \A f \in Files : f # t => lost'[f] = lost[f]
      /\ lost'[t] <= lost[t] + 1 /\ faults' \in 0 .. MaxFaults
  <2>1. /\ audit' \in [Files -> Nat] /\ audit'[t] = audit[t] + 1
        /\ \A f \in Files : f # t => audit'[f] = audit[f]
    BY <1>1, <1>2
  <2>2. CASE chat' = chat + 1 /\ UNCHANGED <<lost, faults>>
    <3>1. lost[t] \in Nat
      BY <1>2
    <3> QED BY <1>2, <2>1, <2>2, <3>1
  <2>3. CASE Fault /\ lost' = [lost EXCEPT ![t] = @ + 1] /\ UNCHANGED chat
    <3>1. /\ lost' \in [Files -> Nat] /\ lost'[t] = lost[t] + 1 /\ lost[t] \in Nat
          /\ \A f \in Files : f # t => lost'[f] = lost[f]
      BY <1>2, <2>3
    <3>2. faults' \in 0 .. MaxFaults
      BY <1>2, <2>3 DEF Fault
    <3> QED BY <1>2, <2>1, <2>3, <3>1, <3>2
  <2> QED BY <1>1, <2>2, <2>3
<1>4. \A r \in Roles : run[r] = NoRun
  BY <1>1 DEF Seats
<1>5. \A f \in Files : (Exists(f)' <=> Exists(f)) /\ (Holds(f)' = Holds(f))
  BY <1>1 DEF Exists, Holds, Dropping, In
<1>6. Types'
  <2>1. \A f \in Files : lost'[f] <= audit'[f]
    <3> SUFFICES ASSUME NEW f \in Files PROVE lost'[f] <= audit'[f]
      OBVIOUS
    <3>1. /\ audit[f] \in Nat /\ lost[f] \in Nat /\ lost[f] <= audit[f]
          /\ audit'[f] \in Nat /\ lost'[f] \in Nat
      BY <1>2, <1>3
    <3> QED BY <1>3, <3>1
  <2>2. \A f \in Files : lost'[f] \in Nat /\ audit'[f] \in Nat
    BY <1>3
  <2> QED BY <1>1, <1>3, <2>1, <2>2 DEF Types, TypeOK
<1>7. Seats' /\ Running'
  BY <1>1, <1>4 DEF Seats, Running
<1>8. Clean'
  BY <1>1, <1>5 DEF Clean, CleanAt, Covered, RawIn, Merged
<1>9. Archived'
  <2>1. \A f \in TaskFiles : f \in Files
    BY FileNames
  <2>2. audit'[t] > 0
    BY <1>2, <1>3
  <2> QED BY <1>1, <1>3, <1>5, <2>1, <2>2 DEF Archived
<1>10. t \notin torn => ~Exists(t) /\ audit[t] = chat + lost[t]
  BY <1>1 DEF Working, t
<1>11. Whole'
  <2> SUFFICES ASSUME NEW f \in Files PROVE WholeAt(f)'
    BY DEF Whole
  <2>1. WholeAt(f)
    BY DEF Whole
  <2>2. CASE f # t
    BY <1>1, <1>3, <1>5, <2>1, <2>2 DEF WholeAt
  <2>3. CASE f = t
    BY <1>1, <1>2, <1>5, <1>10, <2>1, <2>3 DEF WholeAt
  <2> QED BY <2>2, <2>3
<1>12. Working'
  <2>1. TaskFile(gen)' = t
    BY <1>1 DEF t
  <2>2. lost[t] \in Nat /\ lost'[t] \in Nat /\ audit[t] \in Nat
    BY <1>2, <1>3
  <2>3. t \notin torn => audit'[t] = chat' + lost'[t]
    BY <1>2, <1>3, <1>10, <2>2
  <2>4. t \notin torn => files'[t].main = None
    BY <1>1, <1>10 DEF Exists
  <2> QED BY <1>1, <2>1, <2>3, <2>4 DEF Working, Exists
<1>13. Fresh' /\ Unrecorded' /\ Evidence' /\ Told' /\ Indexed'
  BY <1>1 DEF Fresh, Unrecorded, Evidence, Told, Indexed, Exists
<1>14. StatementsLookBack'
  BY <1>1 DEF Told, StatementsLookBack
<1>15. LedgerSound' /\ Reported' /\ Recording'
  <2>1. report = None
    BY <1>1 DEF Reported
  <2>2. \A f : OnFile(f) => OnFile(f)'
    BY <1>1 DEF OnFile, OnRecord, Quarantined
  <2>3. Recording'
    BY <1>1, <2>2 DEF Recording
  <2> QED BY <1>1, <2>1, <2>2, <2>3, LedgerKept
<1> QED BY <1>6, <1>7, <1>8, <1>9, <1>11, <1>12, <1>13, <1>14, <1>15

\* collecting the child's trajectories,
LEMMA CollectInv ==
    ASSUME IInv, Collect
    PROVE  IInv'
<1> USE DEF IInv
<1> DEFINE t == TaskFile(gen)
           e == EvalFile(gen)
           rows == [i \in 1 .. chat |-> [n |-> i, kind |-> "output", raw |-> FALSE]]
           new == [files[t] EXCEPT !.main = rows, !.wrote = chat]
<1>1. /\ pc = "task" /\ chat > 0 /\ pc' = "eval" /\ files' = [files EXCEPT ![t] = new]
      /\ told' = {EvalStatement(gen)}
      /\ run' = [run EXCEPT !["evaluator"] = Begun(e)]
      /\ unsettled' = unsettled \cup {e}
      /\ UNCHANGED <<seated, audit, ledger, cards, report, index, chat, gen, att, saved,
                     crashes, faults, left, stuck, torn, lost>>
  BY DEF Collect
<1>2. /\ gen \in Gens /\ t \in TaskFiles /\ t \in Files /\ t \notin SelfFiles
      /\ files \in [Files -> FileStates] /\ chat \in Nat /\ audit \in [Files -> Nat]
      /\ run \in [Roles -> Sessions \cup {NoRun}] /\ unsettled \subseteq Files
      /\ "evaluator" \in Roles /\ lost \in [Files -> Nat]
  BY <1>1, FileNames, TypesFlat DEF Types, Roles
<1>3. e \in Files /\ e \notin TaskFiles /\ e = GenFile("evaluator", gen)
  <2>1. e = GenFile("evaluator", gen)
    BY DEF GenFile
  <2> HIDE DEF e
  <2> QED BY <1>2, <2>1, FileNames
<1>4. /\ rows \in Seq(Rows) /\ ~RawIn(rows) /\ Numbered(rows, chat) /\ Len(rows) = chat
      /\ Outputs(rows) = chat
  <2>1. \A s : s = rows =>
          /\ s \in Seq(Rows) /\ ~RawIn(s) /\ Numbered(s, chat) /\ Len(s) = chat
          /\ Outputs(s) = chat
    BY <1>2, ArchiveRows
  <2> HIDE DEF rows
  <2> QED BY <2>1
<1> HIDE DEF rows
<1>5. rows # None
  BY <1>4, NoneAssumption
<1>6. files[t].parts = <<>>
  BY <1>2 DEF Archived
<1>7. /\ new \in FileStates /\ new.main = rows /\ new.parts = <<>> /\ new.wrote = chat
      /\ new.quar = files[t].quar
  BY <1>2, <1>4, <1>6 DEF FileStates
<1> HIDE DEF t, e, new
<1>8. /\ files' \in [Files -> FileStates] /\ files'[t] = new
      /\ \A f \in Files : f # t => files'[f] = files[f]
  BY <1>1, <1>2, <1>7
<1>9. /\ Begun(e) \in Sessions /\ Begun(e).file = e /\ Begun(e).st = "open"
      /\ Begun(e).calls = 0
  BY <1>3, BegunSession
<1>10. \A r \in Roles : run[r] = NoRun
  BY <1>1 DEF Seats
<1>11. \A r \in Roles : run'[r] # NoRun =>
         r = "evaluator" /\ run'[r].file = e /\ run'[r].st = "open" /\ run'[r].calls = 0
  BY <1>1, <1>2, <1>9, <1>10
<1>12. \A f \in Files : ~Dropping(f) /\ ~Dropping(f)'
  BY <1>10, <1>11, NobodyDrops
<1>13. ReadOf(files'[t]) = rows /\ files'[t].main # None
  <2>1. <<>> \o rows = rows
    BY <1>4, ConcatEmptySeq
  <2> QED BY <1>5, <1>7, <1>8, <2>1 DEF ReadOf
<1>14. Types'
  <2>1. \A f \in Files : files'[f].wrote \in Nat
    BY <1>8 DEF FileStates
  <2>2. run' \in [Roles -> Sessions \cup {NoRun}]
    BY <1>1, <1>2, <1>9
  <2>3. \A st \in told' : st.seat = "evaluate"
    BY <1>1 DEF EvalStatement
  <2>4. unsettled' \subseteq Files
    BY <1>1, <1>2, <1>3
  <2> QED BY <1>1, <1>2, <1>8, <2>1, <2>2, <2>3, <2>4 DEF Types, TypeOK
<1>15. Seats'
  BY <1>1, <1>3, <1>11 DEF Seats, SeatFile
<1>16. Running'
  BY <1>1, <1>11 DEF Running, RunningOn
<1>17. Clean'
  <2> SUFFICES ASSUME NEW f \in Files PROVE CleanAt(f)'
    BY DEF Clean
  <2>1. CASE f # t
    <3>1. CleanAt(f)
      BY DEF Clean
    <3> QED BY <1>1, <1>8, <2>1, <3>1 DEF CleanAt, Exists
  <2>2. CASE f = t
    <3>1. ~RawIn(rows) /\ Merged(<<>>, rows)
      BY <1>4, NoParts
    <3>2. Covered(files'[f]) /\ ~RawIn(ReadOf(files'[f]))
      BY <1>7, <1>8, <1>13, <2>2, <3>1 DEF Covered
    <3> QED BY <3>2 DEF CleanAt
  <2> QED BY <2>1, <2>2
<1>18. t \notin torn => audit[t] = chat + lost[t] /\ audit[t] > 0
  <2>1. t \notin torn => audit[t] = chat + lost[t]
    BY <1>1 DEF Working, t
  <2>2. lost[t] \in Nat
    BY <1>2
  <2> QED BY <1>1, <1>2, <2>1, <2>2
<1>19. Archived'
  <2> SUFFICES ASSUME NEW f \in TaskFiles
               PROVE  files'[f].parts = <<>> /\ (Exists(f)' /\ f \notin torn' => audit'[f] > 0)
    BY DEF Archived
  <2>1. CASE f # t
    <3>1. f \in Files
      BY FileNames
    <3> QED BY <1>1, <1>8, <2>1, <3>1 DEF Archived, Exists
  <2>2. CASE f = t
    BY <1>1, <1>7, <1>8, <1>18, <2>2
  <2> QED BY <2>1, <2>2
<1>20. Whole'
  <2> SUFFICES ASSUME NEW f \in Files PROVE WholeAt(f)'
    BY DEF Whole
  <2>1. CASE f # t
    <3>1. WholeAt(f) /\ Holds(f)' = Holds(f)
      BY <1>8, <1>12, <2>1 DEF Whole, Holds
    <3> QED BY <1>1, <1>8, <2>1, <3>1 DEF WholeAt, Exists
  <2>2. CASE f = t
    <3>1. Holds(f)' = rows /\ files'[f].wrote = chat
      BY <1>7, <1>8, <1>12, <1>13, <2>2 DEF Holds
    <3> SUFFICES ASSUME f \notin torn'
                 PROVE  /\ Numbered(Holds(f)', files'[f].wrote) /\ Exists(f)'
                        /\ Outputs(Holds(f)') + lost'[f] = audit'[f]
      BY DEF WholeAt, Outputs, Numbered
    <3> QED BY <1>1, <1>4, <1>13, <1>18, <2>2, <3>1 DEF Exists
  <2> QED BY <2>1, <2>2
<1>21. Fresh'
  <2>1. \A r \in Roles, a \in Attempts :
          SelfFile(r, a) \in Files /\ SelfFile(r, a) # t
    BY <1>2, FileNames
  <2> QED BY <1>1, <1>8, <2>1 DEF Fresh, Exists
<1>22. Unrecorded' /\ Working' /\ Told'
  BY <1>1 DEF Unrecorded, Working, Told
<1>23. Evidence'
  <2>1. TaskFile(gen)' = t
    BY <1>1 DEF t
  <2> QED BY <1>1, <1>4, <1>7, <1>8, <1>13, <2>1 DEF Evidence, Exists
<1>24. Indexed'
  BY <1>1 DEF Indexed
<1>25. StatementsLookBack'
  <2> DEFINE st == EvalStatement(gen)
  <2>1. \A g : TaskCost(g)' = TaskCost(g)
    BY <1>1 DEF TaskCost
  <2>2. /\ st.seat = "evaluate" /\ st.gen = gen /\ st.task = TaskCost(gen)
        /\ st.own = LatestCost("evaluate", "evaluator", gen)
    BY DEF EvalStatement
  <2>3. st.own # None => st.own.key[3] # gen
    <3>1. ledger \in Seq(Costs)
      BY TypesFlat
    <3> QED BY <2>2, <3>1, LatestRecord
  <2> HIDE DEF st
  <2>4. \A s \in told' : s = st
    BY <1>1 DEF st
  <2> QED BY <2>1, <2>2, <2>3, <2>4 DEF StatementsLookBack, StatementLooksBack
<1>26. LedgerSound' /\ Reported' /\ Recording'
  <2>1. report = None
    BY <1>1 DEF Reported
  <2>2. \A f \in Files : files'[f].quar = files[f].quar
    BY <1>7, <1>8
  <2>3. \A f \in Files : OnFile(f) => OnFile(f)'
    BY <1>1, <2>2 DEF OnFile, OnRecord, Quarantined
  <2>4. PlanFile(gen) \in Files
    BY <1>2, PlanFileOf
  <2>5. ~seated => OnFile(PlanFile(gen))
    BY <1>1 DEF Recording
  <2>6. Recording'
    BY <1>1, <2>3, <2>4, <2>5 DEF Recording
  <2> QED BY <1>1, <2>1, <2>3, <2>6, LedgerKept
<1> QED BY <1>14, <1>15, <1>16, <1>17, <1>19, <1>20, <1>21, <1>22, <1>23, <1>24, <1>25, <1>26

\* settling the evaluation,
LEMMA EvalSettledInv ==
    ASSUME IInv, EvalSettled
    PROVE  IInv'
<1> USE DEF IInv
<1>1. /\ pc = "eval" /\ pc' = "settled" /\ told' = {}
      /\ run["evaluator"] # NoRun /\ run["evaluator"].st = "closed"
      /\ ledger' = Recorded(SessionCost(EvalFile(gen)))
      /\ cards' = [cards EXCEPT ![gen] = Card(gen)]
      /\ run' = [run EXCEPT !["evaluator"] = NoRun]
      /\ UNCHANGED <<seated, files, audit, report, index, chat, gen, att, saved, crashes,
                     faults, unsettled, left, stuck, torn, lost>>
  BY DEF EvalSettled, In, sessionFiles, ghosts
<1>2. gen \in Gens /\ "evaluator" \in Roles /\ EvalFile(gen) = GenFile("evaluator", gen)
  BY <1>1 DEF Types, Roles, GenFile
<1>3. \A r \in Roles : run[r] # NoRun => r = "evaluator"
  BY <1>1 DEF Seats
<1>4. \A r \in Roles : run'[r] = NoRun
  <2>1. run \in [Roles -> Sessions \cup {NoRun}]
    BY TypesFlat
  <2> QED BY <1>1, <1>3, <2>1
<1>5. \A f \in Files : ~Dropping(f) /\ ~Dropping(f)'
  BY <1>1, <1>3, <1>4, NobodyDrops
<1>6. Clean' /\ Archived' /\ Whole'
  BY <1>1, <1>5, FilesKept
<1>7. /\ ledger' \in Seq(Costs) /\ OneRecordPerSession'
      /\ \A i \in DOMAIN ledger' : ledger'[i].key[1] = "self_improve" =>
            ledger'[i].key[3] <= att /\ ledger'[i].key[3] # att
      /\ seated => ledger' = ledger
      /\ \A f : OnRecord(f) => OnRecord(f)'
      /\ \A f : ~seated /\ Exists(f) /\ f = EvalFile(gen) => OnRecord(f)'
  BY <1>1, <1>2, GenRecorded
<1>8. Types'
  <2>1. run' \in [Roles -> Sessions \cup {NoRun}]
    BY <1>1, TypesFlat
  <2>2. cards' = [g \in Gens |-> cards'[g]]
    <3>1. cards = [g \in Gens |-> cards[g]]
      BY DEF Types
    <3> QED BY <1>1, <3>1
  <2> QED BY <1>1, <1>2, <1>7, <2>1, <2>2 DEF Types, TypeOK
<1>9. Seats' /\ Running'
  BY <1>4 DEF Seats, Running
<1>10. Fresh' /\ Unrecorded'
  BY <1>1, <1>7 DEF Fresh, Unrecorded, Exists
<1>11. Working' /\ Evidence' /\ Told' /\ Indexed' /\ StatementsLookBack'
  BY <1>1 DEF Working, Evidence, Told, Indexed, StatementsLookBack
<1>12. \A f : OnFile(f) => OnFile(f)'
  BY <1>1, <1>7 DEF OnFile, Quarantined
\* Both sessions of the generation whose card is written are on file.
<1>13. SettledOnRecord'
  <2>1. CASE seated
    BY <1>1, <1>7, <2>1 DEF LedgerSound, SettledOnRecord
  <2>2. CASE ~seated
    <3>1. run["evaluator"].file = EvalFile(gen)
      BY <1>1, <1>2 DEF Seats, SeatFile
    <3>2. Exists(EvalFile(gen)) \/ Quarantined(EvalFile(gen))
      BY <1>1, <1>2, <3>1 DEF Running, RunningOn
    <3>3. \A f : f = EvalFile(gen) => OnFile(f)'
      BY <1>1, <1>7, <2>2, <3>2 DEF OnFile, Quarantined
    <3>4. \A f : f = PlanFile(gen) => OnFile(f)'
      BY <1>1, <1>12, <2>2 DEF Recording
    <3>5. ASSUME NEW g \in Gens, cards'[g] # None, NEW f \in {PlanFile(g), EvalFile(g)}
          PROVE  OnFile(f)'
      <4>1. CASE g = gen
        BY <3>3, <3>4, <3>5, <4>1
      <4>2. CASE g # gen
        <5>1. cards[g] # None
          <6>1. cards = [h \in Gens |-> cards[h]]
            BY DEF Types
          <6> QED BY <1>1, <3>5, <4>2, <6>1
        <5>2. OnFile(f)
          BY <2>2, <3>5, <5>1 DEF LedgerSound, SettledOnRecord, OnFile
        <5> QED BY <1>12, <5>2
      <4> QED BY <4>1, <4>2
    <3>6. \A g \in Gens : cards'[g] # None =>
            \A f \in {PlanFile(g), EvalFile(g)} : OnRecord(f)' \/ Quarantined(f)'
      BY <3>5 DEF OnFile
    <3> QED BY <1>1, <2>2, <3>6 DEF SettledOnRecord
  <2> QED BY <2>1, <2>2
<1>14. LedgerSound' /\ Reported' /\ Recording'
  <2>1. report = None /\ report' = None
    BY <1>1 DEF Reported
  <2> QED BY <1>1, <1>7, <1>13, <2>1 DEF LedgerSound, NoFalseAlarm, Reported, Recording
<1> QED BY <1>6, <1>8, <1>9, <1>10, <1>11, <1>14

\* A role's newest self-improve session that is still there is no later attempt's.
LEMMA SelfCostOf ==
    ASSUME Types, Fresh, NEW r \in Roles, SelfCost(r) # None
    PROVE  \E a \in Attempts : /\ SelfCost(r) = SessionCost(SelfFile(r, a)) /\ a <= att
                               /\ SelfFile(r, a)[2] = r
<1> DEFINE there == {a \in Attempts : SessionCost(SelfFile(r, a)) # None}
<1>1. there # {}
  BY DEF SelfCost
<1>2. there \subseteq Nat /\ MaxCrashes + 1 \in Nat /\ \A a \in there : a <= MaxCrashes + 1
  BY BoundsAssumption DEF Attempts
<1>3. \E a \in there : \A b \in there : b <= a
  <2> HIDE DEF there
  <2> QED BY <1>1, <1>2, GreatestNatural
<1> DEFINE last == CHOOSE a \in there : \A b \in there : b <= a
<1>4. last \in there
  <2> HIDE DEF there
  <2> QED BY <1>3
<1>5. SelfCost(r) = SessionCost(SelfFile(r, last))
  BY <1>1 DEF SelfCost
<1>6. last \in Attempts /\ SessionCost(SelfFile(r, last)) # None
  <2> HIDE DEF last
  <2> QED BY <1>4
<1> HIDE DEF last, there
<1>7. Exists(SelfFile(r, last))
  BY <1>6, FileNames, SessionCostOf
<1>8. ~(last > att)
  BY <1>6, <1>7 DEF Fresh
<1>9. last \in Nat /\ att \in Nat
  BY <1>6, TypesFlat, BoundsAssumption DEF Attempts
<1> QED BY <1>5, <1>6, <1>8, <1>9, FileNames

\* In the in-process layout it is this attempt's, when there is one.
LEMMA SelfCostNewest ==
    ASSUME Types, Fresh, ~seated, NEW r \in Roles, att \in Attempts,
           Exists(SelfFile(r, att))
    PROVE  SelfCost(r) = SessionCost(SelfFile(r, att)) /\ SelfCost(r) # None
<1> DEFINE there == {a \in Attempts : SessionCost(SelfFile(r, a)) # None}
           last == CHOOSE a \in there : \A b \in there : b <= a
<1>1. att \in there
  <2>1. SelfFile(r, att) \in Files
    BY FileNames
  <2> QED BY <2>1, SessionCostThere
<1>2. \A a \in there : a <= att
  <2> SUFFICES ASSUME NEW a \in there PROVE a <= att
    OBVIOUS
  <2>1. SelfFile(r, a) \in Files /\ a \in Attempts
    BY FileNames
  <2>2. Exists(SelfFile(r, a))
    BY <2>1, SessionCostOf
  <2>3. ~(a > att)
    BY <2>1, <2>2 DEF Fresh
  <2>4. a \in Nat /\ att \in Nat
    BY <2>1, BoundsAssumption DEF Attempts
  <2> QED BY <2>3, <2>4
<1>3. there \subseteq Nat
  BY BoundsAssumption DEF Attempts
<1>4. SelfCost(r) = SessionCost(SelfFile(r, last))
  BY <1>1 DEF SelfCost
<1>5. SessionCost(SelfFile(r, att)) # None
  BY <1>1
<1>6. last = att
  <2> HIDE DEF there
  <2>1. \A b \in there : b <= att
    BY <1>2
  <2>2. last \in there /\ \A b \in there : b <= last
    BY <1>1, <2>1
  <2>3. last <= att /\ att <= last /\ last \in Nat /\ att \in Nat
    BY <1>1, <1>3, <2>1, <2>2
  <2> HIDE DEF last
  <2> QED BY <2>3
<1> HIDE DEF last, there
<1> QED BY <1>4, <1>5, <1>6

\* settling a self-improve session,
LEMMA SelfSettledInv ==
    ASSUME IInv, NEW r \in Roles, SelfSettled(r)
    PROVE  IInv'
<1> USE DEF IInv
<1>1. /\ pc = "self" /\ run[r] # NoRun /\ run[r].st \in {"closed", "dead"}
      /\ ledger' = IF run[r].st = "closed" THEN Recorded(SelfCost(r)) ELSE ledger
      /\ run' = [run EXCEPT ![r] = NoRun]
      /\ UNCHANGED <<seated, files, audit, cards, report, told, index, chat, pc, gen, att,
                     saved, crashes, faults, unsettled, left, stuck, torn, lost>>
  BY DEF SelfSettled, In, sessionFiles, ghosts
<1>2. run \in [Roles -> Sessions \cup {NoRun}] /\ ledger \in Seq(Costs)
  BY TypesFlat
<1>3. run'[r] = NoRun /\ \A q \in Roles : q # r => run'[q] = run[q]
  BY <1>1, <1>2
<1>4. \A f \in Files : Dropping(f)' <=> Dropping(f)
  BY <1>1, <1>3 DEF Dropping, In
<1>5. Clean' /\ Archived' /\ Whole'
  BY <1>1, <1>4, FilesKept
<1>6. /\ ledger' \in Seq(Costs) /\ OneRecordPerSession' /\ Unrecorded'
      /\ seated => ledger' = ledger
      /\ \A f : OnRecord(f) => OnRecord(f)'
      /\ \A f : /\ ~seated /\ Exists(f) /\ f = SelfFile(r, att) /\ run[r].st = "closed"
              => OnRecord(f)'
  <2>1. CASE run[r].st # "closed"
    BY <1>1, <1>2, <2>1 DEF LedgerSound, OneRecordPerSession, Unrecorded, OnRecord
  <2>2. CASE run[r].st = "closed"
    <3> DEFINE rec == SelfCost(r)
    <3>1. rec # None => rec \in Costs /\ rec.key[3] <= att
      <4> SUFFICES ASSUME rec # None PROVE rec \in Costs /\ rec.key[3] <= att
        OBVIOUS
      <4>1. PICK a \in Attempts : rec = SessionCost(SelfFile(r, a)) /\ a <= att
        BY SelfCostOf
      <4>2. SelfFile(r, a) \in Files /\ SelfFile(r, a)[3] = a
        BY FileNames
      <4> HIDE DEF rec
      <4>3. rec \in Costs /\ rec.key = SelfFile(r, a)
        BY <4>1, <4>2, SessionCostOf
      <4> QED BY <4>1, <4>2, <4>3
    <3> HIDE DEF rec
    <3>2. ledger' = Recorded(rec)
      BY <1>1, <2>2 DEF rec
    <3>3. OneRecordPerSession
      BY DEF LedgerSound
    <3>4. /\ ledger' \in Seq(Costs) /\ OneRecordPerSession'
          /\ \A i \in DOMAIN ledger' :
                \/ i \in DOMAIN ledger /\ ledger'[i] = ledger[i]
                \/ rec # None /\ ledger'[i] = rec
          /\ \A f : OnRecord(f) => OnRecord(f)'
          /\ \A f : rec # None /\ rec.key = f => OnRecord(f)'
          /\ rec = None => ledger' = ledger
      BY <1>2, <3>1, <3>2, <3>3, RecordedOnce
    <3>5. Unrecorded'
      BY <1>1, <3>1, <3>4 DEF Unrecorded
    <3>6. seated => rec = None
      <4>1. \A a \in Attempts : SelfFile(r, a) \in Files /\ SelfFile(r, a) \notin TaskFiles
        BY FileNames
      <4>2. ASSUME seated, rec # None PROVE FALSE
        <5>1. PICK a \in Attempts : rec = SessionCost(SelfFile(r, a))
          BY <4>2, SelfCostOf DEF rec
        <5> QED BY <4>1, <4>2, <5>1, SeatedNoCost
      <4> QED BY <4>2
    <3>7. ASSUME ~seated, NEW f, f = SelfFile(r, att), Exists(f)
          PROVE  rec # None /\ rec.key = f
      <4>1. att \in Attempts
        BY <1>1 DEF Types
      <4>2. SelfFile(r, att) \in Files
        BY <4>1, FileNames
      <4>3. rec = SessionCost(SelfFile(r, att)) /\ rec # None
        BY <3>7, <4>1, SelfCostNewest DEF rec
      <4> QED BY <3>7, <4>2, <4>3, SessionCostOf
    <3> QED BY <3>4, <3>5, <3>6, <3>7
  <2> QED BY <1>1, <2>1, <2>2
<1>7. Types'
  <2>1. run' \in [Roles -> Sessions \cup {NoRun}]
    BY <1>1, <1>2
  <2> QED BY <1>1, <1>6, <2>1 DEF Types, TypeOK
<1>8. Seats'
  BY <1>1, <1>3 DEF Seats, SeatFile
<1>9. Running'
  BY <1>1, <1>3 DEF Running, RunningOn, Exists, Quarantined
<1>10. Fresh' /\ Working' /\ Evidence' /\ Told'
  BY <1>1 DEF Fresh, Working, Evidence, Told, Exists
<1>11. Indexed'
  <2>1. \A q \in Roles : \A seg : Bound(q, seg) => Bound(q, seg)'
    BY <1>1, BoundKept
  <2> QED BY <1>1, <2>1 DEF Indexed
<1>12. StatementsLookBack'
  BY <1>1, StatementsKept
<1>13. LedgerSound' /\ Reported' /\ Recording'
  <2>1. report = None
    BY <1>1 DEF Reported
  <2>2. \A f : OnFile(f) => OnFile(f)'
    BY <1>1, <1>6 DEF OnFile, Quarantined
  <2>3. seated => ledger' = <<>>
    BY <1>6 DEF LedgerSound, SettledOnRecord
  <2>4. \A f : ~seated /\ f = SelfFile(r, att) => f \in unsettled \/ OnFile(f)'
    <3>1. run[r].file = SelfFile(r, att)
      BY <1>1 DEF Seats, SeatFile
    <3>2. CASE run[r].st = "dead"
      BY <1>1, <3>1, <3>2 DEF Running, RunningOn
    <3>3. CASE run[r].st = "closed"
      <4>1. Exists(SelfFile(r, att)) \/ Quarantined(SelfFile(r, att))
        BY <1>1, <3>1, <3>3 DEF Running, RunningOn
      <4> QED BY <1>1, <1>6, <3>3, <4>1 DEF OnFile, Quarantined
    <3> QED BY <1>1, <3>2, <3>3
  <2>5. \A f : \A q \in Roles : ~seated /\ q # r /\ run[q] = NoRun /\ f = SelfFile(q, att) =>
          f \in unsettled \/ OnFile(f)'
    BY <1>1, <2>2 DEF Recording
  <2>6. Recording'
    <3> SUFFICES ASSUME ~seated, NEW q \in Roles, run'[q] = NoRun, NEW f, f = SelfFile(q, att)
                 PROVE  f \in unsettled \/ OnFile(f)'
      BY <1>1 DEF Recording
    <3> QED BY <1>3, <2>4, <2>5
  <2> QED BY <1>1, <1>6, <2>1, <2>2, <2>3, <2>6, LedgerKept
<1> QED BY <1>5, <1>6, <1>7, <1>8, <1>9, <1>10, <1>11, <1>12, <1>13

\* What the loop computes of a session that lost nothing is what was billed.
LEMMA FineIsBilled ==
    ASSUME Types, Whole, NEW f \in Files, f \notin torn, lost[f] = 0, ~Dropping(f),
           SessionCost(f) # None \/ (~seated /\ f \notin TaskFiles)
    PROVE  FineCost(f) = audit[f]
<1>1. Outputs(ReadOf(files[f])) = audit[f] \/ (f \in TaskFiles /\ ~Exists(f))
  <2>1. Outputs(ReadOf(files[f])) + 0 = audit[f] \/ (f \in TaskFiles /\ ~Exists(f))
    BY DEF Whole, WholeAt, Holds
  <2>2. Outputs(ReadOf(files[f])) \in Nat
    BY TypesFlat, OutputsOf
  <2> QED BY <2>1, <2>2
<1>2. CASE SessionCost(f) # None
  <2>1. Exists(f) /\ SessionCost(f).tok = Usage(ReadOf(files[f]))
    BY <1>2, SessionCostOf
  <2>2. audit[f] \in Nat /\ None \notin Nat
    BY TypesFlat, NoneAssumption
  <2> QED BY <1>1, <1>2, <2>1, <2>2, UsageOf DEF FineCost
<1>3. CASE SessionCost(f) = None
  <2>1. ~seated /\ f \notin TaskFiles
    BY <1>3
  <2>2. ~Exists(f)
    BY <1>3, <2>1, SessionCostThere
  <2>3. files[f].parts = <<>>
    BY <2>2 DEF Whole, WholeAt
  <2>4. ReadOf(files[f]) = <<>>
    BY <2>2, <2>3 DEF ReadOf, Exists
  <2>5. audit[f] = 0
    BY <1>1, <2>1, <2>4, NoRows
  <2> QED BY <1>3, <2>5 DEF FineCost
<1> QED BY <1>2, <1>3

\* A mismatch with the proxy's audit is reported only of a key of which a session
\* lost rows or an answer; of those without usage no answer was billed at all.
LEMMA ReconcileSound ==
    ASSUME Types, Whole, \A f \in Files : ~Dropping(f),
           NEW k \in Reconcile.mismatches
    PROVE  /\ \E f \in FilesOf(k) : f \in torn \/ lost[f] > 0
           /\ \A f \in FilesOf(k) \cap Reconcile.unattributed : f \in torn \/ audit[f] = lost[f]
<1>1. k \in CostKeys /\ FineFiles(k) # {} /\ AuditOf(k) # FineOf(k)
  BY DEF Reconcile
<1>2. ASSUME NEW f \in Reconcile.unattributed PROVE f \in torn \/ audit[f] = lost[f]
  <2>1. f \in Files /\ SessionCost(f) # None /\ SessionCost(f).tok = None
    BY DEF Reconcile
  <2>2. Spent(SessionCost(f).key, SessionCost(f).tok) /\ SessionCost(f).key = f
    BY <2>1, SessionCostOf, SessionCostSpent
  <2>3. lost[f] \in Nat
    BY <2>1, TypesFlat
  <2> QED BY <2>1, <2>2, <2>3 DEF Spent
<1>3. \A f \in FilesOf(k) : f \in Files
  BY <1>1, FileNames DEF CostKeys, FilesOf, Files
<1>4. SUFFICES ASSUME \A f \in FilesOf(k) : f \notin torn /\ ~(lost[f] > 0)
               PROVE  AuditOf(k) = FineOf(k)
  BY <1>1, <1>2
<1>5. PICK f0 \in FilesOf(k) : SessionCost(f0) # None
  BY <1>1 DEF FineFiles
<1>6. ASSUME NEW f \in FilesOf(k) PROVE FineCost(f) = audit[f]
  <2>1. f \notin torn /\ lost[f] = 0
    <3>1. lost[f] \in Nat
      BY <1>3, TypesFlat
    <3> QED BY <1>4, <3>1
  <2>2. CASE k \in Roles
    <3>1. \A g \in FilesOf(k) : g \in GenFiles \cup SelfFiles
      BY <2>2 DEF FilesOf
    <3>2. \A g \in FilesOf(k) : g \in Files /\ g[1] # "task" /\ g \notin TaskFiles
      <4>1. \A g \in GenFiles \cup SelfFiles : g \in Files
        BY DEF Files
      <4>2. \A g \in GenFiles \cup SelfFiles : g[1] # "task"
        BY <4>1, FileNames
      <4> QED BY <3>1, <4>1, <4>2, FileNames
    <3>3. ~seated
      BY <1>5, <3>2 DEF SessionCost
    <3> QED BY <2>1, <3>2, <3>3, FineIsBilled
  <2>3. CASE k \notin Roles
    <3>1. k \in TaskFiles /\ FilesOf(k) = {k}
      BY <1>1, <2>3 DEF CostKeys, FilesOf, TaskFiles
    <3>2. f = k /\ f0 = k /\ k \in Files
      BY <1>5, <3>1, FileNames
    <3> QED BY <1>5, <2>1, <3>2, FineIsBilled
  <2> QED BY <2>2, <2>3
<1>7. [f \in FilesOf(k) |-> audit[f]] = [f \in FilesOf(k) |-> FineCost(f)]
  BY <1>6
<1> QED BY <1>7 DEF AuditOf, FineOf

\* the reconciliation at the end of an outer,
LEMMA OuterDoneInv ==
    ASSUME IInv, OuterDone
    PROVE  IInv'
<1> USE DEF IInv
<1>1. /\ pc = "self" /\ run = [r \in Roles |-> NoRun] /\ pc' = "done" /\ report' = Reconcile
      /\ UNCHANGED <<seated, files, audit, ledger, cards, told, index, run, chat, gen, att,
                     saved, crashes, faults, unsettled, left, stuck, torn, lost>>
  BY DEF OuterDone, sessionFiles, ghosts
<1>2. \A r \in Roles : run[r] = NoRun /\ run'[r] = NoRun
  BY <1>1
<1>3. \A f \in Files : ~Dropping(f) /\ ~Dropping(f)'
  BY <1>2, NobodyDrops
<1>4. Clean' /\ Archived' /\ Whole'
  BY <1>1, <1>3, FilesKept
<1>5. Types'
  BY <1>1 DEF Types, TypeOK
<1>6. Seats' /\ Running'
  BY <1>2 DEF Seats, Running
<1>7. Fresh' /\ Unrecorded' /\ Working' /\ Evidence' /\ Told'
  BY <1>1 DEF Fresh, Unrecorded, Working, Evidence, Told, Exists
<1>8. Indexed'
  <2>1. \A q \in Roles : \A seg : Bound(q, seg) => Bound(q, seg)'
    BY <1>1, BoundKept
  <2> QED BY <1>1, <2>1 DEF Indexed
<1>9. StatementsLookBack'
  BY <1>1, StatementsKept
<1>10. Recording' /\ Reported'
  BY <1>1 DEF Recording, Reported, OnFile, OnRecord, Quarantined
<1>11. NoFalseAlarm'
  <2>1. \A k \in Reconcile.mismatches :
          /\ \E f \in FilesOf(k) : f \in torn \/ lost[f] > 0
          /\ \A f \in FilesOf(k) \cap Reconcile.unattributed : f \in torn \/ audit[f] = lost[f]
    BY <1>3, ReconcileSound
  <2> DEFINE rep == Reconcile
  <2>2. report' = rep
    BY <1>1
  <2>3. \A k \in rep.mismatches :
          /\ \E f \in FilesOf(k) : f \in torn \/ lost[f] > 0
          /\ \A f \in FilesOf(k) \cap rep.unattributed : f \in torn \/ audit[f] = lost[f]
    BY <2>1
  <2> HIDE DEF rep
  <2> QED BY <1>1, <2>2, <2>3 DEF NoFalseAlarm
<1>12. SettledOnRecord' /\ OneRecordPerSession'
  <2>1. ~seated => \A r \in Roles : SelfFile(r, att) \in unsettled \/ OnFile(SelfFile(r, att))
    BY <1>1, <1>2 DEF Recording
  <2> QED BY <1>1, <2>1 DEF LedgerSound, SettledOnRecord, OneRecordPerSession, OnRecord,
                            Quarantined, OnFile
<1> QED BY <1>4, <1>5, <1>6, <1>7, <1>8, <1>9, <1>10, <1>11, <1>12 DEF LedgerSound

\* and the death of the loop with whatever ran in it.
LEMMA CrashInv ==
    ASSUME IInv, Crash
    PROVE  IInv'
<1> USE DEF IInv
<1> DEFINE doubled == UNION {Doubled(r) : r \in Roles}
           Cut(r) == In(r, "open") /\ CutOff(r, doubled)
<1>1. /\ pc # "done" /\ crashes < MaxCrashes /\ crashes' = crashes + 1 /\ pc' = "down"
      /\ told' = {} /\ index' = [r \in Roles |-> {}] /\ chat' = 0
      /\ run' = [r \in Roles |-> NoRun]
      /\ UNCHANGED <<seated, ledger, cards, report, gen, att, saved, faults, unsettled,
                     left, stuck, lost>>
  BY DEF Crash
<1>2. \/ torn' = torn \cup doubled /\ UNCHANGED <<files, audit>>
      \/ \E r \in Roles : Cut(r)
  BY DEF Crash, sessionFiles
<1>3. /\ files \in [Files -> FileStates] /\ audit \in [Files -> Nat]
      /\ torn \subseteq Files /\ crashes \in 0 .. MaxCrashes
      /\ run \in [Roles -> Sessions \cup {NoRun}]
  BY TypesFlat
<1>4. \A r \in Roles : run[r] # NoRun =>
        /\ run[r].file \in Files \ TaskFiles
        /\ run[r].file = SeatFile(r)
        /\ run[r].file \in SelfFiles <=> pc = "self"
  BY RunFile
<1>5. \A r \in Roles : Doubled(r) \subseteq Files
  BY <1>4 DEF Doubled, In
<1>6. doubled \subseteq Files
  BY <1>5
<1>7. \A f \in Files : ~Dropping(f)'
  BY <1>1 DEF Dropping, In
\* The file of the turn that was cut off.
<1>8. ASSUME NEW r \in Roles, Cut(r)
      PROVE  \E f \in Files : /\ f \notin TaskFiles /\ f \in unsettled
                              /\ f = SeatFile(r) /\ (f \in SelfFiles <=> pc = "self")
                              /\ torn' = torn \cup {f} \cup doubled
                              /\ audit' = [audit EXCEPT ![f] = @ + 1]
                              /\ files' = [files EXCEPT ![f] = Written(files[f], "cm_view")]
  <2>1. run[r] # NoRun /\ run[r].st = "open" /\ CutOff(r, doubled)
    BY <1>8 DEF In
  <2>2. PICK f \in Files : f = run[r].file
    BY <1>4, <2>1
  <2>3. f \in unsettled
    BY <2>1, <2>2 DEF Running, RunningOn
  <2>4. /\ torn' = torn \cup {f} \cup doubled
        /\ audit' = [audit EXCEPT ![f] = @ + 1]
        /\ files' = [files EXCEPT ![f] = Written(files[f], "cm_view")]
    <3> HIDE DEF doubled
    <3> QED BY <1>3, <2>1, <2>2 DEF CutOff
  <2> QED BY <1>4, <2>1, <2>2, <2>3, <2>4
<1>9. \E cut \in SUBSET Files :
        /\ torn' = torn \cup cut \cup doubled
        /\ files' \in [Files -> FileStates] /\ audit' \in [Files -> Nat]
        /\ \A f \in Files \ cut : files'[f] = files[f] /\ audit'[f] = audit[f]
        /\ \A f \in Files : audit[f] <= audit'[f] /\ files'[f].quar = files[f].quar
        /\ \A f \in cut : /\ f \notin TaskFiles /\ f \in unsettled
                          /\ f \in SelfFiles =>
                               pc = "self" /\ \E r \in Roles : f = SelfFile(r, att)
  <2>1. CASE torn' = torn \cup doubled /\ UNCHANGED <<files, audit>>
    <3>1. /\ {} \in SUBSET Files /\ torn' = torn \cup {} \cup doubled
          /\ \A f \in Files \ {} : files'[f] = files[f] /\ audit'[f] = audit[f]
          /\ files' \in [Files -> FileStates] /\ audit' \in [Files -> Nat]
      <4> HIDE DEF doubled
      <4> QED BY <1>3, <2>1
    <3>2. \A f \in Files : audit[f] <= audit'[f] /\ files'[f].quar = files[f].quar
      <4>1. \A f \in Files : audit[f] \in Nat
        BY <1>3
      <4> HIDE DEF doubled
      <4> QED BY <2>1, <4>1
    <3> HIDE DEF doubled
    <3> QED BY <3>1, <3>2
  <2>2. CASE \E r \in Roles : Cut(r)
    <3>1. PICK r \in Roles : Cut(r)
      BY <2>2
    <3>2. PICK f \in Files :
            /\ f \notin TaskFiles /\ f \in unsettled
            /\ f = SeatFile(r) /\ (f \in SelfFiles <=> pc = "self")
            /\ torn' = torn \cup {f} \cup doubled
            /\ audit' = [audit EXCEPT ![f] = @ + 1]
            /\ files' = [files EXCEPT ![f] = Written(files[f], "cm_view")]
      BY <1>8, <3>1
    <3> HIDE DEF doubled, Cut
    <3>3. /\ Written(files[f], "cm_view") \in FileStates
          /\ Written(files[f], "cm_view").quar = files[f].quar
      BY <1>3, WrittenRow
    <3>4. /\ files' \in [Files -> FileStates] /\ audit' \in [Files -> Nat]
          /\ \A g \in Files \ {f} : files'[g] = files[g] /\ audit'[g] = audit[g]
      BY <1>3, <3>2, <3>3
    <3>5. \A g \in {f} : /\ g \notin TaskFiles /\ g \in unsettled
                         /\ g \in SelfFiles =>
                              pc = "self" /\ \E q \in Roles : g = SelfFile(q, att)
      BY <3>2 DEF SeatFile
    <3>6. {f} \in SUBSET Files /\ torn' = torn \cup {f} \cup doubled
      BY <3>2
    <3>7. \A g \in Files : audit[g] <= audit'[g] /\ files'[g].quar = files[g].quar
      <4>1. audit'[f] = audit[f] + 1 /\ files'[f].quar = files[f].quar
        BY <1>3, <3>2, <3>3
      <4>2. \A g \in Files : audit[g] \in Nat
        BY <1>3
      <4> QED BY <3>4, <4>1, <4>2
    <3> QED BY <3>4, <3>5, <3>6, <3>7
  <2> QED BY <1>2, <2>1, <2>2
<1>10. PICK cut \in SUBSET Files :
        /\ torn' = torn \cup cut \cup doubled
        /\ files' \in [Files -> FileStates] /\ audit' \in [Files -> Nat]
        /\ \A f \in Files \ cut : files'[f] = files[f] /\ audit'[f] = audit[f]
        /\ \A f \in Files : audit[f] <= audit'[f] /\ files'[f].quar = files[f].quar
        /\ \A f \in cut : /\ f \notin TaskFiles /\ f \in unsettled
                          /\ f \in SelfFiles =>
                               pc = "self" /\ \E r \in Roles : f = SelfFile(r, att)
  BY <1>9
<1>11. \A f \in Files : f \notin doubled /\ Dropping(f) => files[f].parts = <<>>
  BY DEF Dropping, Doubled, In
<1> HIDE DEF doubled, Cut
<1>12. torn \subseteq torn' /\ torn' \subseteq Files
  BY <1>3, <1>6, <1>10
<1>13. Types'
  <2>1. \A f \in Files : audit'[f] \in Nat /\ files'[f].wrote \in Nat
    BY <1>10 DEF FileStates
  <2>2. run' \in [Roles -> Sessions \cup {NoRun}]
    BY <1>1
  <2>3. crashes' \in 0 .. MaxCrashes
    BY <1>1, <1>3, BoundsAssumption
  <2>4. lost' \in [Files -> Nat] /\ \A f \in Files : lost'[f] <= audit'[f]
    <3>1. \A f \in Files : /\ lost[f] \in Nat /\ audit[f] \in Nat /\ audit'[f] \in Nat
                           /\ lost[f] <= audit[f] /\ audit[f] <= audit'[f]
      BY <1>10, TypesFlat
    <3> QED BY <1>1, <3>1, TypesFlat
  <2>5. \A f \in Files : lost'[f] \in Nat
    BY <2>4
  <2> QED BY <1>1, <1>10, <1>12, <2>1, <2>2, <2>3, <2>4, <2>5 DEF Types, TypeOK
<1>14. Seats' /\ Running'
  BY <1>1 DEF Seats, Running
<1>15. Clean'
  <2> SUFFICES ASSUME NEW f \in Files PROVE CleanAt(f)'
    BY DEF Clean
  <2>1. CASE f \in cut
    BY <1>1, <1>10, <2>1 DEF CleanAt
  <2>2. CASE f \notin cut
    <3>1. CleanAt(f)
      BY DEF Clean
    <3> QED BY <1>1, <1>10, <2>2, <3>1 DEF CleanAt, Exists
  <2> QED BY <2>1, <2>2
<1>16. Archived'
  <2>1. \A f \in TaskFiles : f \in Files /\ f \notin cut
    BY <1>10, FileNames
  <2> QED BY <1>10, <1>12, <2>1 DEF Archived, Exists
<1>17. Whole'
  <2> SUFFICES ASSUME NEW f \in Files, f \notin torn' PROVE WholeAt(f)'
    BY DEF Whole, WholeAt
  <2>1. f \notin cut /\ f \notin doubled /\ f \notin torn
    BY <1>10
  <2>2. files'[f] = files[f] /\ audit'[f] = audit[f] /\ lost' = lost
    BY <1>1, <1>10, <2>1
  <2>3. WholeAt(f)
    BY DEF Whole
  <2>4. Holds(f)' = Holds(f)
    <3>1. CASE Dropping(f)
      <4>1. Exists(f) /\ files[f].parts = <<>>
        BY <1>11, <2>1, <3>1 DEF Dropping, In, Running, RunningOn
      <4>2. files[f].main \in Seq(Rows)
        BY <1>3, <4>1 DEF FileStates, Exists
      <4>3. <<>> \o files[f].main = files[f].main
        BY <4>2, ConcatEmptySeq
      <4> QED BY <1>7, <2>2, <3>1, <4>1, <4>3 DEF Holds, ReadOf, Exists
    <3>2. CASE ~Dropping(f)
      BY <1>7, <2>2, <3>2 DEF Holds
    <3> QED BY <3>1, <3>2
  <2> QED BY <2>1, <2>2, <2>3, <2>4 DEF WholeAt, Exists
<1>18. Fresh'
  <2> SUFFICES ASSUME NEW r \in Roles, NEW a \in Attempts, a > att
               PROVE  files'[SelfFile(r, a)] = files[SelfFile(r, a)]
    <3>1. att \in Nat /\ \A a \in Attempts : a \in Nat
      BY TypesFlat, BoundsAssumption DEF Attempts
    <3> QED BY <1>1, <3>1 DEF Fresh, Exists
  <2>1. SelfFile(r, a) \in Files /\ SelfFile(r, a) \in SelfFiles /\ SelfFile(r, a)[3] = a
    BY FileNames
  <2>2. ASSUME SelfFile(r, a) \in cut PROVE FALSE
    <3>1. pc = "self" /\ \E q \in Roles : SelfFile(r, a) = SelfFile(q, att)
      BY <1>10, <2>1, <2>2
    <3>2. att \in Attempts
      BY <3>1 DEF Types
    <3>3. a = att
      BY <2>1, <3>1, <3>2, FileNames
    <3> QED BY <3>2, <3>3, BoundsAssumption DEF Attempts
  <2> QED BY <1>10, <2>1, <2>2
<1>19. Unrecorded' /\ Working' /\ Evidence' /\ Told' /\ Indexed' /\ StatementsLookBack'
  BY <1>1 DEF Unrecorded, Working, Evidence, Told, Indexed, StatementsLookBack
<1>20. LedgerSound' /\ Reported' /\ Recording'
  <2>1. report = None
    BY <1>1 DEF Reported
  <2>2. \A f \in Files : OnFile(f) => OnFile(f)'
    BY <1>1, <1>10 DEF OnFile, OnRecord, Quarantined
  <2>3. Recording'
    BY <1>1 DEF Recording
  <2> QED BY <1>1, <2>1, <2>2, <2>3, LedgerKept
<1> QED BY <1>13, <1>14, <1>15, <1>16, <1>17, <1>18, <1>19, <1>20

-----------------------------------------------------------------------------
(*                              The theorems                               *)

\* The invariant holds of a fresh checkout.
LEMMA InitInv ==
    ASSUME Init
    PROVE  IInv
<1>1. /\ seated \in BOOLEAN /\ ledger = <<>> /\ cards = [g \in Gens |-> None]
      /\ report = None /\ told = {} /\ index = [r \in Roles |-> {}]
      /\ run = [r \in Roles |-> NoRun] /\ chat = 0 /\ pc = "down" /\ gen = 0 /\ att = 0
      /\ saved = 1 /\ crashes = 0 /\ faults = 0 /\ unsettled = {} /\ torn = {}
      /\ left = {} /\ stuck = {} /\ lost = [f \in Files |-> 0]
      /\ files = [f \in Files |-> NoFile] /\ audit = [f \in Files |-> 0]
  BY BoundsAssumption DEF Init
<1>2. NoFile \in FileStates /\ NoFile.main = None /\ NoFile.parts = <<>> /\ NoFile.wrote = 0
  BY NoRows DEF NoFile, FileStates
<1>3. \A f \in Files : files[f] = NoFile /\ audit[f] = 0 /\ lost[f] = 0
  BY <1>1
<1>4. \A r \in Roles : run[r] = NoRun
  BY <1>1
<1>5. \A f \in Files : ~Dropping(f) /\ ~Exists(f)
  BY <1>2, <1>3, <1>4 DEF Dropping, In, Exists
<1>6. \A f \in Files : Holds(f) = <<>>
  BY <1>2, <1>3, <1>5 DEF Holds, ReadOf
<1>7. Types
  <2>1. files \in [Files -> FileStates] /\ audit \in [Files -> Nat]
    BY <1>1, <1>2
  <2>2. \A f \in Files : audit[f] \in Nat /\ files[f].wrote \in Nat
    BY <1>2, <1>3
  <2>3. run \in [Roles -> Sessions \cup {NoRun}]
    BY <1>1
  <2>4. /\ gen \in 0 .. MaxGen /\ att \in 0 .. MaxCrashes + 1 /\ saved \in 1 .. MaxGen + 1
        /\ crashes \in 0 .. MaxCrashes /\ faults \in 0 .. MaxFaults
    BY <1>1, BoundsAssumption
  <2>5. cards = [g \in Gens |-> cards[g]] /\ ledger \in Seq(Costs)
    BY <1>1
  <2>6. /\ lost \in [Files -> Nat]
        /\ \A f \in Files : lost[f] \in Nat /\ lost[f] <= audit[f]
    BY <1>1, <1>3
  <2> QED BY <1>1, <2>1, <2>2, <2>3, <2>4, <2>5, <2>6 DEF Types, TypeOK
<1>8. Seats /\ Running
  BY <1>4 DEF Seats, Running
<1>9. Clean
  BY <1>5 DEF Clean, CleanAt
<1>10. Archived
  <2>1. \A f \in TaskFiles : f \in Files
    BY FileNames
  <2> QED BY <1>2, <1>3, <1>5, <2>1 DEF Archived
<1>11. Whole
  BY <1>2, <1>3, <1>5, <1>6, NoRows DEF Whole, WholeAt
<1>12. Fresh
  BY <1>2, <1>3, <1>5, FileNames DEF Fresh
<1>13. Unrecorded /\ Working /\ Evidence /\ Told /\ StatementsLookBack
  BY <1>1 DEF Unrecorded, Working, Evidence, Told, StatementsLookBack
<1>14. Indexed
  BY <1>1 DEF Indexed
<1>15. LedgerSound /\ Recording /\ Reported
  <2>1. \A g \in Gens : cards[g] = None
    BY <1>1
  <2> QED BY <1>1, <2>1 DEF LedgerSound, OneRecordPerSession, SettledOnRecord, NoFalseAlarm,
                            Recording, Reported
<1> QED BY <1>7, <1>8, <1>9, <1>10, <1>11, <1>12, <1>13, <1>14, <1>15 DEF IInv

\* It is a predicate of the variables alone.
LEMMA StutterInv ==
    ASSUME IInv, UNCHANGED vars
    PROVE  IInv'
<1> USE DEF IInv
<1>1. UNCHANGED <<seated, files, audit, ledger, cards, report, told, index, run, chat,
                  pc, gen, att, saved, crashes, faults, unsettled, left, stuck, torn,
                  lost>>
  BY DEF vars
<1>2. Types' /\ Seats'
  BY <1>1 DEF Types, TypeOK, Seats, SeatFile
<1>3. Running'
  <2>1. \A r \in Roles : \A f : RunningOn(r, f) => RunningOn(r, f)'
    <3>1. \A f : Covered(files[f])' <=> Covered(files[f])
      BY <1>1 DEF Covered, RawIn, Merged
    <3>2. \A f : (Exists(f)' <=> Exists(f)) /\ (Quarantined(f)' <=> Quarantined(f))
      BY <1>1 DEF Exists, Quarantined
    <3> QED BY <1>1, <3>1, <3>2 DEF RunningOn
  <2> QED BY <1>1, <2>1 DEF Running
<1>4. \A f \in Files : Dropping(f)' <=> Dropping(f)
  BY <1>1 DEF Dropping, In
<1>5. Clean' /\ Archived' /\ Whole'
  BY <1>1, <1>4, FilesKept
<1>6. Fresh' /\ Unrecorded' /\ Working' /\ Evidence' /\ Told'
  BY <1>1 DEF Fresh, Unrecorded, Working, Evidence, Told, Exists
<1>7. Indexed'
  <2>1. \A q \in Roles : \A seg : Bound(q, seg) => Bound(q, seg)'
    BY <1>1, BoundKept
  <2> QED BY <1>1, <2>1 DEF Indexed
<1>8. StatementsLookBack'
  BY <1>1, StatementsKept
<1>9. LedgerSound' /\ Recording' /\ Reported'
  BY <1>1 DEF LedgerSound, OneRecordPerSession, SettledOnRecord, NoFalseAlarm, Recording,
              Reported, OnFile, OnRecord, Quarantined
<1> QED BY <1>2, <1>3, <1>5, <1>6, <1>7, <1>8, <1>9

\* Every step preserves the invariant.
LEMMA NextInv ==
    ASSUME IInv, [Next]_vars
    PROVE  IInv'
<1>1. CASE \E r \in Roles : SessionStep(r)
  BY <1>1, SessionInv
<1>2. CASE Loop
  BY <1>2, BootInv, FirstRoundInv, FailedInv, PlanSettledInv, TaskCallInv, CollectInv,
     EvalSettledInv, SelfSettledInv, OuterDoneInv DEF Loop
<1>3. CASE Crash
  BY <1>3, CrashInv
<1>4. CASE UNCHANGED vars
  BY <1>4, StutterInv
<1> QED BY <1>1, <1>2, <1>3, <1>4 DEF Next

\* So it holds in every reachable state.
LEMMA InvAlways == Spec => []IInv
<1>1. Init => IInv
  BY InitInv
<1>2. IInv /\ [Next]_vars => IInv'
  BY NextInv
<1> QED BY <1>1, <1>2, PTL DEF Spec

\* Joining clean sequences of rows yields none that is unredacted.
LEMMA FlattenClean ==
    ASSUME NEW n \in Nat \ {0}, NEW seqs \in [1 .. n -> Seq(Rows)],
           \A i \in 1 .. n : ~RawIn(seqs[i])
    PROVE  ~RawIn(FlattenSeq(seqs))
<1> DEFINE Good(s) == s \in Seq(Rows) /\ ~RawIn(s)
           Rec(f, k) == f = [i \in 1 .. k |-> IF i = 1 THEN seqs[i] ELSE f[i - 1] \o seqs[i]]
           Bad == {k \in Nat : k # 0 /\ k <= n /\ ~\E f : Rec(f, k) /\ \A i \in 1 .. k : Good(f[i])}
<1>1. Len(seqs) = n
  OBVIOUS
<1>2. \A i \in 1 .. n : Good(seqs[i])
  OBVIOUS
<1>3. ASSUME NEW s, NEW t, Good(s), Good(t) PROVE Good(s \o t)
  <2>1. s \in Seq(Rows) /\ t \in Seq(Rows) /\ ~RawIn(s) /\ ~RawIn(t)
    BY <1>3
  <2>2. /\ s \o t \in Seq(Rows) /\ Len(s \o t) = Len(s) + Len(t)
        /\ \A i \in 1 .. Len(s) + Len(t) :
              (s \o t)[i] = IF i <= Len(s) THEN s[i] ELSE t[i - Len(s)]
    BY <2>1, ConcatProperties
  <2>3. /\ DOMAIN s = 1 .. Len(s) /\ DOMAIN t = 1 .. Len(t) /\ Len(s) \in Nat /\ Len(t) \in Nat
        /\ DOMAIN (s \o t) = 1 .. Len(s) + Len(t)
    BY <2>1, <2>2
  <2>4. \A i \in 1 .. Len(s) : ~s[i].raw
    BY <2>1, <2>3 DEF RawIn
  <2>5. \A i \in 1 .. Len(t) : ~t[i].raw
    BY <2>1, <2>3 DEF RawIn
  <2>6. ASSUME NEW i \in 1 .. Len(s) + Len(t) PROVE ~(s \o t)[i].raw
    <3>1. CASE i <= Len(s)
      BY <2>2, <2>3, <2>4, <3>1
    <3>2. CASE ~(i <= Len(s))
      <4>1. i - Len(s) \in 1 .. Len(t)
        BY <2>3, <3>2
      <4> QED BY <2>2, <2>5, <3>2, <4>1
    <3> QED BY <3>1, <3>2
  <2> QED BY <2>2, <2>3, <2>6 DEF RawIn
<1> HIDE DEF Good
<1>4. ASSUME Bad # {} PROVE FALSE
  <2>1. PICK k \in Bad : \A j \in Bad : k <= j
    <3> HIDE DEF Bad
    <3>1. Bad \subseteq Nat
      BY DEF Bad
    <3> QED BY <1>4, <3>1, LeastNatural
  <2>2. /\ k \in Nat /\ k # 0 /\ k <= n
        /\ ~\E f : Rec(f, k) /\ \A i \in 1 .. k : Good(f[i])
    OBVIOUS
  <2>3. CASE k = 1
    <3> DEFINE f == [i \in 1 .. 1 |-> seqs[i]]
    <3>1. \A i \in 1 .. k : i = 1 /\ f[i] = seqs[i]
      BY <2>3
    <3>2. Rec(f, k)
      BY <2>3, <3>1
    <3>3. \A i \in 1 .. k : Good(f[i])
      BY <1>2, <2>2, <3>1
    <3> QED BY <2>2, <3>2, <3>3
  <2>4. CASE k # 1
    <3>1. k - 1 \in Nat /\ k - 1 # 0 /\ k - 1 <= n /\ ~(k <= k - 1)
      BY <2>2, <2>4
    <3>2. k - 1 \notin Bad
      <4> HIDE DEF Bad
      <4> QED BY <2>1, <3>1
    <3>3. PICK g : Rec(g, k - 1) /\ \A i \in 1 .. k - 1 : Good(g[i])
      BY <3>1, <3>2
    <3> DEFINE f == [i \in 1 .. k |-> IF i = k THEN g[k - 1] \o seqs[k] ELSE g[i]]
    <3>4. \A i \in 1 .. k - 1 : f[i] = g[i]
      BY <2>2
    <3>5. f[k] = f[k - 1] \o seqs[k]
      <4>1. f[k] = g[k - 1] \o seqs[k] /\ k - 1 \in 1 .. k - 1
        BY <2>2, <3>1
      <4> QED BY <3>4, <4>1
    <3>6. \A i \in 1 .. k - 1 : g[i] = IF i = 1 THEN seqs[i] ELSE g[i - 1] \o seqs[i]
      BY <3>3
    <3>7. \A i \in 1 .. k : f[i] = IF i = 1 THEN seqs[i] ELSE f[i - 1] \o seqs[i]
      <4> SUFFICES ASSUME NEW i \in 1 .. k
                   PROVE  f[i] = IF i = 1 THEN seqs[i] ELSE f[i - 1] \o seqs[i]
        OBVIOUS
      <4>1. CASE i = k
        BY <2>4, <3>5, <4>1
      <4>2. CASE i # k
        <5>1. i \in 1 .. k - 1 /\ (i # 1 => i - 1 \in 1 .. k - 1)
          BY <2>2, <4>2
        <5> HIDE DEF f
        <5> QED BY <3>4, <3>6, <5>1
      <4> QED BY <4>1, <4>2
    <3>8. Rec(f, k)
      <4>1. f = [i \in 1 .. k |-> f[i]]
        OBVIOUS
      <4> HIDE DEF f
      <4> QED BY <3>7, <4>1
    <3>9. \A i \in 1 .. k : Good(f[i])
      <4>1. Good(g[k - 1] \o seqs[k])
        BY <1>2, <1>3, <2>2, <3>1, <3>3
      <4> QED BY <2>2, <3>3, <4>1
    <3> HIDE DEF f
    <3> QED BY <2>2, <3>8, <3>9
  <2> QED BY <2>3, <2>4
<1>5. PICK g : Rec(g, n) /\ \A i \in 1 .. n : Good(g[i])
  <2>1. n \notin Bad
    BY <1>4
  <2>2. n \in Nat /\ n # 0 /\ n <= n
    OBVIOUS
  <2> QED BY <2>1, <2>2
<1> DEFINE flat == CHOOSE f : f = [i \in 1 .. Len(seqs) |->
                                    IF i = 1 THEN seqs[i] ELSE f[i - 1] \o seqs[i]]
<1>6. Rec(flat, n)
  BY <1>1, <1>5
<1>7. FlattenSeq(seqs) = flat[Len(seqs)]
  BY <1>1 DEF FlattenSeq
<1> HIDE DEF flat
<1>8. ASSUME \E i \in 1 .. n : ~Good(flat[i]) PROVE FALSE
  <2> DEFINE Raws == {i \in 1 .. n : ~Good(flat[i])}
  <2>1. Raws # {}
    <3>1. PICK j \in 1 .. n : ~Good(flat[j])
      BY <1>8
    <3>2. j \in Raws
      BY <3>1
    <3> QED BY <3>2
  <2>2. PICK i \in Raws : \A j \in Raws : i <= j
    <3>1. Raws \subseteq Nat
      OBVIOUS
    <3> HIDE DEF Raws
    <3> QED BY <2>1, <3>1, LeastNatural
  <2>3. flat[i] = IF i = 1 THEN seqs[i] ELSE flat[i - 1] \o seqs[i]
    BY <1>6
  <2>4. CASE i = 1
    BY <1>2, <2>3, <2>4
  <2>5. CASE i # 1
    <3>1. i - 1 \in 1 .. n /\ ~(i <= i - 1)
      BY <2>5
    <3>2. Good(flat[i - 1])
      BY <2>2, <3>1
    <3> QED BY <1>2, <1>3, <2>3, <2>5, <3>2
  <2> QED BY <2>4, <2>5
<1>9. Good(flat[n])
  BY <1>8
<1> QED BY <1>1, <1>7, <1>9 DEF Good

\* The invariant gives the part of SessionsServed on redaction,
LEMMA ServedCleanInv ==
    ASSUME IInv
    PROVE  ServedClean
<1> USE DEF IInv
<1> DEFINE Sealed(f) == f \notin unsettled /\ ~Uncovered(f)
<1>1. \A f \in Files : Sealed(f) /\ Exists(f) => ~RawIn(ReadAll(f))
  <2> SUFFICES ASSUME NEW f \in Files, Sealed(f), Exists(f) PROVE ~RawIn(ReadAll(f))
    OBVIOUS
  <2>1. f \notin unsettled \cup stuck
    BY DEF Uncovered
  <2>2. IF f \in left THEN Covered(files[f]) ELSE ~RawIn(ReadOf(files[f]))
    BY <2>1 DEF Clean, CleanAt
  <2>3. f \notin left
    BY <2>2 DEF Uncovered, Covered
  <2> QED BY <2>2, <2>3, ReadAllOf
<1>2. \A f \in Files : Sealed(f) => ~RawIn(ReadSession(f).rows)
  BY <1>1, NoRows DEF ReadSession
<1> HIDE DEF Sealed
<1>3. ASSUME NEW r \in Roles, \A a \in Attempts : Sealed(SelfFile(r, a))
      PROVE  ~RawIn(ReadOuterSessions(r))
  <2> DEFINE f(i) == SelfFile(r, MaxCrashes + 2 - i)
             n == MaxCrashes + 1
             seqs == [i \in Attempts |-> IF Exists(f(i)) THEN ReadAll(f(i)) ELSE <<>>]
  <2>1. n \in Nat \ {0} /\ Attempts = 1 .. n
    BY BoundsAssumption DEF Attempts
  <2>2. \A i \in Attempts : MaxCrashes + 2 - i \in Attempts
    BY BoundsAssumption DEF Attempts
  <2>3. \A i \in Attempts : f(i) \in Files /\ Sealed(f(i))
    <3> SUFFICES ASSUME NEW i \in Attempts PROVE f(i) \in Files /\ Sealed(f(i))
      OBVIOUS
    <3>1. PICK a \in Attempts : a = MaxCrashes + 2 - i
      BY <2>2
    <3>2. SelfFile(r, a) \in Files /\ Sealed(SelfFile(r, a))
      BY <1>3, FileNames
    <3> QED BY <3>1, <3>2
  <2>4. \A i \in Attempts : seqs[i] \in Seq(Rows) /\ ~RawIn(seqs[i])
    <3>1. \A g \in Files : ReadAll(g) \in Seq(Rows)
      <4>1. \A g \in Files : files[g] \in FileStates
        BY TypesFlat
      <4> QED BY <4>1, ReadRows, ReadAllOf
    <3> HIDE DEF f
    <3> QED BY <1>1, <2>3, <3>1, NoRows
  <2>5. ReadOuterSessions(r) = FlattenSeq(seqs)
    BY DEF ReadOuterSessions
  <2>6. seqs \in [1 .. n -> Seq(Rows)] /\ \A i \in 1 .. n : ~RawIn(seqs[i])
    BY <2>1, <2>4
  <2> HIDE DEF seqs, n
  <2> QED BY <2>1, <2>5, <2>6, FlattenClean
<1> QED BY <1>2, <1>3 DEF ServedClean, Sealed

\* and the part on completeness.
LEMMA ServedWholeInv ==
    ASSUME IInv
    PROVE  ServedWhole
<1> USE DEF IInv
<1> SUFFICES ASSUME NEW f \in Files, f \notin unsettled, f \notin torn
             PROVE  Numbered(ReadSession(f).rows, files[f].wrote)
  BY DEF ServedWhole, Numbered
<1>1. ~Dropping(f)
  BY DEF Dropping, In, Running, RunningOn
<1>2. /\ Numbered(ReadOf(files[f]), files[f].wrote)
      /\ ~Exists(f) => files[f].parts = <<>>
  BY <1>1 DEF Whole, WholeAt, Holds
<1>3. ReadSession(f).rows = IF Exists(f) THEN ReadOf(files[f]) ELSE <<>>
  BY ReadAllOf DEF ReadSession
<1>4. ~Exists(f) => ReadOf(files[f]) = <<>>
  BY <1>2 DEF ReadOf, Exists
<1> QED BY <1>2, <1>3, <1>4

\* Of a settled session nobody is served an unredacted row, but out of the parts
\* that could not be removed or of a file that could not even be quarantined
\* (Uncovered): these are the only two ways.  One that lost nothing is served
\* whole and in order, whatever is killed, rotated, retried, quarantined or
\* started again under the same generation id (base_role.py:395, 424;
\* trajectory.py:398, 431, 444; trajectory_log.py:56).
THEOREM SessionsServedAlways == Spec => []SessionsServed
<1>1. IInv => SessionsServed
  BY ServedCleanInv, ServedWholeInv DEF SessionsServed, IInv, Types
<1> QED BY <1>1, InvAlways, PTL

\* It gives what the readers of statements, segments and indexes agree on.
LEMMA ReadersAgreeInv ==
    ASSUME IInv
    PROVE  ReadersAgree
<1> USE DEF IInv
<1>1. EvidenceServed
  <2> SUFFICES ASSUME pc = "eval"
               PROVE  chat > 0 /\ Len(ReadSession(TaskFile(gen)).rows) = chat
    BY DEF EvidenceServed
  <2>1. /\ chat > 0 /\ Exists(TaskFile(gen)) /\ Len(files[TaskFile(gen)].main) = chat
    BY DEF Evidence
  <2>2. TaskFile(gen) \in Files /\ TaskFile(gen) \in TaskFiles
    BY FileNames DEF Types
  <2>3. files[TaskFile(gen)].parts = <<>> /\ files[TaskFile(gen)].main \in Seq(Rows)
    BY <2>1, <2>2, TypesFlat DEF Archived, FileStates, Exists
  <2>4. <<>> \o files[TaskFile(gen)].main = files[TaskFile(gen)].main
    BY <2>3, ConcatEmptySeq
  <2>5. ReadSession(TaskFile(gen)).rows = files[TaskFile(gen)].main
    BY <2>1, <2>3, <2>4 DEF ReadSession, ReadAll
  <2> QED BY <2>1, <2>5
<1>2. AddressesBind
  BY DEF AddressesBind, Indexed, Bound
<1> QED BY <1>1, <1>2 DEF ReadersAgree

\* The evaluator reads exactly the rows of the run it judges, every address of
\* an index leads to the row that was indexed, and a cost statement tells a
\* session only what was measured before it (trajectory.py, traj_index.py:85,
\* loop.py:596, 627, 645).
THEOREM ReadersAgreeAlways == Spec => []ReadersAgree
<1>1. IInv => ReadersAgree
  BY ReadersAgreeInv
<1> QED BY <1>1, InvAlways, PTL

\* Costs are written by three steps only.
LEMMA CostsWritten ==
    ASSUME [Next]_vars
    PROVE  \/ UNCHANGED <<ledger, cards>> \/ PlanSettled \/ EvalSettled
           \/ \E r \in Roles : SelfSettled(r)
<1>1. CASE \E r \in Roles : SessionStep(r)
  BY <1>1 DEF SessionStep, Turn, EndRun, Redact, RedactFails, DropParts, Quarantine, RunAgain,
              SessionDies, EndRedaction, loopState
<1>2. CASE Loop
  BY <1>2 DEF Loop, Boot, FirstRound, PlanFailed, TaskCall, TaskFailed, Collect, CollectFails,
              EvalFailed, Settle, OuterDone, Invalid
<1>3. CASE Crash
  BY <1>3 DEF Crash
<1>4. CASE UNCHANGED vars
  BY <1>4 DEF vars
<1> QED BY <1>1, <1>2, <1>3, <1>4, SMTT(30) DEF Next

\* What is written there is what the proxy billed, unless the file is torn.
LEMMA CostsSpentStep ==
    ASSUME IInv, [Next]_vars
    PROVE  /\ ledger' # ledger => LET new == ledger'[Len(ledger')] IN Spent(new.key, new.tok)
           /\ \A g \in Gens : cards'[g] # cards[g] =>
                \A c \in {cards'[g].traj, cards'[g].plan, cards'[g].eval} :
                  c = None \/ Spent(c.key, c.tok)
<1> USE DEF IInv
<1> DEFINE Good(c) == c = None \/ Spent(c.key, c.tok)
           NewRecord == ledger' # ledger => Good(ledger'[Len(ledger')]) /\ ledger'[Len(ledger')] # None
           NewCards == \A g \in Gens : cards'[g] # cards[g] =>
                          Good(cards'[g].traj) /\ Good(cards'[g].plan) /\ Good(cards'[g].eval)
<1>1. ledger \in Seq(Costs) /\ OneRecordPerSession
  BY TypesFlat DEF LedgerSound
<1>2. ASSUME NEW f \in Files, ~Dropping(f), SessionCost(f) # None
      PROVE  SessionCost(f) \in Costs /\ Good(SessionCost(f))
  BY <1>2, SessionCostOf, SessionCostSpent
<1>3. ASSUME NEW rec, rec = None \/ (rec \in Costs /\ Good(rec)), ledger' = Recorded(rec)
      PROVE  NewRecord
  <2>1. ledger' # ledger => rec # None /\ ledger'[Len(ledger')] = rec
    BY <1>1, <1>3, RecordedOnce
  <2> QED BY <1>3, <2>1
<1>4. NewRecord /\ NewCards
  <2>1. CASE UNCHANGED <<ledger, cards>>
    BY <2>1
  <2>2. CASE PlanSettled
    <3>1. /\ pc = "plan" /\ run["planner"] # NoRun /\ run["planner"].st = "closed"
          /\ ledger' = Recorded(SessionCost(PlanFile(gen))) /\ cards' = cards
      BY <2>2 DEF PlanSettled, In
    <3>2. \A f \in Files : ~Dropping(f)
      BY <3>1 DEF Seats, Dropping, In
    <3>3. PlanFile(gen) \in Files
      BY <3>1, FileNames DEF Types, GenFile, Roles
    <3> QED BY <1>2, <1>3, <3>1, <3>2, <3>3
  <2>3. CASE EvalSettled
    <3>1. /\ pc = "eval" /\ run["evaluator"] # NoRun /\ run["evaluator"].st = "closed"
          /\ ledger' = Recorded(SessionCost(EvalFile(gen)))
          /\ cards' = [cards EXCEPT ![gen] = Card(gen)]
      BY <2>3 DEF EvalSettled, In
    <3>2. \A f \in Files : ~Dropping(f)
      BY <3>1 DEF Seats, Dropping, In
    <3>3. /\ gen \in Gens /\ EvalFile(gen) \in Files /\ PlanFile(gen) \in Files
          /\ TaskFile(gen) \in Files
      <4>1. gen \in Gens
        BY <3>1 DEF Types
      <4>2. GenFile("planner", gen) = PlanFile(gen) /\ GenFile("evaluator", gen) = EvalFile(gen)
        BY DEF GenFile
      <4>3. "planner" \in Roles /\ "evaluator" \in Roles
        BY DEF Roles
      <4> QED BY <4>1, <4>2, <4>3, FileNames
    <3>4. \A f \in Files : SessionCost(f) = None \/ (SessionCost(f) \in Costs /\ Good(SessionCost(f)))
      BY <1>2, <3>2
    <3>5. NewRecord
      <4> HIDE DEF Good, NewRecord
      <4> QED BY <1>3, <3>1, <3>3, <3>4
    <3>6. NewCards
      <4>1. /\ Card(gen).traj = SessionCost(TaskFile(gen))
            /\ Card(gen).plan = SessionCost(PlanFile(gen))
            /\ Card(gen).eval = SessionCost(EvalFile(gen))
        BY DEF Card
      <4>2. \A f \in Files : Good(SessionCost(f))
        BY <3>4
      <4>3. \A g \in Gens : cards'[g] # cards[g] => cards'[g] = Card(gen)
        <5>1. cards = [g \in Gens |-> cards[g]]
          BY DEF Types
        <5> QED BY <3>1, <5>1
      <4> HIDE DEF Good
      <4> QED BY <3>3, <4>1, <4>2, <4>3
    <3> QED BY <3>5, <3>6
  <2>4. ASSUME NEW r \in Roles, SelfSettled(r) PROVE NewRecord /\ NewCards
    <3>1. /\ pc = "self" /\ run[r] # NoRun /\ run[r].st \in {"closed", "dead"} /\ cards' = cards
          /\ ledger' = ledger \/ ledger' = Recorded(SelfCost(r))
      BY <2>4 DEF SelfSettled, In
    <3>2. \A q \in Roles : run[q] # NoRun => run[q].file[2] = q
      BY RunFile
    <3>3. \A f \in Files : f[2] = r => ~Dropping(f)
      BY <3>1, <3>2 DEF Dropping, In
    <3>4. SelfCost(r) = None \/ (SelfCost(r) \in Costs /\ Good(SelfCost(r)))
      <4> SUFFICES ASSUME SelfCost(r) # None
                   PROVE  SelfCost(r) \in Costs /\ Good(SelfCost(r))
        OBVIOUS
      <4>1. PICK a \in Attempts : SelfCost(r) = SessionCost(SelfFile(r, a)) /\ SelfFile(r, a)[2] = r
        BY SelfCostOf
      <4>2. SelfFile(r, a) \in Files
        BY FileNames
      <4> HIDE DEF Good
      <4> QED BY <1>2, <3>3, <4>1, <4>2
    <3> QED BY <1>3, <3>1, <3>4
  <2> QED BY <2>1, <2>2, <2>3, <2>4, CostsWritten
<1> QED BY <1>4

\* A cost is recorded, in the ledger and on a generation's card, only as what the
\* proxy billed for the answers the session got, unless rows were lost; in the
\* in-process layout every session that the loop settles is recorded, and once;
\* and the reconciliation of an outer alarms only where rows or an answer went
\* missing (loop.py:488, 502, 517, 552; cost_ledger.py:347, 398, 452, 487).
THEOREM CostsSoundAlways == Spec => CostsSound
<1>1. IInv /\ [Next]_vars =>
        [/\ ledger' # ledger => LET new == ledger'[Len(ledger')] IN Spent(new.key, new.tok)
         /\ \A g \in Gens : cards'[g] # cards[g] =>
              \A c \in {cards'[g].traj, cards'[g].plan, cards'[g].eval} :
                c = None \/ Spent(c.key, c.tok)]_vars
  BY CostsSpentStep
<1>2. IInv => LedgerSound
  BY DEF IInv
<1>3. Spec => CostsAreSpent
  BY <1>1, InvAlways, PTL DEF Spec, CostsAreSpent
<1>4. Spec => []LedgerSound
  BY <1>2, InvAlways, PTL
<1> QED BY <1>3, <1>4, PTL DEF CostsSound

==============================================================================
