---------------------------- MODULE ContentProofs ----------------------------
(***************************************************************************)
(* Theorems about Content, for every number of problems, dates, reference  *)
(* codes and requests at once, and every length of the history.            *)
(***************************************************************************)
EXTENDS Content, TLAPS

----------------------------------------------------------------------------
(* The invariant *)

Output     == [code : Codes \cup {Null}, data : Nat]
SolutionRow == [code : Codes \cup {Null}, output : Output]
ProblemRow == [kind : Kinds \cup {Null}, active : BOOLEAN, num : Nat]
EditorRow  == [pc : {"idle", "deleting", "clean", "run", "look", "insert", "update"},
               p : Ids \cup {Null}, op : {"add", "edit", Null}, kind : Kinds \cup {Null},
               row : SolutionRow, locked : SUBSET Dates, late : BOOLEAN, since : Dates]
Saving     == {"run", "look", "insert", "update"}

Shapes ==
    /\ problems \in [Ids -> ProblemRow] /\ made \in Nat /\ serial \in Nat /\ today \in Dates
    /\ schedule \in [Dates -> [Slots -> Ids \cup {Null}] \cup {Null}]
    /\ data \in [Ids -> Nat] /\ cases \in [Ids -> Nat]
    /\ solutions \in [Ids -> SUBSET SolutionRow]
    /\ editor \in [Workers -> EditorRow]

(* Ids are given out once, and a request that saves works on one of them,  *)
(* whose type, if never edited, is the type it read.                       *)
IdsGiven ==
    /\ \A p \in Ids : Exists(p) => p <= made
    /\ \A w \in Workers :
        /\ editor[w].pc \in Saving =>
               /\ editor[w].p \in Ids /\ editor[w].p <= made
               /\ editor[w].op \in {"add", "edit"} /\ editor[w].kind \in Kinds
               /\ editor[w].p \notin retyped /\ Exists(editor[w].p) =>
                      problems[editor[w].p].kind = editor[w].kind
        /\ editor[w].pc = "deleting" => editor[w].p \in Ids

(* A row that a deletion holds is still in the schedule. *)
LockedRowsStand ==
    \A w \in Workers : editor[w].pc = "deleting" => \A d \in editor[w].locked : schedule[d] # Null

(* An output goes with its code, and only python and pyspark have one.     *)
Fits(row, kind) == row.output # NoOutput => row.output.code = row.code /\ kind = "pandas"
SavesFit     == \A w \in Workers : editor[w].pc \in Saving => Fits(editor[w].row, editor[w].kind)
SolutionsFit == \A p \in Ids \ retyped : \A row \in solutions[p] : Fits(row, problems[p].kind)

IInv == Shapes /\ IdsGiven /\ LockedRowsStand /\ SavesFit /\ SolutionsFit /\ NothingDangles

----------------------------------------------------------------------------
(* Operators *)

LEMMA NullFacts == Null \notin Ids /\ Null \notin Kinds /\ Null \notin Codes /\ Ids \subseteq Nat
BY ContentAssumption DEF Ids

LEMMA BlankTypes ==
    /\ NoOutput \in Output /\ BlankRow \in SolutionRow /\ BlankRow.output = NoOutput
    /\ NoEditor \in EditorRow /\ NoEditor.pc = "idle"
    /\ NoProblem.kind = Null /\ NoProblem \in ProblemRow
BY ContentAssumption
   DEF NoOutput, Output, BlankRow, SolutionRow, NoEditor, EditorRow, NoProblem, ProblemRow, Dates

LEMMA InitInv == ContentInit => IInv
<1> SUFFICES ASSUME ContentInit PROVE IInv OBVIOUS
<1> USE DEF ContentInit
<1>1. Shapes BY BlankTypes, ContentAssumption DEF Shapes, Dates
<1>2. IdsGiven /\ LockedRowsStand /\ SavesFit
  BY BlankTypes DEF IdsGiven, LockedRowsStand, SavesFit, Saving, Exists
<1>3. SolutionsFit BY DEF SolutionsFit
<1>4. NothingDangles BY DEF NothingDangles, Scheduled, InRow
<1>5. QED BY <1>1, <1>2, <1>3, <1>4 DEF IInv

(* Requests come, go, or are marked: nothing that is stored changes.       *)
LEMMA EditorInv ==
    ASSUME IInv, UNCHANGED <<problems, made, serial, schedule, data, cases, solutions, today, retyped>>,
           editor' \in [Workers -> EditorRow],
           \A w \in Workers : /\ editor'[w].pc \in Saving =>
                                    /\ editor'[w].p \in Ids /\ editor'[w].p <= made
                                    /\ editor'[w].op \in {"add", "edit"} /\ editor'[w].kind \in Kinds
                                    /\ editor'[w].p \notin retyped /\ Exists(editor'[w].p) =>
                                           problems[editor'[w].p].kind = editor'[w].kind
                                    /\ Fits(editor'[w].row, editor'[w].kind)
                              /\ editor'[w].pc = "deleting" =>
                                    /\ editor'[w].p \in Ids
                                    /\ \A d \in editor'[w].locked : schedule[d] # Null
    PROVE  IInv'
<1> USE DEF IInv
<1>1. Shapes' BY DEF Shapes
<1>2. IdsGiven' BY DEF IdsGiven, Exists
<1>3. LockedRowsStand' BY DEF LockedRowsStand
<1>4. SavesFit' BY DEF SavesFit, Fits
<1>5. SolutionsFit' BY DEF SolutionsFit, Fits
<1>6. NothingDangles' BY DEF NothingDangles, Exists, Scheduled, InRow
<1>7. QED BY <1>1, <1>2, <1>3, <1>4, <1>5, <1>6

(* The same for one request that begins or goes on. *)
LEMMA EditorStep ==
    ASSUME IInv, UNCHANGED <<problems, made, serial, schedule, data, cases, solutions, today, retyped>>,
           NEW w \in Workers, NEW e \in EditorRow, editor' = [editor EXCEPT ![w] = e],
           e.pc \in Saving =>
               /\ e.p \in Ids /\ e.p <= made /\ e.op \in {"add", "edit"} /\ e.kind \in Kinds
               /\ e.p \notin retyped /\ Exists(e.p) => problems[e.p].kind = e.kind
               /\ Fits(e.row, e.kind),
           e.pc = "deleting" => e.p \in Ids /\ \A d \in e.locked : schedule[d] # Null
    PROVE  IInv'
<1>1. editor \in [Workers -> EditorRow] BY DEF IInv, Shapes
<1>2. editor'[w] = e /\ \A v \in Workers \ {w} : editor'[v] = editor[v] BY <1>1
<1>3. editor' \in [Workers -> EditorRow] BY <1>1
<1> DEFINE Sound(v) ==
        /\ editor'[v].pc \in Saving =>
              /\ editor'[v].p \in Ids /\ editor'[v].p <= made
              /\ editor'[v].op \in {"add", "edit"} /\ editor'[v].kind \in Kinds
              /\ editor'[v].p \notin retyped /\ Exists(editor'[v].p) =>
                     problems[editor'[v].p].kind = editor'[v].kind
              /\ Fits(editor'[v].row, editor'[v].kind)
        /\ editor'[v].pc = "deleting" =>
              /\ editor'[v].p \in Ids
              /\ \A d \in editor'[v].locked : schedule[d] # Null
<1>4. Sound(w) BY <1>2
<1>5. \A v \in Workers \ {w} : Sound(v)
  BY <1>2 DEF IInv, IdsGiven, SavesFit, LockedRowsStand
<1>6. \A v \in Workers : Sound(v) BY <1>4, <1>5
<1>7. QED BY <1>3, <1>6, EditorInv

(* Marking the deletions of a problem as late changes nothing else.        *)
LEMMA MarkLateKeeps ==
    ASSUME IInv, NEW p \in Ids
    PROVE  /\ MarkLate(p) \in [Workers -> EditorRow]
           /\ \A w \in Workers :
                 /\ MarkLate(p)[w].pc = editor[w].pc /\ MarkLate(p)[w].p = editor[w].p
                 /\ MarkLate(p)[w].op = editor[w].op /\ MarkLate(p)[w].kind = editor[w].kind
                 /\ MarkLate(p)[w].row = editor[w].row /\ MarkLate(p)[w].locked = editor[w].locked
<1>1. ASSUME NEW w \in Workers
      PROVE  /\ MarkLate(p)[w] \in EditorRow
             /\ MarkLate(p)[w].pc = editor[w].pc /\ MarkLate(p)[w].p = editor[w].p
             /\ MarkLate(p)[w].op = editor[w].op /\ MarkLate(p)[w].kind = editor[w].kind
             /\ MarkLate(p)[w].row = editor[w].row /\ MarkLate(p)[w].locked = editor[w].locked
  <2>1. editor[w] \in EditorRow BY <1>1 DEF IInv, Shapes
  <2>2. MarkLate(p)[w] = editor[w] \/ MarkLate(p)[w] = [editor[w] EXCEPT !.late = TRUE]
    BY <1>1 DEF MarkLate
  <2>3. QED BY <2>1, <2>2 DEF EditorRow
<1>2. MarkLate(p) = [w \in Workers |-> MarkLate(p)[w]] BY DEF MarkLate
<1>3. QED BY <1>1, <1>2

----------------------------------------------------------------------------
(* Problems and their life *)

LEMMA CreateProblemInv ==
    ASSUME IInv, NEW kind \in Kinds, NEW active \in BOOLEAN, CreateProblem(kind, active)
    PROVE  IInv'
<1> USE DEF IInv
<1> DEFINE n   == made + 1
           row == [kind |-> kind, active |-> active, num |-> serial + 1]
<1>1. made \in Nat /\ serial \in Nat /\ made' = n /\ serial' = serial + 1 /\ n \in Ids
  BY ContentAssumption DEF CreateProblem, Shapes, Ids
<1>2. row \in ProblemRow /\ row.kind # Null BY <1>1, NullFacts DEF ProblemRow
<1>3. problems' = [problems EXCEPT ![n] = row] BY <1>1 DEF CreateProblem
<1> HIDE DEF row
<1>4. ~Exists(n) BY <1>1 DEF IdsGiven
<1>5. problems'[n] = row /\ \A p \in Ids \ {n} : problems'[p] = problems[p]
  BY <1>1, <1>3 DEF Shapes
<1>6. UNCHANGED <<schedule, data, cases, solutions, editor, today, retyped>>
  BY DEF CreateProblem, material, calendar
<1>7. \A p \in Ids : Exists(p)' <=> (Exists(p) \/ p = n) BY <1>1, <1>2, <1>5 DEF Exists
<1>8. Shapes' BY <1>1, <1>2, <1>3, <1>6 DEF Shapes
<1>9. IdsGiven'
  <2>1. ASSUME NEW p \in Ids, Exists(p)' PROVE p <= made'
    BY <1>1, <1>7, <2>1, NullFacts DEF IdsGiven
  <2>2. ASSUME NEW w \in Workers
        PROVE  /\ editor'[w].pc \in Saving =>
                     /\ editor'[w].p \in Ids /\ editor'[w].p <= made'
                     /\ editor'[w].op \in {"add", "edit"} /\ editor'[w].kind \in Kinds
                     /\ editor'[w].p \notin retyped' /\ Exists(editor[w].p)' =>
                            problems'[editor'[w].p].kind = editor'[w].kind
               /\ editor'[w].pc = "deleting" => editor'[w].p \in Ids
    <3>1. CASE editor[w].pc \in Saving
      <4>1. editor[w].p \in Ids /\ editor[w].p <= made /\ editor[w].p # n
        BY <1>1, <3>1, NullFacts DEF IdsGiven
      <4>2. /\ editor'[w] = editor[w] /\ problems'[editor[w].p] = problems[editor[w].p]
            /\ Exists(editor[w].p)' <=> Exists(editor[w].p)
        BY <1>5, <1>6, <1>7, <4>1
      <4>3. editor[w].p <= made'
        <5>1. \A q \in Nat : q <= made => q <= made' BY <1>1
        <5>2. editor[w].p \in Nat BY <4>1, NullFacts
        <5>3. QED BY <4>1, <5>1, <5>2
      <4>4. retyped' = retyped BY <1>6
      <4>5. QED BY <3>1, <4>1, <4>2, <4>3, <4>4 DEF IdsGiven, Saving
    <3>2. CASE editor[w].pc \notin Saving BY <1>6, <3>2 DEF IdsGiven
    <3>3. QED BY <3>1, <3>2
  <2>3. QED BY <1>6, <2>1, <2>2 DEF IdsGiven
<1>10. LockedRowsStand' /\ SavesFit' BY <1>6 DEF LockedRowsStand, SavesFit, Fits
<1>11. SolutionsFit'
  <2>1. solutions[n] = {} BY <1>1, <1>4 DEF NothingDangles
  <2>2. QED BY <1>5, <1>6, <2>1 DEF SolutionsFit, Fits
<1>12. NothingDangles' BY <1>6, <1>7 DEF NothingDangles, Scheduled, InRow
<1>13. QED BY <1>8, <1>9, <1>10, <1>11, <1>12

(* Publication and withdrawal change only which problems are active.       *)
LEMMA ActiveInv ==
    ASSUME IInv, problems' \in [Ids -> ProblemRow],
           \A p \in Ids : problems'[p].kind = problems[p].kind,
           UNCHANGED <<made, serial, schedule, data, cases, solutions, today, retyped, editor>>
    PROVE  IInv'
<1> USE DEF IInv
<1>1. Shapes' BY DEF Shapes
<1>2. \A p \in Ids : Exists(p)' <=> Exists(p) BY DEF Exists
<1>3. IdsGiven' BY <1>2 DEF IdsGiven, Exists
<1>4. LockedRowsStand' /\ SavesFit' BY DEF LockedRowsStand, SavesFit, Fits
<1>5. SolutionsFit' BY DEF SolutionsFit, Fits
<1>6. NothingDangles' BY <1>2 DEF NothingDangles, Scheduled, InRow
<1>7. QED BY <1>1, <1>3, <1>4, <1>5, <1>6

LEMMA EditActiveInv ==
    ASSUME IInv, NEW p \in Ids, NEW active \in BOOLEAN, EditActive(p, active) PROVE IInv'
<1> DEFINE row == [problems[p] EXCEPT !.active = active]
<1>1. problems \in [Ids -> ProblemRow] /\ problems[p] \in ProblemRow BY DEF IInv, Shapes
<1>2. row \in ProblemRow /\ row.kind = problems[p].kind BY <1>1 DEF ProblemRow
<1>3. problems' = [problems EXCEPT ![p] = row] BY <1>1 DEF EditActive
<1> HIDE DEF row
<1>4. problems' \in [Ids -> ProblemRow] /\ \A q \in Ids : problems'[q].kind = problems[q].kind
  BY <1>1, <1>2, <1>3
<1>5. QED BY <1>4, ActiveInv DEF EditActive, material, calendar

LEMMA PublishDueKeeps ==
    ASSUME IInv, NEW S, PublishDue(S)
    PROVE  problems' \in [Ids -> ProblemRow] /\ \A p \in Ids : problems'[p].kind = problems[p].kind
<1> DEFINE due == {p \in Ids : Exists(p) /\ DueIn(p, S)}
<1>1. problems' = [p \in Ids |-> [problems[p] EXCEPT !.active = @ \/ p \in due]] BY DEF PublishDue
<1> HIDE DEF due
<1>2. ASSUME NEW p \in Ids
      PROVE  problems'[p] \in ProblemRow /\ problems'[p].kind = problems[p].kind
  <2>1. problems[p] \in ProblemRow BY DEF IInv, Shapes
  <2>2. CASE p \in due
    <3>1. problems'[p] = [problems[p] EXCEPT !.active = problems[p].active \/ TRUE] BY <1>1, <2>2
    <3>2. QED BY <2>1, <3>1 DEF ProblemRow
  <2>3. CASE p \notin due
    <3>1. problems'[p] = [problems[p] EXCEPT !.active = problems[p].active \/ FALSE] BY <1>1, <2>3
    <3>2. QED BY <2>1, <3>1 DEF ProblemRow
  <2>4. QED BY <2>2, <2>3
<1>3. QED BY <1>1, <1>2

LEMMA AdminListInv == ASSUME IInv, AdminList PROVE IInv'
<1>1. PublishDue(Slots \ {"dsa"}) BY DEF AdminList
<1>2. QED BY <1>1, PublishDueKeeps, ActiveInv DEF AdminList, material, calendar

LEMMA EditKindInv ==
    ASSUME IInv, NEW p \in Ids, NEW kind \in Kinds, EditKind(p, kind) PROVE IInv'
<1> USE DEF IInv
<1> DEFINE row == [problems[p] EXCEPT !.kind = kind]
<1>1. problems \in [Ids -> ProblemRow] /\ problems[p] \in ProblemRow BY DEF Shapes
<1>2. row \in ProblemRow /\ row.kind # Null BY <1>1, NullFacts DEF ProblemRow
<1>3. problems' = [problems EXCEPT ![p] = row] BY <1>1 DEF EditKind
<1> HIDE DEF row
<1>4. problems'[p] = row /\ \A q \in Ids \ {p} : problems'[q] = problems[q] BY <1>1, <1>3
<1>5. /\ UNCHANGED <<made, serial, schedule, data, cases, solutions, today, editor>>
      /\ retyped' = retyped \cup {p} /\ Exists(p)
  BY DEF EditKind, material, calendar
<1>6. \A q \in Ids : Exists(q)' <=> Exists(q) BY <1>2, <1>4, <1>5 DEF Exists
<1>7. Shapes' BY <1>1, <1>2, <1>3, <1>5 DEF Shapes
<1>8. IdsGiven'
  <2>1. ASSUME NEW w \in Workers, editor[w].pc \in Saving, editor[w].p \notin retyped',
               Exists(editor[w].p)'
        PROVE  problems'[editor[w].p].kind = editor[w].kind
    <3>1. editor[w].p \in Ids \ {p} /\ editor[w].p \notin retyped
      BY <1>5, <2>1 DEF IdsGiven
    <3>2. Exists(editor[w].p)
      <4>1. editor' = editor BY <1>5
      <4>2. QED BY <1>4, <2>1, <3>1, <4>1 DEF Exists
    <3>3. QED BY <1>4, <2>1, <3>1, <3>2 DEF IdsGiven
  <2>2. QED BY <1>5, <1>6, <2>1 DEF IdsGiven
<1>9. LockedRowsStand' /\ SavesFit' BY <1>5 DEF LockedRowsStand, SavesFit, Fits
<1>10. SolutionsFit' BY <1>4, <1>5 DEF SolutionsFit, Fits
<1>11. NothingDangles' BY <1>5, <1>6 DEF NothingDangles, Scheduled, InRow
<1>12. QED BY <1>7, <1>8, <1>9, <1>10, <1>11

LEMMA BeginDeleteInv ==
    ASSUME IInv, NEW w \in Workers, NEW p \in Ids, BeginDelete(w, p) PROVE IInv'
<1> DEFINE e == [NoEditor EXCEPT !.pc = "deleting", !.p = p, !.locked = Scheduled(p)]
<1>1. /\ e \in EditorRow /\ e.pc = "deleting" /\ e.p = p /\ e.locked = Scheduled(p)
  BY BlankTypes DEF NoEditor, EditorRow, Scheduled
<1>2. editor' = [editor EXCEPT ![w] = e] BY DEF BeginDelete, Serving
<1> HIDE DEF e
<1>3. UNCHANGED <<problems, made, serial, schedule, data, cases, solutions, today, retyped>>
  BY DEF BeginDelete, material, calendar
<1>4. \A d \in e.locked : schedule[d] # Null BY <1>1 DEF Scheduled, InRow
<1>5. e.pc \notin Saving BY <1>1 DEF Saving
<1>6. QED BY <1>1, <1>2, <1>3, <1>4, <1>5, EditorStep

LEMMA CloseInv ==
    ASSUME IInv, NEW w \in Workers, Close(w),
           UNCHANGED <<problems, made, serial, schedule, data, cases, solutions, today, retyped>>
    PROVE  IInv'
<1>1. NoEditor \in EditorRow /\ NoEditor.pc \notin Saving /\ NoEditor.pc # "deleting"
  BY BlankTypes DEF Saving
<1>2. editor' = [editor EXCEPT ![w] = NoEditor] BY DEF Close
<1>3. QED BY <1>1, <1>2, EditorStep

(* A deletion that no foreign key refuses clears every row it found, and   *)
(* it found them all.                                                      *)
LEMMA CommitDeleteInv ==
    ASSUME IInv, NEW w \in Workers, CommitDelete(w) PROVE IInv'
<1> DEFINE p      == editor[w].p
           locked == editor[w].locked
<1> USE DEF IInv
<1>1. p \in Ids /\ locked \subseteq Dates /\ editor[w].pc = "deleting"
  BY DEF CommitDelete, IdsGiven, Shapes, EditorRow
<1>2. Close(w) /\ UNCHANGED <<made, serial, today, retyped>> BY DEF CommitDelete
<1>3. CASE Refused(w)
  <2>1. UNCHANGED <<problems, schedule, data, cases, solutions>> BY <1>3 DEF CommitDelete
  <2>2. QED BY <1>2, <2>1, CloseInv
<1>4. CASE ~Refused(w)
  <2>1. /\ problems' = [problems EXCEPT ![p] = NoProblem]
        /\ schedule' = [d \in Dates |->
               IF d \in locked
               THEN [s \in Slots |-> IF schedule[d][s] = p THEN Null ELSE schedule[d][s]]
               ELSE schedule[d]]
        /\ data' = [data EXCEPT ![p] = 0]
        /\ cases' = [cases EXCEPT ![p] = 0]
        /\ solutions' = [solutions EXCEPT ![p] = {}]
    BY <1>4 DEF CommitDelete
  <2>2. Scheduled(p) \subseteq locked BY <1>4 DEF Refused
  <2>3. \A d \in locked : schedule[d] # Null BY <1>1 DEF LockedRowsStand
  <2>4. editor' = [editor EXCEPT ![w] = NoEditor] /\ editor'[w] = NoEditor
        /\ \A v \in Workers \ {w} : editor'[v] = editor[v]
    BY <1>2 DEF Close, Shapes
  <2>5. /\ problems'[p] = NoProblem /\ data'[p] = 0 /\ cases'[p] = 0 /\ solutions'[p] = {}
        /\ \A q \in Ids \ {p} : /\ problems'[q] = problems[q] /\ data'[q] = data[q]
                                /\ cases'[q] = cases[q] /\ solutions'[q] = solutions[q]
    BY <1>1, <2>1 DEF Shapes
  <2> HIDE DEF p, locked
  <2>6. \A q \in Ids : Exists(q)' <=> (Exists(q) /\ q # p) BY <2>5, BlankTypes DEF Exists
  <2>7. \A d \in Dates : (schedule'[d] = Null) <=> (schedule[d] = Null)
    <3>1. ASSUME NEW d \in Dates, d \in locked
          PROVE  schedule'[d] # Null
      <4>1. schedule[d] # Null /\ schedule[d] \in [Slots -> Ids \cup {Null}] \cup {Null}
        BY <2>3, <3>1 DEF Shapes
      <4>2. schedule'[d] = [s \in Slots |-> IF schedule[d][s] = p THEN Null ELSE schedule[d][s]]
        BY <2>1, <3>1
      <4>3. schedule'[d] \in [Slots -> Ids \cup {Null}] BY <4>1, <4>2
      <4>4. QED BY <4>3, ContentAssumption
    <3>2. QED BY <2>1, <2>3, <3>1
  <2>8. Shapes'
    <3>1. schedule' \in [Dates -> [Slots -> Ids \cup {Null}] \cup {Null}]
      BY <1>1, <2>1, <2>3 DEF Shapes
    <3>2. editor' \in [Workers -> EditorRow] BY <2>4, BlankTypes DEF Shapes
    <3>3. problems' \in [Ids -> ProblemRow] BY <2>1, BlankTypes DEF Shapes
    <3>4. QED BY <1>2, <2>1, <3>1, <3>2, <3>3 DEF Shapes
  <2>9. IdsGiven'
    <3>1. ASSUME NEW v \in Workers, v # w, editor[v].pc \in Saving, editor[v].p \notin retyped,
                 Exists(editor[v].p)'
          PROVE  problems'[editor[v].p].kind = editor[v].kind
      <4>1. editor[v].p \in Ids /\ editor'[v] = editor[v] BY <2>4, <3>1 DEF IdsGiven
      <4>2. Exists(editor[v].p) /\ editor[v].p # p BY <2>6, <3>1, <4>1 DEF Exists
      <4>3. QED BY <2>5, <3>1, <4>1, <4>2 DEF IdsGiven
    <3>2. NoEditor.pc \notin Saving /\ NoEditor.pc # "deleting" BY BlankTypes DEF Saving
    <3>3. \A q \in Ids : Exists(q)' => q <= made' BY <1>2, <2>6 DEF IdsGiven
    <3>4. ASSUME NEW v \in Workers
          PROVE  /\ editor'[v].pc \in Saving =>
                      /\ editor'[v].p \in Ids /\ editor'[v].p <= made'
                      /\ editor'[v].op \in {"add", "edit"} /\ editor'[v].kind \in Kinds
                      /\ editor'[v].p \notin retyped' /\ Exists(editor[v].p)' =>
                             problems'[editor'[v].p].kind = editor'[v].kind
                 /\ editor'[v].pc = "deleting" => editor'[v].p \in Ids
      <4>1. CASE v = w BY <2>4, <3>2, <4>1
      <4>2. CASE v # w
        <5>1. editor'[v] = editor[v] BY <2>4, <4>2
        <5>2. QED BY <1>2, <3>1, <4>2, <5>1 DEF IdsGiven
      <4>3. QED BY <4>1, <4>2
    <3>5. QED BY <3>3, <3>4 DEF IdsGiven
  <2>10. LockedRowsStand'
    <3>1. NoEditor.pc # "deleting" BY BlankTypes
    <3>2. \A v \in Workers : editor[v].pc = "deleting" => editor[v].locked \subseteq Dates
      BY DEF Shapes, EditorRow
    <3>3. QED BY <2>4, <2>7, <3>1, <3>2 DEF LockedRowsStand
  <2>11. SavesFit'
    <3>1. NoEditor.pc \notin Saving BY BlankTypes DEF Saving
    <3>2. QED BY <2>4, <3>1 DEF SavesFit, Fits
  <2>12. SolutionsFit' BY <1>2, <2>5 DEF SolutionsFit, Fits
  <2>13. NothingDangles'
    <3>1. ASSUME NEW q \in Ids, NEW d \in Dates, InRow(q, d)' PROVE InRow(q, d)
      <4>1. schedule[d] # Null BY <2>7, <3>1 DEF InRow
      <4>2. PICK s \in Slots : schedule'[d][s] = q BY <3>1 DEF InRow
      <4>3. schedule[d][s] = q BY <2>1, <4>2, NullFacts
      <4>4. QED BY <4>1, <4>3 DEF InRow
    <3>2. ASSUME NEW q \in Ids, q = p, NEW d \in Dates PROVE ~InRow(q, d)'
      <4>1. CASE d \in locked BY <2>1, <3>2, <4>1, NullFacts DEF InRow
      <4>2. CASE d \notin locked BY <2>1, <2>2, <3>2, <4>2 DEF InRow, Scheduled
      <4>3. QED BY <4>1, <4>2
    <3>3. ASSUME NEW q \in Ids, ~Exists(q)'
          PROVE  data'[q] = 0 /\ cases'[q] = 0 /\ solutions'[q] = {} /\ Scheduled(q)' = {}
      <4>1. CASE q = p BY <2>5, <3>2, <4>1 DEF Scheduled
      <4>2. CASE q # p
        <5>1. ~Exists(q) BY <2>6, <3>3, <4>2
        <5>2. QED BY <2>5, <3>1, <4>2, <5>1 DEF NothingDangles, Scheduled
      <4>3. QED BY <4>1, <4>2
    <3>4. QED BY <3>3 DEF NothingDangles
  <2>14. QED BY <2>8, <2>9, <2>10, <2>11, <2>12, <2>13
<1>5. QED BY <1>3, <1>4

(* Requests start over after a restart. *)
LEMMA RestartInv == ASSUME IInv, Restart PROVE IInv'
<1>1. NoEditor \in EditorRow /\ NoEditor.pc \notin Saving /\ NoEditor.pc # "deleting"
  BY BlankTypes DEF Saving
<1>2. editor' = [w \in Workers |-> NoEditor] BY DEF Restart
<1>3. QED BY <1>1, <1>2, EditorInv DEF Restart, material, calendar

----------------------------------------------------------------------------
(* The calendar *)

(* A day of the schedule may change when no deletion holds its row, and    *)
(* names problems that exist.                                              *)
LEMMA CalendarInv ==
    ASSUME IInv, UNCHANGED <<problems, made, serial, data, cases, solutions, retyped, editor>>,
           today' \in Dates,
           schedule' \in [Dates -> [Slots -> Ids \cup {Null}] \cup {Null}],
           \A d \in Dates : RowLocked(d) => schedule'[d] = schedule[d],
           \A d \in Dates : \/ schedule'[d] = schedule[d] \/ schedule'[d] = Null
                            \/ \A s \in Slots : schedule'[d][s] # Null => Exists(schedule'[d][s])
    PROVE  IInv'
<1> USE DEF IInv
<1>1. Shapes' BY DEF Shapes
<1>2. \A p \in Ids : Exists(p)' <=> Exists(p) BY DEF Exists
<1>3. IdsGiven' BY DEF IdsGiven, Exists
<1>4. LockedRowsStand'
  <2>1. ASSUME NEW w \in Workers, editor[w].pc = "deleting", NEW d \in editor[w].locked
        PROVE  schedule'[d] # Null
    <3>1. d \in Dates BY DEF Shapes, EditorRow
    <3>2. RowLocked(d) /\ schedule[d] # Null BY <2>1 DEF RowLocked, LockedRowsStand
    <3>3. QED BY <3>1, <3>2
  <2>2. QED BY <2>1 DEF LockedRowsStand
<1>5. SavesFit' /\ SolutionsFit' BY DEF SavesFit, SolutionsFit, Fits
<1>6. NothingDangles'
  <2>1. ASSUME NEW p \in Ids, ~Exists(p), NEW d \in Dates PROVE ~InRow(p, d)'
    <3>1. ~InRow(p, d) BY <2>1 DEF NothingDangles, Scheduled
    <3>2. CASE schedule'[d] = schedule[d] BY <3>1, <3>2 DEF InRow
    <3>3. CASE schedule'[d] = Null BY <3>3 DEF InRow
    <3>4. CASE \A s \in Slots : schedule'[d][s] # Null => Exists(schedule'[d][s])
      BY <2>1, <3>4, NullFacts DEF InRow
    <3>5. QED BY <3>2, <3>3, <3>4
  <2>2. QED BY <1>2, <2>1 DEF NothingDangles, Scheduled
<1>7. QED BY <1>1, <1>3, <1>4, <1>5, <1>6

LEMMA ScheduleInv ==
    ASSUME IInv, NEW d \in Dates, NEW row \in [Slots -> Ids \cup {Null}], Schedule(d, row)
    PROVE  IInv'
<1>1. /\ ~RowLocked(d) /\ schedule' = [schedule EXCEPT ![d] = row]
      /\ \A s \in Slots : row[s] # Null => Exists(row[s])
      /\ UNCHANGED <<problems, made, serial, data, cases, solutions, retyped, editor, today>>
  BY DEF Schedule, material
<1>2. /\ schedule \in [Dates -> [Slots -> Ids \cup {Null}] \cup {Null}] /\ today \in Dates
  BY DEF IInv, Shapes
<1>3. schedule'[d] = row /\ \A c \in Dates \ {d} : schedule'[c] = schedule[c] BY <1>1, <1>2
<1>4. schedule' \in [Dates -> [Slots -> Ids \cup {Null}] \cup {Null}] BY <1>1, <1>2
<1>5. \A c \in Dates : RowLocked(c) => schedule'[c] = schedule[c] BY <1>1, <1>3
<1>6. \A c \in Dates : \/ schedule'[c] = schedule[c] \/ schedule'[c] = Null
                       \/ \A s \in Slots : schedule'[c][s] # Null => Exists(schedule'[c][s])
  BY <1>1, <1>3
<1>7. QED BY <1>1, <1>2, <1>4, <1>5, <1>6, CalendarInv

LEMMA NextDayInv == ASSUME IInv, NextDay PROVE IInv'
<1>1. today' \in Dates BY ContentAssumption DEF NextDay, IInv, Shapes, Dates
<1>2. schedule \in [Dates -> [Slots -> Ids \cup {Null}] \cup {Null}] BY DEF IInv, Shapes
<1>3. QED BY <1>1, <1>2, CalendarInv DEF NextDay, material

(* The publication and the cleaning of the schedule are two statements.    *)
LEMMA PublishTodayInv == ASSUME IInv, NEW w \in Workers, PublishToday(w) PROVE IInv'
<1> DEFINE e == [NoEditor EXCEPT !.pc = "clean", !.since = today]
<1> USE DEF IInv
<1>1. PublishDue(Slots) /\ UNCHANGED <<made, serial, retyped, data, cases, solutions, schedule, today>>
  BY DEF PublishToday, material, calendar
<1>2. e \in EditorRow /\ e.pc \notin Saving /\ e.pc # "deleting"
  BY BlankTypes DEF NoEditor, EditorRow, Saving, Shapes
<1>3. editor' = [editor EXCEPT ![w] = e] BY DEF PublishToday, Serving
<1> HIDE DEF e
<1>4. problems' \in [Ids -> ProblemRow] /\ \A p \in Ids : problems'[p].kind = problems[p].kind
  BY <1>1, PublishDueKeeps
<1>5. editor' \in [Workers -> EditorRow] BY <1>2, <1>3 DEF Shapes
<1>6. editor'[w] = e /\ \A v \in Workers \ {w} : editor'[v] = editor[v] BY <1>3 DEF Shapes
<1>7. Shapes' BY <1>1, <1>4, <1>5 DEF Shapes
<1>8. \A p \in Ids : Exists(p)' <=> Exists(p) BY <1>4 DEF Exists
<1>9. IdsGiven'
  <2>1. ASSUME NEW v \in Workers, editor'[v].pc \in Saving \cup {"deleting"}
        PROVE  editor'[v] = editor[v]
    BY <1>2, <1>6, <2>1
  <2>2. ASSUME NEW v \in Workers, editor[v].pc \in Saving, editor'[v] = editor[v],
               editor[v].p \notin retyped, Exists(editor[v].p)'
        PROVE  problems'[editor[v].p].kind = editor[v].kind
    BY <1>4, <1>8, <2>2 DEF IdsGiven, Exists
  <2>3. \A p \in Ids : Exists(p)' => p <= made' BY <1>1, <1>8 DEF IdsGiven
  <2>4. ASSUME NEW v \in Workers
        PROVE  /\ editor'[v].pc \in Saving =>
                    /\ editor'[v].p \in Ids /\ editor'[v].p <= made'
                    /\ editor'[v].op \in {"add", "edit"} /\ editor'[v].kind \in Kinds
                    /\ editor'[v].p \notin retyped' /\ Exists(editor[v].p)' =>
                           problems'[editor'[v].p].kind = editor'[v].kind
               /\ editor'[v].pc = "deleting" => editor'[v].p \in Ids
    <3>1. CASE editor'[v].pc \in Saving \cup {"deleting"} BY <1>1, <2>1, <2>2, <3>1 DEF IdsGiven
    <3>2. CASE editor'[v].pc \notin Saving \cup {"deleting"} BY <3>2
    <3>3. QED BY <3>1, <3>2
  <2>5. QED BY <2>3, <2>4 DEF IdsGiven
<1>10. LockedRowsStand' BY <1>1, <1>2, <1>6 DEF LockedRowsStand
<1>11. SavesFit' BY <1>2, <1>6 DEF SavesFit, Fits
<1>12. SolutionsFit' BY <1>1, <1>4 DEF SolutionsFit, Fits
<1>13. NothingDangles' BY <1>1, <1>8 DEF NothingDangles, Scheduled, InRow
<1>14. QED BY <1>7, <1>9, <1>10, <1>11, <1>12, <1>13

(* Cleaning the history drops rows that no deletion holds.                 *)
LEMMA CleanHistoryInv == ASSUME IInv, NEW w \in Workers, CleanHistory(w) PROVE IInv'
<1> USE DEF IInv
<1>1. /\ UNCHANGED <<problems, made, serial, data, cases, solutions, retyped, today>>
      /\ \A d \in Dates : Old(d) => ~RowLocked(d)
      /\ schedule' = [d \in Dates |-> IF Old(d) THEN Null ELSE schedule[d]]
      /\ editor' = [editor EXCEPT ![w] = NoEditor]
  BY DEF CleanHistory, Close, material
<1>2. NoEditor \in EditorRow /\ NoEditor.pc \notin Saving /\ NoEditor.pc # "deleting"
  BY BlankTypes DEF Saving
<1>3. editor' \in [Workers -> EditorRow] BY <1>1, <1>2 DEF Shapes
<1>4. editor'[w] = NoEditor /\ \A v \in Workers \ {w} : editor'[v] = editor[v]
  BY <1>1 DEF Shapes
<1>5. schedule' \in [Dates -> [Slots -> Ids \cup {Null}] \cup {Null}] BY <1>1 DEF Shapes
<1>6. Shapes' BY <1>1, <1>3, <1>5 DEF Shapes
<1>7. \A p \in Ids : Exists(p)' <=> Exists(p) BY <1>1 DEF Exists
<1>8. ASSUME NEW v \in Workers, editor'[v].pc \in Saving \cup {"deleting"}
      PROVE  editor'[v] = editor[v]
  BY <1>2, <1>4, <1>8
<1>9. IdsGiven'
  <2>1. ASSUME NEW v \in Workers
        PROVE  /\ editor'[v].pc \in Saving =>
                    /\ editor'[v].p \in Ids /\ editor'[v].p <= made'
                    /\ editor'[v].op \in {"add", "edit"} /\ editor'[v].kind \in Kinds
                    /\ editor'[v].p \notin retyped' /\ Exists(editor[v].p)' =>
                           problems'[editor'[v].p].kind = editor'[v].kind
               /\ editor'[v].pc = "deleting" => editor'[v].p \in Ids
    <3>1. CASE editor'[v].pc \in Saving \cup {"deleting"}
      BY <1>1, <1>8, <3>1 DEF IdsGiven, Exists
    <3>2. CASE editor'[v].pc \notin Saving \cup {"deleting"} BY <3>2
    <3>3. QED BY <3>1, <3>2
  <2>2. QED BY <1>1, <1>7, <2>1 DEF IdsGiven
<1>10. LockedRowsStand'
  <2>1. ASSUME NEW v \in Workers, editor'[v].pc = "deleting", NEW d \in editor'[v].locked
        PROVE  schedule'[d] # Null
    <3>1. editor'[v] = editor[v] BY <1>8, <2>1
    <3>2. d \in Dates /\ RowLocked(d) /\ schedule[d] # Null
      BY <2>1, <3>1 DEF RowLocked, LockedRowsStand, Shapes, EditorRow
    <3>3. QED BY <1>1, <3>2
  <2>2. QED BY <2>1 DEF LockedRowsStand
<1>11. SavesFit' BY <1>8 DEF SavesFit, Fits
<1>12. SolutionsFit' BY <1>1 DEF SolutionsFit, Fits
<1>13. NothingDangles'
  <2>1. \A p \in Ids, d \in Dates : InRow(p, d)' => InRow(p, d) BY <1>1 DEF InRow
  <2>2. QED BY <1>1, <1>7, <2>1 DEF NothingDangles, Scheduled
<1>14. QED BY <1>6, <1>9, <1>10, <1>11, <1>12, <1>13

----------------------------------------------------------------------------
(* Datasets, test cases and solutions *)

(* The material of a problem on record changes, and its solutions keep     *)
(* outputs that fit; deletions of it may be marked, one request may go on. *)
LEMMA MaterialInv ==
    ASSUME IInv, UNCHANGED <<problems, made, serial, schedule, today, retyped>>,
           NEW p \in Ids, Exists(p),
           data' \in [Ids -> Nat], cases' \in [Ids -> Nat], solutions' \in [Ids -> SUBSET SolutionRow],
           \A q \in Ids \ {p} : data'[q] = data[q] /\ cases'[q] = cases[q]
                                /\ solutions'[q] = solutions[q],
           p \notin retyped => \A row \in solutions'[p] : Fits(row, problems[p].kind),
           editor' \in [Workers -> EditorRow],
           \A w \in Workers :
              \/ editor'[w].pc \notin Saving \cup {"deleting"}
              \/ /\ editor'[w].pc = editor[w].pc \/ {editor'[w].pc, editor[w].pc} \subseteq Saving
                 /\ editor'[w].p = editor[w].p /\ editor'[w].op = editor[w].op
                 /\ editor'[w].kind = editor[w].kind /\ editor'[w].row = editor[w].row
                 /\ editor'[w].locked = editor[w].locked
    PROVE  IInv'
<1> USE DEF IInv
<1>1. Shapes' BY DEF Shapes
<1>2. \A q \in Ids : Exists(q)' <=> Exists(q) BY DEF Exists
<1>3. ASSUME NEW w \in Workers, editor'[w].pc \in Saving \cup {"deleting"}
      PROVE  /\ editor'[w].pc \in Saving <=> editor[w].pc \in Saving
             /\ editor'[w].pc = "deleting" <=> editor[w].pc = "deleting"
             /\ editor'[w].p = editor[w].p /\ editor'[w].op = editor[w].op
             /\ editor'[w].kind = editor[w].kind /\ editor'[w].row = editor[w].row
             /\ editor'[w].locked = editor[w].locked
  BY <1>3 DEF Saving
<1>4. IdsGiven'
  <2>1. ASSUME NEW w \in Workers
        PROVE  /\ editor'[w].pc \in Saving =>
                    /\ editor'[w].p \in Ids /\ editor'[w].p <= made'
                    /\ editor'[w].op \in {"add", "edit"} /\ editor'[w].kind \in Kinds
                    /\ editor'[w].p \notin retyped' /\ Exists(editor[w].p)' =>
                           problems'[editor'[w].p].kind = editor'[w].kind
               /\ editor'[w].pc = "deleting" => editor'[w].p \in Ids
    <3>1. CASE editor'[w].pc \in Saving \cup {"deleting"}
      BY <1>3, <3>1 DEF IdsGiven, Exists
    <3>2. CASE editor'[w].pc \notin Saving \cup {"deleting"} BY <3>2
    <3>3. QED BY <3>1, <3>2
  <2>2. QED BY <1>2, <2>1 DEF IdsGiven
<1>5. LockedRowsStand' BY <1>3 DEF LockedRowsStand
<1>6. SavesFit' BY <1>3 DEF SavesFit, Fits
<1>7. SolutionsFit'
  <2>1. ASSUME NEW q \in Ids \ retyped, NEW row \in solutions'[q]
        PROVE  Fits(row, problems[q].kind)
    <3>1. CASE q = p BY <3>1
    <3>2. CASE q # p BY <3>2 DEF SolutionsFit
    <3>3. QED BY <3>1, <3>2
  <2>2. QED BY <2>1 DEF SolutionsFit, Fits
<1>8. NothingDangles' BY <1>2 DEF NothingDangles, Scheduled, InRow
<1>9. QED BY <1>1, <1>4, <1>5, <1>6, <1>7, <1>8

(* Another version of a problem's datasets, or none of them left.          *)
LEMMA DataInv ==
    ASSUME IInv, NEW p \in Ids, NEW n \in Nat, data' = [data EXCEPT ![p] = n], Exists(p),
           UNCHANGED <<problems, made, serial, cases, solutions, schedule, today, retyped>>,
           editor' = editor \/ editor' = MarkLate(p)
    PROVE  IInv'
<1> DEFINE Kept(w) ==
        /\ editor'[w].pc = editor[w].pc /\ editor'[w].p = editor[w].p
        /\ editor'[w].op = editor[w].op /\ editor'[w].kind = editor[w].kind
        /\ editor'[w].row = editor[w].row /\ editor'[w].locked = editor[w].locked
<1>1. /\ data' \in [Ids -> Nat] /\ \A q \in Ids \ {p} : data'[q] = data[q]
      /\ cases \in [Ids -> Nat] /\ solutions \in [Ids -> SUBSET SolutionRow]
      /\ editor \in [Workers -> EditorRow]
  BY DEF IInv, Shapes
<1>2. p \notin retyped => \A row \in solutions[p] : Fits(row, problems[p].kind)
  BY DEF IInv, SolutionsFit
<1>3. editor' \in [Workers -> EditorRow] /\ \A w \in Workers : Kept(w)
  BY <1>1, MarkLateKeeps
<1>4. QED BY <1>1, <1>2, <1>3, MaterialInv

LEMMA AddDatasetInv == ASSUME IInv, NEW p \in Ids, AddDataset(p) PROVE IInv'
<1>1. data[p] + 1 \in Nat /\ data' = [data EXCEPT ![p] = data[p] + 1]
  BY DEF AddDataset, IInv, Shapes
<1>2. QED BY <1>1, DataInv DEF AddDataset, calendar

LEMMA EditDatasetInv == ASSUME IInv, NEW p \in Ids, EditDataset(p) PROVE IInv'
<1>1. data[p] + 1 \in Nat /\ data' = [data EXCEPT ![p] = data[p] + 1]
  BY DEF EditDataset, IInv, Shapes
<1>2. QED BY <1>1, DataInv DEF EditDataset, calendar

LEMMA DeleteDatasetInv ==
    ASSUME IInv, NEW p \in Ids, NEW last \in BOOLEAN, DeleteDataset(p, last) PROVE IInv'
<1> DEFINE n == IF last THEN 0 ELSE data[p] + 1
<1>1. n \in Nat /\ data' = [data EXCEPT ![p] = n] BY DEF DeleteDataset, IInv, Shapes
<1>2. Exists(p) BY DEF DeleteDataset, IInv, NothingDangles
<1> HIDE DEF n
<1>3. QED BY <1>1, <1>2, DataInv DEF DeleteDataset, calendar

LEMMA ChangeCasesInv ==
    ASSUME IInv, NEW p \in Ids, NEW n \in Nat, ChangeCases(p, n) PROVE IInv'
<1>1. /\ UNCHANGED <<problems, made, serial, data, solutions, schedule, today, retyped, editor>>
      /\ cases' = [cases EXCEPT ![p] = n] /\ Exists(p)
  BY DEF ChangeCases, calendar
<1>2. /\ cases' \in [Ids -> Nat] /\ \A q \in Ids \ {p} : cases'[q] = cases[q]
      /\ data \in [Ids -> Nat] /\ solutions \in [Ids -> SUBSET SolutionRow]
      /\ editor \in [Workers -> EditorRow]
  BY <1>1 DEF IInv, Shapes
<1>3. p \notin retyped => \A row \in solutions[p] : Fits(row, problems[p].kind)
  BY DEF IInv, SolutionsFit
<1>4. QED BY <1>1, <1>2, <1>3, MaterialInv

LEMMA OpenSaveInv ==
    ASSUME IInv, NEW w \in Workers, NEW p \in Ids, NEW op \in {"add", "edit"},
           NEW code \in Codes \cup {Null}, OpenSave(w, p, op, code)
    PROVE  IInv'
<1> DEFINE kind == problems[p].kind
           pc == IF kind # "sql" /\ code # Null THEN "run" ELSE "look"
           e  == [NoEditor EXCEPT !.pc = pc, !.p = p, !.op = op, !.kind = kind,
                                 !.row = [BlankRow EXCEPT !.code = code]]
           row == [code |-> code, output |-> NoOutput]
<1>1. /\ UNCHANGED <<problems, made, serial, data, cases, solutions, schedule, today, retyped>>
      /\ Exists(p) /\ editor' = [editor EXCEPT ![w] = e]
  BY DEF OpenSave, Serving, material, calendar
<1>2. p <= made BY <1>1 DEF IInv, IdsGiven
<1>3. kind \in Kinds BY <1>1 DEF Exists, IInv, Shapes, ProblemRow
<1>4. row \in SolutionRow /\ row.output = NoOutput BY BlankTypes DEF SolutionRow
<1>5. pc \in {"run", "look"} /\ [BlankRow EXCEPT !.code = code] = row BY DEF BlankRow
<1> HIDE DEF pc, kind, row
<1>6. e.pc \in Saving /\ e.p = p /\ e.op = op /\ e.kind = kind /\ e.row = row
  BY <1>5 DEF Saving, NoEditor
<1>7. e \in EditorRow BY <1>3, <1>4, <1>5, BlankTypes DEF EditorRow, NoEditor
<1> HIDE DEF e
<1>8. e.pc # "deleting" BY <1>6 DEF Saving
<1>9. kind = problems[p].kind BY DEF kind
<1>10. QED BY <1>1, <1>2, <1>3, <1>4, <1>6, <1>7, <1>8, <1>9, EditorStep DEF Fits

(* A save goes on with what it read: an output goes with the code it runs. *)
LEMMA RunReferenceInv ==
    ASSUME IInv, NEW w \in Workers, NEW fails \in BOOLEAN, RunReference(w, fails) PROVE IInv'
<1> DEFINE old == editor[w]
           output == IF old.kind = "pandas" THEN [code |-> old.row.code, data |-> data[old.p]]
                     ELSE NoOutput
           row == [old.row EXCEPT !.output = output]
           e == [old EXCEPT !.pc = "look", !.row = row]
<1>1. UNCHANGED <<problems, made, serial, data, cases, solutions, schedule, today, retyped>>
  BY DEF RunReference, material, calendar
<1>2. /\ old \in EditorRow /\ editor \in [Workers -> EditorRow] /\ old.pc = "run"
      /\ data \in [Ids -> Nat]
  BY DEF RunReference, IInv, Shapes
<1>3. /\ old.p \in Ids /\ old.p <= made /\ old.op \in {"add", "edit"} /\ old.kind \in Kinds
      /\ old.p \notin retyped /\ Exists(old.p) => problems[old.p].kind = old.kind
  BY <1>2 DEF IInv, IdsGiven, Saving
<1>4. old.row \in SolutionRow BY <1>2 DEF EditorRow
<1>5. output \in Output BY <1>2, <1>3, <1>4, BlankTypes DEF Output, SolutionRow
<1>6. output # NoOutput => output.code = old.row.code /\ old.kind = "pandas" OBVIOUS
<1> HIDE DEF output
<1>7. row \in SolutionRow /\ row.output = output /\ row.code = old.row.code
  BY <1>4, <1>5 DEF SolutionRow
<1> HIDE DEF row
<1>8. e \in EditorRow /\ e.pc = "look" /\ e.p = old.p /\ e.op = old.op /\ e.kind = old.kind
      /\ e.row = row
  BY <1>2, <1>7 DEF EditorRow
<1>9. CASE Close(w) BY <1>1, <1>9, CloseInv
<1>10. CASE editor' = [editor EXCEPT ![w] = e]
  <2> HIDE DEF e
  <2>1. e.pc \in Saving /\ e.pc # "deleting" BY <1>8 DEF Saving
  <2>2. Fits(e.row, e.kind) BY <1>6, <1>7, <1>8 DEF Fits
  <2>3. QED BY <1>1, <1>3, <1>8, <1>10, <2>1, <2>2, EditorStep
<1>11. Close(w) \/ editor' = [editor EXCEPT ![w] = e]
  BY DEF RunReference, Produced, output, row
<1>12. QED BY <1>9, <1>10, <1>11

LEMMA LookUpInv == ASSUME IInv, NEW w \in Workers, LookUp(w) PROVE IInv'
<1> DEFINE old == editor[w]
           pc == IF solutions[old.p] = {} THEN "insert" ELSE "update"
           e == [old EXCEPT !.pc = pc]
<1>1. /\ UNCHANGED <<problems, made, serial, data, cases, solutions, schedule, today, retyped>>
      /\ old.pc = "look" /\ editor' = [editor EXCEPT ![w].pc = pc]
  BY DEF LookUp, Goto, material, calendar
<1>2. old \in EditorRow /\ editor \in [Workers -> EditorRow] BY DEF IInv, Shapes
<1>3. /\ old.p \in Ids /\ old.p <= made /\ old.op \in {"add", "edit"} /\ old.kind \in Kinds
      /\ old.p \notin retyped /\ Exists(old.p) => problems[old.p].kind = old.kind
      /\ Fits(old.row, old.kind)
  BY <1>1 DEF IInv, IdsGiven, SavesFit, Saving
<1>4. pc \in {"insert", "update"} OBVIOUS
<1>5. editor' = [editor EXCEPT ![w] = e] BY <1>1, <1>2
<1> HIDE DEF pc
<1>6. e \in EditorRow /\ e.pc = pc /\ e.p = old.p /\ e.op = old.op /\ e.kind = old.kind
      /\ e.row = old.row
  BY <1>2, <1>4 DEF EditorRow
<1> HIDE DEF e
<1>7. e.pc \in Saving /\ e.pc # "deleting" BY <1>4, <1>6 DEF Saving
<1>8. QED BY <1>1, <1>3, <1>5, <1>6, <1>7, EditorStep

LEMMA InsertSolutionInv == ASSUME IInv, NEW w \in Workers, InsertSolution(w) PROVE IInv'
<1> DEFINE old  == editor[w]
           p    == old.p
           next == IF old.op = "add" THEN NoEditor ELSE [old EXCEPT !.pc = "update"]
           new  == IF old.op = "add" THEN old.row ELSE BlankRow
<1>1. /\ UNCHANGED <<problems, made, serial, data, cases, schedule, today, retyped>>
      /\ old.pc = "insert"
  BY DEF InsertSolution, calendar
<1>2. /\ old \in EditorRow /\ editor \in [Workers -> EditorRow] /\ data \in [Ids -> Nat]
      /\ cases \in [Ids -> Nat] /\ solutions \in [Ids -> SUBSET SolutionRow]
  BY DEF IInv, Shapes
<1>3. /\ p \in Ids
      /\ p \notin retyped /\ Exists(p) => problems[p].kind = old.kind
      /\ Fits(old.row, old.kind)
  BY <1>1 DEF IInv, IdsGiven, SavesFit, Saving
<1>4. CASE ~Exists(p)
  <2>1. Close(w) /\ UNCHANGED solutions BY <1>4 DEF InsertSolution
  <2>2. QED BY <1>1, <2>1, CloseInv
<1>5. CASE Exists(p)
  <2>1. /\ solutions' = [solutions EXCEPT ![p] = @ \cup {new}]
        /\ editor' = [MarkLate(p) EXCEPT ![w] = next]
    BY <1>5 DEF InsertSolution
  <2>2. next \in EditorRow /\ (next = NoEditor \/ next = [old EXCEPT !.pc = "update"])
    BY <1>2, BlankTypes DEF EditorRow
  <2>3. next.pc \notin Saving \cup {"deleting"} \/
        (/\ next.pc = "update" /\ next.p = old.p /\ next.op = old.op /\ next.kind = old.kind
         /\ next.row = old.row /\ next.locked = old.locked)
    BY <1>2, <2>2, BlankTypes DEF EditorRow, Saving
  <2>4. new \in SolutionRow /\ Fits(new, old.kind)
    BY <1>2, <1>3, BlankTypes DEF EditorRow, Fits
  <2> HIDE DEF next, new
  <2>5. solutions' \in [Ids -> SUBSET SolutionRow] /\ solutions'[p] = solutions[p] \cup {new}
        /\ \A q \in Ids \ {p} : solutions'[q] = solutions[q]
    BY <1>2, <1>3, <2>1, <2>4
  <2>6. p \notin retyped => \A row \in solutions'[p] : Fits(row, problems[p].kind)
    BY <1>3, <1>5, <2>4, <2>5 DEF IInv, SolutionsFit
  <2>7. editor' \in [Workers -> EditorRow] /\ editor'[w] = next
        /\ \A v \in Workers \ {w} : editor'[v] = MarkLate(p)[v]
    BY <1>3, <2>1, <2>2, MarkLateKeeps
  <2>8. ASSUME NEW v \in Workers
        PROVE  \/ editor'[v].pc \notin Saving \cup {"deleting"}
               \/ /\ editor'[v].pc = editor[v].pc \/ {editor'[v].pc, editor[v].pc} \subseteq Saving
                  /\ editor'[v].p = editor[v].p /\ editor'[v].op = editor[v].op
                  /\ editor'[v].kind = editor[v].kind /\ editor'[v].row = editor[v].row
                  /\ editor'[v].locked = editor[v].locked
    <3>1. CASE v = w BY <1>1, <2>3, <2>7, <3>1 DEF Saving
    <3>2. CASE v # w
      <4>1. editor'[v] = MarkLate(p)[v] BY <2>7, <3>2
      <4>2. QED BY <1>3, <4>1, MarkLateKeeps
    <3>3. QED BY <3>1, <3>2
  <2>9. QED
    <3>1. data' \in [Ids -> Nat] /\ cases' \in [Ids -> Nat]
          /\ \A r \in Ids : data'[r] = data[r] /\ cases'[r] = cases[r]
      BY <1>1, <1>2
    <3>2. QED BY <1>1, <1>3, <1>5, <2>5, <2>6, <2>7, <2>8, <3>1, MaterialInv
<1>6. QED BY <1>4, <1>5

(* An update leaves a row whose output is the saved one, for the saved     *)
(* code, or the row's own, when neither changed or neither counts.         *)
LEMMA MergedFits ==
    ASSUME NEW e \in EditorRow, NEW old \in SolutionRow, e.op \in {"add", "edit"}, e.kind \in Kinds,
           Fits(e.row, e.kind), Fits(old, e.kind)
    PROVE  Fits(Merged(e, old), e.kind)
<1>1. CASE e.op = "add" BY <1>1 DEF Merged
<1>2. CASE e.op # "add"
  <2>1. Merged(e, old) =
            [code   |-> IF e.row.code # Null THEN e.row.code ELSE old.code,
             output |-> IF e.kind = "dsa" \/ (e.kind = "pandas" /\ e.row.code # Null)
                        THEN e.row.output ELSE old.output]
    BY <1>2 DEF Merged
  <2>2. CASE e.kind = "dsa" \/ (e.kind = "pandas" /\ e.row.code # Null)
    BY <2>1, <2>2 DEF Fits
  <2>3. CASE ~(e.kind = "dsa" \/ (e.kind = "pandas" /\ e.row.code # Null))
    BY <2>1, <2>3 DEF Fits
  <2>4. QED BY <2>2, <2>3
<1>3. QED BY <1>1, <1>2

LEMMA MergedType ==
    ASSUME NEW e \in EditorRow, NEW old \in SolutionRow PROVE Merged(e, old) \in SolutionRow
BY DEF Merged, EditorRow, SolutionRow, Output

LEMMA UpdateSolutionInv == ASSUME IInv, NEW w \in Workers, UpdateSolution(w) PROVE IInv'
<1> DEFINE e == editor[w]
           p == e.p
<1>1. /\ UNCHANGED <<problems, made, serial, data, cases, schedule, today, retyped>>
      /\ e.pc = "update" /\ Close(w)
      /\ solutions' = [solutions EXCEPT ![p] = {Merged(e, old) : old \in solutions[p]}]
  BY DEF UpdateSolution, calendar, IInv, Shapes, EditorRow
<1>2. /\ e \in EditorRow /\ editor \in [Workers -> EditorRow] /\ data \in [Ids -> Nat]
      /\ cases \in [Ids -> Nat] /\ solutions \in [Ids -> SUBSET SolutionRow]
  BY DEF IInv, Shapes
<1>3. /\ p \in Ids
      /\ p \notin retyped /\ Exists(p) => problems[p].kind = e.kind
      /\ e.op \in {"add", "edit"} /\ e.kind \in Kinds /\ Fits(e.row, e.kind)
  BY <1>1 DEF IInv, IdsGiven, SavesFit, Saving
<1> HIDE DEF e
<1>4. CASE ~Exists(p)
  <2>1. solutions[p] = {} BY <1>3, <1>4 DEF IInv, NothingDangles
  <2>2. solutions' = solutions BY <1>1, <1>2, <2>1
  <2>3. QED BY <1>1, <2>2, CloseInv
<1>5. CASE Exists(p)
  <2>1. \A old \in solutions[p] : Merged(e, old) \in SolutionRow
    BY <1>2, <1>3, MergedType
  <2>2. solutions' \in [Ids -> SUBSET SolutionRow]
        /\ solutions'[p] = {Merged(e, old) : old \in solutions[p]}
        /\ \A q \in Ids \ {p} : solutions'[q] = solutions[q]
    BY <1>1, <1>2, <1>3, <2>1
  <2>3. ASSUME p \notin retyped, NEW old \in solutions[p]
        PROVE  Fits(Merged(e, old), problems[p].kind)
    <3>1. problems[p].kind = e.kind BY <1>3, <1>5, <2>3
    <3>2. old \in SolutionRow /\ Fits(old, e.kind) BY <1>2, <1>3, <2>3, <3>1 DEF IInv, SolutionsFit
    <3>3. QED BY <1>2, <1>3, <3>1, <3>2, MergedFits
  <2>4. p \notin retyped => \A row \in solutions'[p] : Fits(row, problems[p].kind)
    BY <2>2, <2>3
  <2>5. NoEditor \in EditorRow /\ NoEditor.pc \notin Saving \cup {"deleting"}
    BY BlankTypes DEF Saving
  <2>6. editor' \in [Workers -> EditorRow] /\ editor'[w] = NoEditor
        /\ \A v \in Workers \ {w} : editor'[v] = editor[v]
    BY <1>1, <1>2, <2>5 DEF Close
  <2>7. data' \in [Ids -> Nat] /\ cases' \in [Ids -> Nat]
        /\ \A q \in Ids : data'[q] = data[q] /\ cases'[q] = cases[q]
    BY <1>1, <1>2
  <2>8. ASSUME NEW v \in Workers
        PROVE  \/ editor'[v].pc \notin Saving \cup {"deleting"}
               \/ editor'[v] = editor[v]
    BY <2>5, <2>6
  <2>9. QED BY <1>1, <1>3, <1>5, <2>2, <2>4, <2>6, <2>7, <2>8, MaterialInv
<1>6. QED BY <1>4, <1>5

----------------------------------------------------------------------------
(* Every step *)

LEMMA StutterInv == ASSUME IInv, UNCHANGED contentVars PROVE IInv'
<1>1. problems \in [Ids -> ProblemRow] BY DEF IInv, Shapes
<1>2. QED BY <1>1, ActiveInv DEF contentVars

LEMMA NextInv == IInv /\ [ContentNext]_contentVars => IInv'
<1> SUFFICES ASSUME IInv, [ContentNext]_contentVars PROVE IInv' OBVIOUS
<1>1. CASE LifeNext
  BY <1>1, CreateProblemInv, BeginDeleteInv, CommitDeleteInv, RestartInv DEF LifeNext
<1>2. CASE ScheduleNext /\ ~LifeNext
  <2>1. \A d \in Dates, s \in Slots, p \in Ids \cup {Null} : OneSlot(s, p) \in [Slots -> Ids \cup {Null}]
    BY DEF OneSlot
  <2>2. CASE \E d \in Dates, s \in Slots, p \in Ids \cup {Null} : Schedule(d, OneSlot(s, p))
    BY <2>1, <2>2, ScheduleInv
  <2>3. CASE \E p \in Ids, active \in BOOLEAN : EditActive(p, active) BY <2>3, EditActiveInv
  <2>4. CASE AdminList BY <2>4, AdminListInv
  <2>5. CASE \E w \in Workers : PublishToday(w) \/ CleanHistory(w)
    BY <2>5, PublishTodayInv, CleanHistoryInv
  <2>6. CASE NextDay BY <2>6, NextDayInv
  <2>7. QED BY <1>2, <2>2, <2>3, <2>4, <2>5, <2>6 DEF ScheduleNext
<1>3. CASE AuthorNext /\ ~LifeNext
  <2>1. CASE \E p \in Ids, kind \in Kinds : EditKind(p, kind) BY <2>1, EditKindInv
  <2>2. CASE \/ \E p \in Ids : AddDataset(p) \/ EditDataset(p)
             \/ \E p \in Ids, last \in BOOLEAN : DeleteDataset(p, last)
    BY <2>2, AddDatasetInv, EditDatasetInv, DeleteDatasetInv
  <2>3. CASE \E p \in Ids, n \in 0..1 : ChangeCases(p, n) BY <2>3, ChangeCasesInv
  <2>4. CASE \E w \in Workers, p \in Ids, op \in {"add", "edit"}, code \in Codes \cup {Null} :
                 OpenSave(w, p, op, code)
    BY <2>4, OpenSaveInv
  <2>5. CASE \E w \in Workers, fails \in BOOLEAN : RunReference(w, fails)
    BY <2>5, RunReferenceInv
  <2>6. CASE \E w \in Workers : LookUp(w) \/ InsertSolution(w) \/ UpdateSolution(w)
    BY <2>6, LookUpInv, InsertSolutionInv, UpdateSolutionInv
  <2>7. QED BY <1>3, <2>1, <2>2, <2>3, <2>4, <2>5, <2>6 DEF AuthorNext
<1>4. QED BY <1>1, <1>2, <1>3, StutterInv DEF ContentNext

(* Ids, locked rows and outputs stay in order through every request.       *)
THEOREM ContentInductive == ContentSpec => []IInv
BY InitInv, NextInv, PTL DEF ContentSpec

(* However many requests meet, a problem that is not on record leaves      *)
(* nothing behind and nothing points at it (delete_problem and the saves,  *)
(* schedules and insertions that race with it).                            *)
THEOREM NothingIsLeft == ContentSpec => []NothingDangles
<1>1. IInv => NothingDangles BY DEF IInv
<1>2. QED BY <1>1, ContentInductive, PTL

(* A cached expected output is never that of another code: two saves of    *)
(* one problem may interleave in any order (add_solution, edit_solution).  *)
THEOREM OutputsGoWithCode == ContentSpec => []OutputOfCode
<1>1. IInv => OutputOfCode BY DEF IInv, SolutionsFit, Fits, OutputOfCode
<1>2. QED BY <1>1, ContentInductive, PTL

----------------------------------------------------------------------------
(* Numbers and publication: a second invariant *)

(* The sequence of row_number starts at one, and nothing takes a number    *)
(* back.                                                                   *)
Numbered == \A p \in Ids : Exists(p) => problems[p].num # 0

Settled(p) == problems[p].active \/ p \in withdrawn

(* Between the publication and the cleaning of one request, whatever the   *)
(* cleaning can drop is of a problem that is active or was withdrawn by an *)
(* admin since, or is on a day written since then, too far back.           *)
Published ==
    \A w \in Workers : editor[w].pc = "clean" =>
        /\ editor[w].since <= today /\ today <= editor[w].since + 1
        /\ \A d \in Dates \ backdated, p \in Ids :
               d + Keep <= editor[w].since /\ InRow(p, d) => Settled(p)

OpenInv == IInv /\ Numbered /\ Published

(* What VisibleStays says of a step. *)
Hides(p) == Visible(p) /\ ~Visible(p)'
Excused(p) == \/ ~Exists(p)' \/ p \in withdrawn'
              \/ \E d \in Dates : schedule'[d] # Null /\ schedule'[d] # schedule[d]
              \/ \E d \in backdated : InRow(p, d)
VisibleStep == \A p \in Ids : Hides(p) => Excused(p)

LEMMA DateFacts ==
    ASSUME IInv
    PROVE  /\ today \in Dates /\ today \in Nat /\ Dates \subseteq Nat /\ Keep \in Nat /\ Keep >= 1
           /\ \A w \in Workers : editor[w] \in EditorRow /\ editor[w].since \in Nat
           /\ \A p \in Ids : problems[p] \in ProblemRow
           /\ \A p \in Ids, d \in Dates : InRow(p, d) => Exists(p)
<1>1. today \in Dates /\ \A p \in Ids : problems[p] \in ProblemRow BY DEF IInv, Shapes
<1>2. Dates \subseteq Nat /\ Keep \in Nat /\ Keep >= 1 BY ContentAssumption DEF Dates
<1>3. ASSUME NEW w \in Workers PROVE editor[w] \in EditorRow /\ editor[w].since \in Dates
  <2>1. editor[w] \in EditorRow BY DEF IInv, Shapes
  <2>2. QED BY <2>1 DEF EditorRow
<1>4. ASSUME NEW p \in Ids, NEW d \in Dates, InRow(p, d) PROVE Exists(p)
  <2>1. d \in Scheduled(p) BY <1>4 DEF Scheduled
  <2>2. QED BY <2>1 DEF IInv, NothingDangles
<1>5. QED BY <1>1, <1>2, <1>3, <1>4

LEMMA PublishedKept ==
    ASSUME IInv, Published, today' = today,
           \A w \in Workers : editor'[w].pc = "clean" => editor'[w] = editor[w],
           Cleaning' => \A p \in Ids, d \in Dates \ backdated' : InRow(p, d)' =>
               \/ d + Keep > today
               \/ d \notin backdated /\ InRow(p, d) /\ (Settled(p) => Settled(p)')
    PROVE  Published'
<1> SUFFICES ASSUME NEW w \in Workers, editor'[w].pc = "clean"
             PROVE  /\ editor'[w].since <= today' /\ today' <= editor'[w].since + 1
                    /\ \A d \in Dates \ backdated', p \in Ids :
                           d + Keep <= editor'[w].since /\ InRow(p, d)' => Settled(p)'
  BY DEF Published
<1>1. editor'[w] = editor[w] /\ Cleaning' BY DEF Cleaning
<1>2. /\ editor[w].since <= today /\ today <= editor[w].since + 1
      /\ \A d \in Dates \ backdated, p \in Ids :
             d + Keep <= editor[w].since /\ InRow(p, d) => Settled(p)
  BY <1>1 DEF Published
<1>3. ASSUME NEW d \in Dates \ backdated', NEW p \in Ids, d + Keep <= editor[w].since, InRow(p, d)'
      PROVE  Settled(p)'
  <2>1. ~(d + Keep > today) BY <1>2, <1>3, DateFacts
  <2>2. d \notin backdated /\ InRow(p, d) /\ (Settled(p) => Settled(p)') BY <1>1, <1>3, <2>1
  <2>3. QED BY <1>2, <1>3, <2>2
<1>4. QED BY <1>1, <1>2, <1>3

(* A step of a request that changes neither problems nor schedule.         *)
Quiet == /\ UNCHANGED <<problems, schedule, withdrawn, today>>
         /\ \A w \in Workers : editor'[w].pc = "clean" => editor'[w] = editor[w]
         /\ Cleaning' => backdated' = backdated

LEMMA QuietStep == ASSUME OpenInv, Quiet PROVE Numbered' /\ Published' /\ VisibleStep
<1>1. Numbered' BY DEF Quiet, OpenInv, Numbered, Exists
<1>2. \A p \in Ids, d \in Dates : InRow(p, d)' => InRow(p, d) /\ (Settled(p) => Settled(p)')
  BY DEF Quiet, InRow, Settled
<1>3. Published' BY <1>2, PublishedKept DEF Quiet, OpenInv
<1>4. VisibleStep
  BY DEF Quiet, VisibleStep, Hides, Visible, Exists, Due, Scheduled, InRow
<1>5. QED BY <1>1, <1>3, <1>4

(* Problems change, the schedule and the day do not: who is hidden was     *)
(* withdrawn or deleted.                                                   *)
LEMMA ProblemsStep ==
    ASSUME OpenInv, UNCHANGED <<schedule, today, backdated>>,
           \A w \in Workers : editor'[w].pc = "clean" => editor'[w] = editor[w],
           \A p \in Ids : Exists(p)' => problems'[p].num # 0,
           \A p \in Ids : Exists(p) /\ Exists(p)' /\ Settled(p) => Settled(p)',
           \A p \in Ids : Exists(p) => Exists(p)',
           \A p \in Ids : Exists(p) /\ problems[p].active => problems'[p].active \/ p \in withdrawn'
    PROVE  Numbered' /\ Published' /\ VisibleStep
<1>1. Numbered' BY DEF Numbered
<1>2. \A p \in Ids, d \in Dates : InRow(p, d)' <=> InRow(p, d) BY DEF InRow
<1>3. \A p \in Ids, d \in Dates : InRow(p, d)' => InRow(p, d) /\ (Settled(p) => Settled(p)')
  BY <1>2, DateFacts DEF OpenInv
<1>4. Published' BY <1>3, PublishedKept DEF OpenInv
<1>5. ASSUME NEW p \in Ids, Hides(p) PROVE Excused(p)
  <2>1. Exists(p) /\ Exists(p)' BY <1>5 DEF Hides, Visible
  <2>2. Due(p)' <=> Due(p) BY <1>2 DEF Due, Scheduled
  <2>3. problems[p].active /\ ~problems'[p].active BY <1>5, <2>1, <2>2 DEF Hides, Visible
  <2>4. QED BY <2>1, <2>3 DEF Excused
<1>6. QED BY <1>1, <1>4, <1>5 DEF VisibleStep

LEMMA CreateOpen ==
    ASSUME OpenInv, NEW kind \in Kinds, NEW active \in BOOLEAN, CreateProblem(kind, active)
    PROVE  Numbered' /\ Published' /\ VisibleStep
<1> DEFINE n   == made + 1
           row == [kind |-> kind, active |-> active, num |-> serial + 1]
<1>1. /\ made \in Nat /\ serial \in Nat /\ n \in Ids /\ problems \in [Ids -> ProblemRow]
      /\ problems' = [problems EXCEPT ![n] = row]
      /\ UNCHANGED <<schedule, today, backdated, editor, withdrawn>>
  BY ContentAssumption DEF CreateProblem, OpenInv, IInv, Shapes, Ids, material, calendar
<1>2. row.kind # Null /\ row.num # 0 /\ row.kind = kind BY <1>1, NullFacts
<1>3. ~Exists(n) BY <1>1 DEF OpenInv, IInv, IdsGiven
<1> HIDE DEF row, n
<1>4. problems'[n] = row /\ \A p \in Ids \ {n} : problems'[p] = problems[p] BY <1>1
<1>5. \A p \in Ids : Exists(p) => p # n /\ problems'[p] = problems[p] BY <1>3, <1>4
<1>6. \A p \in Ids : Exists(p) => Exists(p)' BY <1>5 DEF Exists
<1>7. \A p \in Ids : Exists(p)' => problems'[p].num # 0
  BY <1>2, <1>4 DEF Exists, OpenInv, Numbered
<1>8. \A p \in Ids : Exists(p) /\ Settled(p) => Settled(p)' BY <1>1, <1>5 DEF Settled
<1>9. \A p \in Ids : Exists(p) /\ problems[p].active => problems'[p].active BY <1>5
<1>10. QED BY <1>1, <1>6, <1>7, <1>8, <1>9, ProblemsStep

LEMMA EditActiveOpen ==
    ASSUME OpenInv, NEW p \in Ids, NEW active \in BOOLEAN, EditActive(p, active)
    PROVE  Numbered' /\ Published' /\ VisibleStep
<1> DEFINE row == [problems[p] EXCEPT !.active = active]
<1>1. /\ problems \in [Ids -> ProblemRow] /\ problems[p] \in ProblemRow
      /\ UNCHANGED <<schedule, today, backdated, editor>>
      /\ withdrawn' = IF active THEN withdrawn \ {p} ELSE withdrawn \cup {p}
  BY DEF OpenInv, IInv, Shapes, EditActive, calendar
<1>2. /\ row.kind = problems[p].kind /\ row.num = problems[p].num /\ row.active = active
  BY <1>1 DEF ProblemRow
<1>3. problems' = [problems EXCEPT ![p] = row] BY <1>1 DEF EditActive
<1> HIDE DEF row
<1>4. problems'[p] = row /\ \A q \in Ids \ {p} : problems'[q] = problems[q] BY <1>1, <1>3
<1>5. \A q \in Ids : problems'[q].kind = problems[q].kind /\ problems'[q].num = problems[q].num
  BY <1>2, <1>4
<1>6. \A q \in Ids : Exists(q)' <=> Exists(q) BY <1>5 DEF Exists
<1>7. \A q \in Ids : Settled(q) => Settled(q)' BY <1>1, <1>2, <1>4 DEF Settled
<1>8. \A q \in Ids : problems[q].active => problems'[q].active \/ q \in withdrawn'
  BY <1>1, <1>2, <1>4
<1>9. QED BY <1>1, <1>5, <1>6, <1>7, <1>8, ProblemsStep DEF OpenInv, Numbered

LEMMA EditKindOpen ==
    ASSUME OpenInv, NEW p \in Ids, NEW kind \in Kinds, EditKind(p, kind)
    PROVE  Numbered' /\ Published' /\ VisibleStep
<1> DEFINE row == [problems[p] EXCEPT !.kind = kind]
<1>1. /\ problems \in [Ids -> ProblemRow] /\ problems[p] \in ProblemRow /\ Exists(p)
      /\ UNCHANGED <<schedule, today, backdated, editor, withdrawn>>
  BY DEF OpenInv, IInv, Shapes, EditKind, calendar
<1>2. row.kind # Null /\ row.num = problems[p].num /\ row.active = problems[p].active
  BY <1>1, NullFacts DEF ProblemRow
<1>3. problems' = [problems EXCEPT ![p] = row] BY <1>1 DEF EditKind
<1> HIDE DEF row
<1>4. problems'[p] = row /\ \A q \in Ids \ {p} : problems'[q] = problems[q] BY <1>1, <1>3
<1>5. \A q \in Ids : problems'[q].active = problems[q].active /\ problems'[q].num = problems[q].num
  BY <1>2, <1>4
<1>6. \A q \in Ids : Exists(q)' <=> Exists(q) BY <1>1, <1>2, <1>4 DEF Exists
<1>7. \A q \in Ids : Settled(q) => Settled(q)' BY <1>1, <1>5 DEF Settled
<1>8. QED BY <1>1, <1>5, <1>6, <1>7, ProblemsStep DEF OpenInv, Numbered

(* What PublishDue does to one problem. *)
LEMMA PublishDueEffect ==
    ASSUME OpenInv, NEW S, PublishDue(S)
    PROVE  /\ \A p \in Ids : /\ problems'[p].kind = problems[p].kind
                             /\ problems'[p].num = problems[p].num
                             /\ problems[p].active => problems'[p].active
                             /\ Exists(p) /\ DueIn(p, S) => problems'[p].active
           /\ \A p \in Ids : Settled(p) => Settled(p)'
<1> DEFINE due == {p \in Ids : Exists(p) /\ DueIn(p, S)}
<1>1. /\ problems' = [p \in Ids |-> [problems[p] EXCEPT !.active = @ \/ p \in due]]
      /\ withdrawn' = withdrawn \ due
  BY DEF PublishDue
<1>2. \A p \in Ids : p \in due <=> Exists(p) /\ DueIn(p, S) OBVIOUS
<1> HIDE DEF due
<1>3. ASSUME NEW p \in Ids
      PROVE  /\ problems'[p].kind = problems[p].kind /\ problems'[p].num = problems[p].num
             /\ p \in due => problems'[p].active
             /\ p \notin due => problems'[p] = problems[p]
             /\ problems[p].active => problems'[p].active
  <2>1. problems[p] \in ProblemRow BY DEF OpenInv, IInv, Shapes
  <2>2. CASE p \in due
    <3>1. problems'[p] = [problems[p] EXCEPT !.active = problems[p].active \/ TRUE] BY <1>1, <2>2
    <3>2. QED BY <2>1, <2>2, <3>1 DEF ProblemRow
  <2>3. CASE p \notin due
    <3>1. problems'[p] = [problems[p] EXCEPT !.active = problems[p].active \/ FALSE] BY <1>1, <2>3
    <3>2. problems'[p] = problems[p] BY <2>1, <3>1 DEF ProblemRow
    <3>3. QED BY <2>3, <3>2
  <2>4. QED BY <2>2, <2>3
<1>4. \A p \in Ids : Settled(p) => Settled(p)' BY <1>1, <1>3 DEF Settled
<1>5. QED BY <1>2, <1>3, <1>4

LEMMA AdminListOpen == ASSUME OpenInv, AdminList PROVE Numbered' /\ Published' /\ VisibleStep
<1>1. PublishDue(Slots \ {"dsa"}) /\ UNCHANGED <<schedule, today, backdated, editor>> BY DEF AdminList, calendar
<1>2. \A p \in Ids : /\ problems'[p].kind = problems[p].kind /\ problems'[p].num = problems[p].num
                     /\ problems[p].active => problems'[p].active
  BY <1>1, PublishDueEffect
<1>3. \A p \in Ids : Settled(p) => Settled(p)' BY <1>1, PublishDueEffect
<1>4. \A p \in Ids : Exists(p)' <=> Exists(p) BY <1>2 DEF Exists
<1>5. QED BY <1>1, <1>2, <1>3, <1>4, ProblemsStep DEF OpenInv, Numbered

(* Whatever is due is active once a request has published it.              *)
LEMMA PublishTodayOpen ==
    ASSUME OpenInv, NEW w \in Workers, PublishToday(w)
    PROVE  Numbered' /\ Published' /\ VisibleStep
<1> DEFINE e == [NoEditor EXCEPT !.pc = "clean", !.since = today]
<1>1. PublishDue(Slots) /\ UNCHANGED <<schedule, today>> BY DEF PublishToday
<1>2. editor \in [Workers -> EditorRow] /\ editor' = [editor EXCEPT ![w] = e]
  BY DEF PublishToday, Serving, OpenInv, IInv, Shapes
<1>3. e.since = today BY DEF NoEditor
<1> HIDE DEF e
<1>4. editor'[w] = e /\ \A v \in Workers \ {w} : editor'[v] = editor[v] BY <1>2
<1>5. \A p \in Ids : /\ problems'[p].kind = problems[p].kind /\ problems'[p].num = problems[p].num
                     /\ problems[p].active => problems'[p].active
                     /\ Exists(p) /\ DueIn(p, Slots) => problems'[p].active
  BY <1>1, PublishDueEffect
<1>6. \A p \in Ids : Settled(p) => Settled(p)' BY <1>1, PublishDueEffect
<1>7. \A p \in Ids : Exists(p)' <=> Exists(p) BY <1>5 DEF Exists
<1>8. Numbered' BY <1>5, <1>7 DEF OpenInv, Numbered
<1>9. \A p \in Ids, d \in Dates : InRow(p, d)' <=> InRow(p, d) BY <1>1 DEF InRow
<1>10. Published'
  <2> SUFFICES ASSUME NEW v \in Workers, editor'[v].pc = "clean"
               PROVE  /\ editor'[v].since <= today /\ today <= editor'[v].since + 1
                      /\ \A d \in Dates, p \in Ids :
                             d + Keep <= editor'[v].since /\ InRow(p, d) => Settled(p)'
    BY <1>1, <1>9 DEF Published
  <2>1. /\ editor'[v].since <= today /\ today <= editor'[v].since + 1
        /\ editor'[v].since \in Nat /\ today \in Nat
    <3>1. CASE v # w BY <3>1, <1>4, DateFacts DEF OpenInv, Published
    <3>2. CASE v = w BY <3>2, <1>3, <1>4, DateFacts DEF OpenInv
    <3>3. QED BY <3>1, <3>2
  <2>2. ASSUME NEW d \in Dates, NEW p \in Ids, d + Keep <= editor'[v].since, InRow(p, d)
        PROVE  Settled(p)'
    <3>1. Exists(p) /\ d <= today BY <2>1, <2>2, DateFacts DEF OpenInv
    <3>2. DueIn(p, Slots) BY <2>2, <3>1 DEF DueIn, InRow
    <3>3. QED BY <3>1, <3>2, <1>5 DEF Settled
  <2>3. QED BY <2>1, <2>2
<1>11. VisibleStep
  <2>1. \A p \in Ids : Due(p)' <=> Due(p) BY <1>1, <1>9 DEF Due, Scheduled
  <2>2. QED BY <1>5, <1>7, <2>1 DEF VisibleStep, Hides, Visible
<1>12. QED BY <1>8, <1>10, <1>11

LEMMA NextDayOpen == ASSUME OpenInv, NextDay PROVE Numbered' /\ Published' /\ VisibleStep
<1>1. /\ UNCHANGED <<problems, schedule, editor, withdrawn, backdated>> /\ today' = today + 1
      /\ \A w \in Workers : editor[w].pc = "clean" => editor[w].since = today
  BY DEF NextDay
<1>2. Numbered' BY <1>1 DEF OpenInv, Numbered, Exists
<1>3. \A p \in Ids, d \in Dates : InRow(p, d)' <=> InRow(p, d) BY <1>1 DEF InRow
<1>4. today \in Nat /\ Dates \subseteq Nat BY DateFacts DEF OpenInv
<1>5. Published'
  <2> SUFFICES ASSUME NEW v \in Workers, editor[v].pc = "clean"
               PROVE  /\ editor[v].since <= today + 1 /\ today + 1 <= editor[v].since + 1
                      /\ \A d \in Dates \ backdated, p \in Ids :
                             d + Keep <= editor[v].since /\ InRow(p, d) => Settled(p)
    BY <1>1, <1>3 DEF Published, Settled
  <2>1. editor[v].since = today BY <1>1
  <2>2. editor[v].since <= today + 1 /\ today + 1 <= editor[v].since + 1 BY <1>4, <2>1
  <2>3. \A d \in Dates \ backdated, p \in Ids :
            d + Keep <= editor[v].since /\ InRow(p, d) => Settled(p)
    BY DEF OpenInv, Published
  <2>4. QED BY <2>2, <2>3
<1>6. VisibleStep
  <2>1. \A p \in Ids : Due(p) => Due(p)'
    <3> SUFFICES ASSUME NEW p \in Ids, NEW d \in Dates, InRow(p, d), d <= today PROVE Due(p)'
      BY DEF Due, Scheduled
    <3>1. d <= today' BY <1>1, <1>4
    <3>2. QED BY <1>3, <3>1 DEF Due, Scheduled
  <2>2. QED BY <1>1, <2>1 DEF VisibleStep, Hides, Visible, Exists
<1>7. QED BY <1>2, <1>5, <1>6

(* The deletion of one problem takes no other problem's days.              *)
LEMMA CommitDeleteOpen ==
    ASSUME OpenInv, NEW w \in Workers, CommitDelete(w)
    PROVE  Numbered' /\ Published' /\ VisibleStep
<1> DEFINE p      == editor[w].p
           locked == editor[w].locked
<1>1. p \in Ids BY DEF CommitDelete, OpenInv, IInv, IdsGiven
<1>2. editor' = [editor EXCEPT ![w] = NoEditor] /\ editor \in [Workers -> EditorRow]
  BY DEF CommitDelete, Close, OpenInv, IInv, Shapes
<1>3. \A v \in Workers : editor'[v].pc = "clean" => editor'[v] = editor[v] BY <1>2, BlankTypes
<1>4. CASE Refused(w)
  <2>1. Quiet BY <1>3, <1>4 DEF CommitDelete, Quiet
  <2>2. QED BY <2>1, QuietStep
<1>5. CASE ~Refused(w)
  <2>1. /\ problems' = [problems EXCEPT ![p] = NoProblem]
        /\ schedule' = [d \in Dates |->
               IF d \in locked
               THEN [s \in Slots |-> IF schedule[d][s] = p THEN Null ELSE schedule[d][s]]
               ELSE schedule[d]]
        /\ UNCHANGED <<today, withdrawn, backdated>>
    BY <1>5 DEF CommitDelete
  <2>2. \A d \in locked : schedule[d] # Null BY DEF CommitDelete, OpenInv, IInv, LockedRowsStand
  <2> HIDE DEF p, locked
  <2>3. /\ problems'[p] = NoProblem
        /\ \A q \in Ids \ {p} : problems'[q] = problems[q]
    BY <1>1, <2>1 DEF OpenInv, IInv, Shapes
  <2>4. \A q \in Ids : Exists(q)' <=> (Exists(q) /\ q # p) BY <2>3, BlankTypes DEF Exists
  <2>5. ASSUME NEW q \in Ids, NEW d \in Dates, InRow(q, d)' PROVE InRow(q, d) /\ Exists(q)
    <3>1. PICK s \in Slots : schedule'[d][s] = q BY <2>5 DEF InRow
    <3>2. schedule[d][s] = q BY <2>1, <3>1, NullFacts
    <3>3. schedule[d] # Null BY <2>1, <2>2, <2>5 DEF InRow
    <3>4. InRow(q, d) BY <3>2, <3>3 DEF InRow
    <3>5. QED BY <3>4, DateFacts DEF OpenInv
  <2>6. ASSUME NEW q \in Ids, NEW d \in Dates, InRow(q, d), q # p PROVE InRow(q, d)'
    <3>1. PICK s \in Slots : schedule[d][s] = q BY <2>6 DEF InRow
    <3>2. schedule'[d][s] = q BY <2>1, <2>6, <3>1
    <3>3. schedule'[d] # Null
      <4>1. CASE d \in locked
        <5>1. schedule[d] \in [Slots -> Ids \cup {Null}]
          BY <2>6 DEF InRow, OpenInv, IInv, Shapes
        <5>2. schedule'[d] = [t \in Slots |-> IF schedule[d][t] = p THEN Null ELSE schedule[d][t]]
          BY <2>1, <4>1
        <5>3. schedule'[d] \in [Slots -> Ids \cup {Null}] BY <5>1, <5>2
        <5>4. QED BY <5>3, ContentAssumption
      <4>2. CASE d \notin locked BY <2>1, <2>6, <4>2 DEF InRow
      <4>3. QED BY <4>1, <4>2
    <3>4. QED BY <3>2, <3>3 DEF InRow
  <2>7. ASSUME NEW q \in Ids, NEW d \in Dates, InRow(q, d)' PROVE q # p
    <3>1. CASE d \in locked
      <4>1. PICK s \in Slots : schedule'[d][s] = q BY <2>7 DEF InRow
      <4>2. schedule'[d] = [t \in Slots |-> IF schedule[d][t] = p THEN Null ELSE schedule[d][t]]
        BY <2>1, <3>1
      <4>3. QED BY <4>1, <4>2, NullFacts
    <3>2. CASE d \notin locked
      <4>1. schedule'[d] = schedule[d] BY <2>1, <3>2
      <4>2. InRow(q, d) BY <2>7, <4>1 DEF InRow
      <4>3. Scheduled(p) \subseteq locked BY <1>5 DEF Refused, p, locked
      <4>4. QED BY <3>2, <4>2, <4>3 DEF Scheduled
    <3>3. QED BY <3>1, <3>2
  <2>8. Numbered' BY <2>3, <2>4 DEF OpenInv, Numbered
  <2>9. Published'
    <3>1. \A q \in Ids, d \in Dates : InRow(q, d)' => InRow(q, d) /\ (Settled(q) => Settled(q)')
      BY <2>1, <2>3, <2>5, <2>7 DEF Settled
    <3>2. today' = today /\ backdated' = backdated BY <2>1
    <3>3. QED BY <1>3, <3>1, <3>2, PublishedKept DEF OpenInv
  <2>10. VisibleStep
    <3> SUFFICES ASSUME NEW q \in Ids, Visible(q), ~Visible(q)' PROVE ~Exists(q)'
      BY DEF VisibleStep, Hides, Excused
    <3>1. CASE q = p BY <3>1, <2>4
    <3>2. CASE q # p
      <4>1. problems'[q] = problems[q] /\ (Exists(q)' <=> Exists(q)) BY <3>2, <2>3, <2>4
      <4>2. Due(q) => Due(q)' BY <3>2, <2>1, <2>6 DEF Due, Scheduled
      <4>3. QED BY <4>1, <4>2 DEF Visible
    <3>3. QED BY <3>1, <3>2
  <2>11. QED BY <2>8, <2>9, <2>10
<1>6. QED BY <1>4, <1>5

(* The row of a date is replaced: this is the admin's doing.               *)
LEMMA ScheduleOpen ==
    ASSUME OpenInv, NEW d \in Dates, NEW row \in [Slots -> Ids \cup {Null}], Schedule(d, row)
    PROVE  Numbered' /\ Published' /\ VisibleStep
<1>1. /\ schedule' = [schedule EXCEPT ![d] = row]
      /\ backdated' = IF Cleaning /\ FarBack(d) THEN backdated \cup {d} ELSE backdated \ {d}
      /\ UNCHANGED <<problems, editor, today, withdrawn>>
  BY DEF Schedule
<1>2. schedule'[d] = row /\ \A c \in Dates \ {d} : schedule'[c] = schedule[c]
  BY <1>1 DEF OpenInv, IInv, Shapes
<1>3. row # Null BY ContentAssumption
<1>4. Numbered' BY <1>1 DEF OpenInv, Numbered, Exists
<1>5. Published'
  <2>1. ASSUME Cleaning', NEW p \in Ids, NEW c \in Dates \ backdated', InRow(p, c)'
        PROVE  \/ c + Keep > today
               \/ c \notin backdated /\ InRow(p, c) /\ (Settled(p) => Settled(p)')
    <3>1. Cleaning BY <1>1, <2>1 DEF Cleaning
    <3>2. CASE c = d
      <4>1. ~FarBack(d) BY <1>1, <2>1, <3>1, <3>2
      <4>2. c + Keep > today BY <3>2, <4>1, DateFacts DEF FarBack, OpenInv
      <4>3. QED BY <4>2
    <3>3. CASE c # d BY <3>3, <1>1, <1>2, <2>1 DEF InRow, Settled
    <3>4. QED BY <3>2, <3>3
  <2>2. QED BY <1>1, <2>1, PublishedKept DEF OpenInv
<1>6. VisibleStep
  <2> SUFFICES ASSUME NEW p \in Ids, Visible(p), ~Visible(p)'
               PROVE  \E c \in Dates : schedule'[c] # Null /\ schedule'[c] # schedule[c]
    BY DEF VisibleStep, Hides, Excused
  <2>1. Due(p) /\ ~Due(p)' BY <1>1 DEF Visible, Exists
  <2>2. PICK c \in Dates : InRow(p, c) /\ c <= today BY <2>1 DEF Due, Scheduled
  <2>3. ~InRow(p, c)' BY <1>1, <2>1, <2>2 DEF Due, Scheduled
  <2>4. schedule'[c] # schedule[c] BY <2>2, <2>3 DEF InRow
  <2>5. c = d BY <1>2, <2>4
  <2>6. QED BY <1>2, <1>3, <2>4, <2>5
<1>7. QED BY <1>4, <1>5, <1>6

(* The cleaning may come after midnight and after other requests; still,   *)
(* what it drops had been published.                                       *)
LEMMA CleanHistoryOpen ==
    ASSUME OpenInv, NEW w \in Workers, CleanHistory(w)
    PROVE  Numbered' /\ Published' /\ VisibleStep
<1>1. /\ UNCHANGED <<problems, today, withdrawn>> /\ editor[w].pc = "clean"
      /\ schedule' = [d \in Dates |-> IF Old(d) THEN Null ELSE schedule[d]]
      /\ editor' = [editor EXCEPT ![w] = NoEditor]
      /\ backdated' = IF \E v \in Workers \ {w} : editor[v].pc = "clean" THEN backdated ELSE {}
  BY DEF CleanHistory, Close
<1>2. editor \in [Workers -> EditorRow] BY DEF OpenInv, IInv, Shapes
<1>3. \A v \in Workers : editor'[v].pc = "clean" => editor'[v] = editor[v]
  BY <1>1, <1>2, BlankTypes
<1>4. Numbered' BY <1>1 DEF OpenInv, Numbered, Exists
<1>5. \A p \in Ids, d \in Dates : InRow(p, d)' => InRow(p, d) BY <1>1 DEF InRow
<1>6. Published'
  <2>1. \A p \in Ids, d \in Dates : InRow(p, d)' => InRow(p, d) /\ (Settled(p) => Settled(p)')
    BY <1>1, <1>5 DEF Settled
  <2>2. ASSUME Cleaning' PROVE backdated' = backdated
    <3>1. PICK v \in Workers : editor'[v].pc = "clean" BY <2>2 DEF Cleaning
    <3>2. v # w /\ editor[v].pc = "clean" BY <3>1, <1>1, <1>2, <1>3, BlankTypes
    <3>3. QED BY <3>2, <1>1
  <2>3. QED BY <1>1, <1>3, <2>1, <2>2, PublishedKept DEF OpenInv
<1>7. VisibleStep
  <2> SUFFICES ASSUME NEW p \in Ids, Visible(p), ~Visible(p)', \A d \in backdated : ~InRow(p, d)
               PROVE  p \in withdrawn'
    BY DEF VisibleStep, Hides, Excused
  <2>1. Exists(p) /\ ~problems[p].active /\ Due(p) /\ ~Due(p)' BY <1>1 DEF Visible, Exists
  <2>2. PICK d \in Dates : InRow(p, d) /\ d <= today BY <2>1 DEF Due, Scheduled
  <2>3. ~InRow(p, d)' BY <1>1, <2>1, <2>2 DEF Due, Scheduled
  <2>4. Old(d) BY <1>1, <2>2, <2>3 DEF InRow
  <2>5. /\ today <= editor[w].since + 1
        /\ \A c \in Dates \ backdated, q \in Ids :
               c + Keep <= editor[w].since /\ InRow(q, c) => Settled(q)
    BY <1>1 DEF OpenInv, Published
  <2>6. d \in Nat /\ Keep \in Nat /\ today \in Nat /\ editor[w].since \in Nat BY DateFacts DEF OpenInv
  <2>7. d + Keep <= editor[w].since BY <2>4, <2>5, <2>6 DEF Old
  <2>8. Settled(p) BY <2>2, <2>5, <2>7
  <2>9. QED BY <1>1, <2>1, <2>8 DEF Settled
<1>8. QED BY <1>4, <1>6, <1>7

----------------------------------------------------------------------------
(* One request goes on, or another comes, without touching a problem.      *)
LEMMA EditorQuiet ==
    ASSUME OpenInv, UNCHANGED <<problems, schedule, withdrawn, today, backdated>>,
           NEW w \in Workers, NEW e, e.pc # "clean", editor' = [editor EXCEPT ![w] = e]
    PROVE  Quiet
<1>1. editor \in [Workers -> EditorRow] BY DEF OpenInv, IInv, Shapes
<1>2. editor'[w] = e /\ \A v \in Workers \ {w} : editor'[v] = editor[v] BY <1>1
<1>3. QED BY <1>2 DEF Quiet

LEMMA BeginDeleteQuiet ==
    ASSUME OpenInv, NEW w \in Workers, NEW p \in Ids, BeginDelete(w, p) PROVE Quiet
<1> DEFINE e == [NoEditor EXCEPT !.pc = "deleting", !.p = p, !.locked = Scheduled(p)]
<1>1. e.pc # "clean" BY DEF NoEditor
<1>2. editor' = [editor EXCEPT ![w] = e] /\ UNCHANGED <<problems, schedule, withdrawn, today, backdated>>
  BY DEF BeginDelete, Serving, calendar
<1>3. QED BY <1>1, <1>2, EditorQuiet

LEMMA RestartQuiet == ASSUME OpenInv, Restart PROVE Quiet
BY BlankTypes DEF Restart, Quiet, Cleaning

LEMMA MarkedClean ==
    ASSUME OpenInv, NEW p \in Ids, NEW w \in Workers, MarkLate(p)[w].pc = "clean"
    PROVE  MarkLate(p)[w] = editor[w]
<1>1. editor[w].pc = "clean" BY MarkLateKeeps DEF OpenInv
<1>2. QED BY <1>1 DEF MarkLate, Deleting

LEMMA AddDatasetQuiet == ASSUME OpenInv, NEW p \in Ids, AddDataset(p) PROVE Quiet
BY MarkedClean DEF AddDataset, Quiet, calendar

LEMMA EditDatasetQuiet == ASSUME OpenInv, NEW p \in Ids, EditDataset(p) PROVE Quiet
BY DEF EditDataset, Quiet, calendar

LEMMA DeleteDatasetQuiet ==
    ASSUME OpenInv, NEW p \in Ids, NEW last, DeleteDataset(p, last) PROVE Quiet
BY DEF DeleteDataset, Quiet, calendar

LEMMA ChangeCasesQuiet ==
    ASSUME OpenInv, NEW p \in Ids, NEW n, ChangeCases(p, n) PROVE Quiet
BY DEF ChangeCases, Quiet, calendar

LEMMA OpenSaveQuiet ==
    ASSUME OpenInv, NEW w \in Workers, NEW p \in Ids, NEW op, NEW code, OpenSave(w, p, op, code)
    PROVE  Quiet
<1> DEFINE pc == IF problems[p].kind # "sql" /\ code # Null THEN "run" ELSE "look"
           e  == [NoEditor EXCEPT !.pc = pc, !.p = p, !.op = op, !.kind = problems[p].kind,
                                 !.row = [BlankRow EXCEPT !.code = code]]
<1>1. e.pc # "clean" BY DEF NoEditor
<1>2. editor' = [editor EXCEPT ![w] = e] /\ UNCHANGED <<problems, schedule, withdrawn, today, backdated>>
  BY DEF OpenSave, Serving, calendar
<1>3. QED BY <1>1, <1>2, EditorQuiet

LEMMA CloseQuiet ==
    ASSUME OpenInv, NEW w \in Workers, Close(w), UNCHANGED <<problems, schedule, withdrawn, today, backdated>>
    PROVE  Quiet
<1>1. NoEditor.pc # "clean" BY BlankTypes
<1>2. QED BY <1>1, EditorQuiet DEF Close

LEMMA RunReferenceQuiet ==
    ASSUME OpenInv, NEW w \in Workers, NEW fails \in BOOLEAN, RunReference(w, fails) PROVE Quiet
<1> DEFINE e == [editor[w] EXCEPT !.pc = "look", !.row = Produced(editor[w])]
<1>1. UNCHANGED <<problems, schedule, withdrawn, today, backdated>> BY DEF RunReference, calendar
<1>2. Close(w) \/ editor' = [editor EXCEPT ![w] = e] BY DEF RunReference
<1>3. e.pc = "look"
  <2>1. editor[w] \in EditorRow BY DateFacts DEF OpenInv
  <2>2. QED BY <2>1 DEF EditorRow
<1>4. QED BY <1>1, <1>2, <1>3, CloseQuiet, EditorQuiet

LEMMA LookUpQuiet == ASSUME OpenInv, NEW w \in Workers, LookUp(w) PROVE Quiet
<1> DEFINE pc == IF solutions[editor[w].p] = {} THEN "insert" ELSE "update"
           e == [editor[w] EXCEPT !.pc = pc]
<1>1. UNCHANGED <<problems, schedule, withdrawn, today, backdated>> BY DEF LookUp, calendar
<1>2. editor[w] \in EditorRow /\ editor \in [Workers -> EditorRow]
  BY DEF OpenInv, IInv, Shapes
<1>3. editor' = [editor EXCEPT ![w] = e] BY <1>2 DEF LookUp, Goto
<1>4. e.pc # "clean" BY <1>2 DEF EditorRow
<1> HIDE DEF e, pc
<1>5. QED BY <1>1, <1>3, <1>4, EditorQuiet

LEMMA InsertSolutionQuiet ==
    ASSUME OpenInv, NEW w \in Workers, InsertSolution(w) PROVE Quiet
<1> DEFINE old  == editor[w]
           next == IF old.op = "add" THEN NoEditor ELSE [old EXCEPT !.pc = "update"]
<1>1. UNCHANGED <<problems, schedule, withdrawn, today, backdated>> BY DEF InsertSolution, calendar
<1>2. CASE ~Exists(old.p)
  <2>1. Close(w) BY <1>2 DEF InsertSolution
  <2>2. QED BY <1>1, <2>1, CloseQuiet
<1>3. CASE Exists(old.p)
  <2>1. editor' = [MarkLate(old.p) EXCEPT ![w] = next] BY <1>3 DEF InsertSolution
  <2>2. old \in EditorRow BY DateFacts DEF OpenInv
  <2>3. next.pc # "clean" BY <2>2, BlankTypes DEF EditorRow
  <2>4. old.p \in Ids BY DEF InsertSolution, OpenInv, IInv, IdsGiven, Saving
  <2>5. MarkLate(old.p) \in [Workers -> EditorRow] BY <2>4, MarkLateKeeps DEF OpenInv
  <2> HIDE DEF next
  <2>6. editor'[w] = next /\ \A v \in Workers \ {w} : editor'[v] = MarkLate(old.p)[v]
    BY <2>1, <2>5
  <2>7. \A v \in Workers : editor'[v].pc = "clean" => editor'[v] = editor[v]
    BY <2>3, <2>4, <2>6, MarkedClean
  <2>8. QED BY <1>1, <2>7 DEF Quiet
<1>4. QED BY <1>2, <1>3

LEMMA UpdateSolutionQuiet ==
    ASSUME OpenInv, NEW w \in Workers, UpdateSolution(w) PROVE Quiet
BY CloseQuiet DEF UpdateSolution, calendar

----------------------------------------------------------------------------
LEMMA OpenNext == OpenInv /\ [ContentNext]_contentVars => OpenInv' /\ VisibleStep
<1> SUFFICES ASSUME OpenInv, [ContentNext]_contentVars PROVE OpenInv' /\ VisibleStep OBVIOUS
<1>0. IInv' BY NextInv DEF OpenInv
<1>1. Numbered' /\ Published' /\ VisibleStep
  <2>1. CASE LifeNext
    <3>1. ASSUME NEW w \in Workers, NEW p \in Ids, BeginDelete(w, p)
          PROVE  Numbered' /\ Published' /\ VisibleStep
      BY <3>1, BeginDeleteQuiet, QuietStep
    <3>2. CASE Restart BY <3>2, RestartQuiet, QuietStep
    <3>3. QED BY <2>1, <3>1, <3>2, CreateOpen, CommitDeleteOpen DEF LifeNext
  <2>2. CASE ScheduleNext /\ ~LifeNext
    <3>1. \A d \in Dates, s \in Slots, p \in Ids \cup {Null} :
              OneSlot(s, p) \in [Slots -> Ids \cup {Null}]
      BY DEF OneSlot
    <3>2. CASE \E d \in Dates, s \in Slots, p \in Ids \cup {Null} : Schedule(d, OneSlot(s, p))
      BY <3>1, <3>2, ScheduleOpen
    <3>3. CASE \E p \in Ids, active \in BOOLEAN : EditActive(p, active) BY <3>3, EditActiveOpen
    <3>4. CASE AdminList BY <3>4, AdminListOpen
    <3>5. CASE \E w \in Workers : PublishToday(w) \/ CleanHistory(w)
      BY <3>5, PublishTodayOpen, CleanHistoryOpen
    <3>6. CASE NextDay BY <3>6, NextDayOpen
    <3>7. QED BY <2>2, <3>2, <3>3, <3>4, <3>5, <3>6 DEF ScheduleNext
  <2>3. CASE AuthorNext /\ ~LifeNext
    <3>1. CASE \E p \in Ids, kind \in Kinds : EditKind(p, kind) BY <3>1, EditKindOpen
    <3>2. CASE \/ \E p \in Ids : AddDataset(p) \/ EditDataset(p)
               \/ \E p \in Ids, last \in BOOLEAN : DeleteDataset(p, last)
      BY <3>2, AddDatasetQuiet, EditDatasetQuiet, DeleteDatasetQuiet, QuietStep
    <3>3. CASE \E p \in Ids, n \in 0..1 : ChangeCases(p, n) BY <3>3, ChangeCasesQuiet, QuietStep
    <3>4. CASE \E w \in Workers, p \in Ids, op \in {"add", "edit"}, code \in Codes \cup {Null} :
                   OpenSave(w, p, op, code)
      BY <3>4, OpenSaveQuiet, QuietStep
    <3>5. CASE \E w \in Workers, fails \in BOOLEAN : RunReference(w, fails)
      BY <3>5, RunReferenceQuiet, QuietStep
    <3>6. CASE \E w \in Workers : LookUp(w) \/ InsertSolution(w) \/ UpdateSolution(w)
      BY <3>6, LookUpQuiet, InsertSolutionQuiet, UpdateSolutionQuiet, QuietStep
    <3>7. QED BY <2>3, <3>1, <3>2, <3>3, <3>4, <3>5, <3>6 DEF AuthorNext
  <2>4. CASE UNCHANGED contentVars
    <3>1. Quiet BY <2>4 DEF contentVars, Quiet
    <3>2. QED BY <3>1, QuietStep
  <2>5. QED BY <2>1, <2>2, <2>3, <2>4 DEF ContentNext
<1>2. QED BY <1>0, <1>1 DEF OpenInv

(* Numbers and publication stay in order through every request.            *)
THEOREM OpenInductive == ContentSpec => []OpenInv
<1>1. ContentInit => OpenInv
  <2>1. ContentInit => Numbered /\ Published
    BY BlankTypes DEF ContentInit, Numbered, Published, Exists
  <2>2. QED BY <2>1, InitInv DEF OpenInv
<1>2. QED BY <1>1, OpenNext, PTL DEF ContentSpec

(* The list locks exactly what the problem page refuses, and of what it    *)
(* locks no route gives away anything, for every free limit and any number *)
(* of problems: every problem has its number, so that the list's own index *)
(* is never used (list_problems, get_problem, get_problem_datasets,        *)
(* get_expected_output and get_public_solution of user/router.py).         *)
THEOREM ListAndGateAgree == ContentSpec => []ListMatchesGate
<1>1. OpenInv => ListMatchesGate
  <2> SUFFICES ASSUME OpenInv, NEW p \in Ids, NEW paid \in BOOLEAN, Visible(p)
               PROVE  /\ Locked(p, paid) <=> ~OpensProblem(p, paid)
                      /\ Locked(p, paid) => /\ ~OpensDatasets(p, paid) /\ ~OpensExpected(p, paid)
                                            /\ ~OpensSolution(p, paid)
    BY DEF ListMatchesGate
  <2>1. Exists(p) /\ problems[p].num # 0 BY DEF Visible, OpenInv, Numbered
  <2>2. Number(p) = problems[p].num /\ ListNumber(p) = problems[p].num
    BY <2>1 DEF Number, ListNumber
  <2>3. Locked(p, paid) <=> ~Admits(p, paid) BY <2>2 DEF Locked, NeedsPaid, Admits
  <2>4. QED BY <2>1, <2>3 DEF OpensProblem, OpensDatasets, OpensExpected, OpensSolution
<1>2. QED BY <1>1, OpenInductive, PTL

(* What was published stays: neither the calendar, nor midnight between    *)
(* the publication and the cleaning, nor the deletion of another problem   *)
(* hides it, only an admin does, or the cleaning of a day long gone that   *)
(* an admin wrote after that request's publication (get_today_practice,    *)
(* schedule_daily_practice, delete_problem).                               *)
THEOREM PublishedStays == ContentSpec => VisibleStays
<1>1. OpenInv /\ [ContentNext]_contentVars =>
          [\A p \in Ids : Visible(p) /\ ~Visible(p)' =>
               \/ ~Exists(p)' \/ p \in withdrawn'
               \/ \E d \in Dates : schedule'[d] # Null /\ schedule'[d] # schedule[d]
               \/ \E d \in backdated : InRow(p, d)]_contentVars
  BY OpenNext DEF VisibleStep, Hides, Excused
<1>2. QED BY <1>1, OpenInductive, PTL DEF ContentSpec, VisibleStays
=============================================================================
