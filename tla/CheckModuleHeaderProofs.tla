---------------------- MODULE CheckModuleHeaderProofs -----------------------
(***************************************************************************)
(* Proofs about CheckModuleHeader, for any headers and functions and any   *)
(* number of edits and runs.                                               *)
(***************************************************************************)
EXTENDS CheckModuleHeader, SequenceTheorems, FiniteSetTheorems, TLAPS

(* The header being checked, step by step.                                 *)
StepInv ==
  /\ pc \in {"resize", "rewrite"} => current \in Marked
  /\ pc = "resize" => methods = Declared(work[current])
  /\ pc = "rewrite" => /\ work[current].late = <<>>
                       /\ methods = work[current].decls \o erased[current]
  /\ pc \in {"format", "diff"} /\ current \in Marked =>
       /\ work[current].late = <<>>
       /\ work[current].listed # Cut
       /\ work[current].listed = work[current].decls \o erased[current]
  /\ pc = "diff" => work[current].tidy

(* What is done and what is left to do.                                    *)
WorkInv ==
  /\ asked = todo \cup checked \cup (IF pc = "next" THEN {} ELSE {current})
  /\ todo \cap checked = {}
  /\ pc # "next" => current \notin todo \cup checked

(* The verdicts so far.                                                    *)
CodeInv ==
  /\ code <= Cardinality(checked) + 1
  /\ code = 0 => \A h \in compared : work[h] = index[h]

HeaderInv ==
  /\ TypeOK
  /\ StepInv
  /\ CheckedAreFixed
  /\ pc # "idle" => WorkInv /\ CodeInv /\ status = NoStatus

-----------------------------------------------------------------------------
(* Headers and lists. *)

LEMMA DeclaredIsSequence == ASSUME NEW f \in File PROVE Declared(f) \in Seq(Method)
<1>1. f.decls \in Seq(Method) /\ f.late \in Seq(Method)
  BY DEF File
<1> QED
  BY <1>1, ConcatProperties DEF Declared

LEMMA WithoutIsSequence ==
  ASSUME NEW S, NEW ms \in Seq(S), NEW m PROVE Without(ms, m) \in Seq(S)
<1>1. CASE Contains(ms, m)
  <2> DEFINE k == CHOOSE i \in 1 .. Len(ms) : ms[i] = m
             n == Len(ms)
  <2>1. k \in 1 .. n
    BY <1>1 DEF Contains
  <2>2. n \in Nat /\ \A i \in 1 .. n : ms[i] \in S
    BY LenProperties, ElementOfSeq
  <2>3. Without(ms, m) = SubSeq(ms, 1, k - 1) \o SubSeq(ms, k + 1, n)
    BY <1>1 DEF Without, RemoveAt
  <2> HIDE DEF k, n
  <2>4. k - 1 \in Int /\ k + 1 \in Int /\ 1 \in Int /\ n \in Int
    BY <2>1, <2>2
  <2>5. (\A i \in 1 .. k - 1 : ms[i] \in S) /\ (\A i \in k + 1 .. n : ms[i] \in S)
    BY <2>1, <2>2
  <2>6. SubSeq(ms, 1, k - 1) \in Seq(S)
    BY <2>4, <2>5, SubSeqProperties
  <2>7. SubSeq(ms, k + 1, n) \in Seq(S)
    BY <2>4, <2>5, SubSeqProperties
  <2> QED
    BY <2>3, <2>6, <2>7, ConcatProperties
<1>2. CASE ~Contains(ms, m)
  BY <1>2 DEF Without
<1> QED
  BY <1>1, <1>2

LEMMA FileIs == ASSUME HeaderInv, NEW h \in Header PROVE work[h] \in File /\ index[h] \in File
BY DEF HeaderInv, TypeOK

LEMMA NoneErasedType == NoneErased \in [Header -> Seq(Method)]
<1>1. <<>> \in Seq(Method)
  BY EmptySeq
<1> QED
  BY <1>1 DEF NoneErased

-----------------------------------------------------------------------------
(* The developers. *)

LEMMA EditedKeeps ==
  ASSUME HeaderInv, Edited, work' \in [Header -> File], index' \in [Header -> File]
  PROVE  HeaderInv'
<1>1. pc = "idle" /\ pc' = "idle" /\ checked' = {} /\ compared' = {} /\ status' = NoStatus
      /\ erased' = NoneErased
      /\ UNCHANGED <<asked, todo, current, methods, code>>
      /\ edits' \in 0 .. MaxEdits
  BY EditsAssumption DEF Edited, run, HeaderInv, TypeOK
<1>2. TypeOK'
  BY <1>1, NoneErasedType DEF HeaderInv, TypeOK
<1>3. StepInv' /\ CheckedAreFixed'
  BY <1>1 DEF StepInv, CheckedAreFixed
<1> QED
  BY <1>1, <1>2, <1>3 DEF HeaderInv

LEMMA SaveKeeps ==
  ASSUME HeaderInv, NEW h \in Header, NEW f \in File, Save(h, f) PROVE HeaderInv'
<1>1. /\ work' = [work EXCEPT ![h] = f] /\ index' = index /\ Edited
      /\ work \in [Header -> File] /\ index \in [Header -> File]
  BY DEF Save, HeaderInv, TypeOK
<1>2. work' \in [Header -> File] /\ index' \in [Header -> File]
  BY <1>1
<1> QED
  BY <1>1, <1>2, EditedKeeps

LEMMA DeclareKeeps ==
  ASSUME HeaderInv, NEW h \in Header, NEW m \in Method, Declare(h, m) PROVE HeaderInv'
<1> DEFINE f == work[h]
<1>1. PICK t \in BOOLEAN : Save(h, [f EXCEPT !.decls = Append(@, m), !.tidy = t])
  BY DEF Declare
<1>2. f \in File
  BY FileIs
<1> HIDE DEF f
<1>3. Append(f.decls, m) \in Seq(Method)
  BY <1>2, AppendProperties DEF File
<1>4. [f EXCEPT !.decls = Append(@, m), !.tidy = t] \in File
  BY <1>2, <1>3 DEF File
<1> QED
  BY <1>1, <1>4, SaveKeeps

LEMMA DeclareLateKeeps ==
  ASSUME HeaderInv, NEW h \in Header, NEW m \in Method, DeclareLate(h, m) PROVE HeaderInv'
<1> DEFINE f == work[h]
<1>1. Save(h, [f EXCEPT !.late = Append(@, m)])
  BY DEF DeclareLate
<1>2. f \in File
  BY FileIs
<1> HIDE DEF f
<1>3. Append(f.late, m) \in Seq(Method)
  BY <1>2, AppendProperties DEF File
<1>4. [f EXCEPT !.late = Append(@, m)] \in File
  BY <1>2, <1>3 DEF File
<1> QED
  BY <1>1, <1>4, SaveKeeps

LEMMA UndeclareKeeps ==
  ASSUME HeaderInv, NEW h \in Header, NEW m \in Method, Undeclare(h, m) PROVE HeaderInv'
<1> DEFINE f == work[h]
<1>1. Save(h, [f EXCEPT !.decls = Without(@, m), !.late = Without(@, m)])
  BY DEF Undeclare
<1>2. f \in File
  BY FileIs
<1> HIDE DEF f
<1>3. Without(f.decls, m) \in Seq(Method) /\ Without(f.late, m) \in Seq(Method)
  BY <1>2, WithoutIsSequence DEF File
<1>4. [f EXCEPT !.decls = Without(@, m), !.late = Without(@, m)] \in File
  BY <1>2, <1>3 DEF File
<1> QED
  BY <1>1, <1>4, SaveKeeps

LEMMA EditListKeeps ==
  ASSUME HeaderInv, NEW h \in Header, NEW m \in Method, EditList(h, m) PROVE HeaderInv'
<1> DEFINE f == work[h]
           ms == IF Contains(f.listed, m) THEN Without(f.listed, m) ELSE Append(f.listed, m)
<1>1. f.listed # Cut /\ Save(h, [f EXCEPT !.listed = ms])
  BY DEF EditList
<1>2. f \in File
  BY FileIs
<1>3. f.listed \in Seq(Method)
  BY <1>1, <1>2 DEF File
<1> HIDE DEF f
<1>4. ms \in Seq(Method)
  BY <1>3, WithoutIsSequence, AppendProperties
<1> HIDE DEF ms
<1>5. [f EXCEPT !.listed = ms] \in File
  BY <1>2, <1>4 DEF File
<1> QED
  BY <1>1, <1>5, SaveKeeps

LEMMA StageKeeps == ASSUME HeaderInv, NEW h \in Header, Stage(h) PROVE HeaderInv'
<1>1. /\ index' = [index EXCEPT ![h] = work[h]] /\ work' = work /\ Edited
      /\ work \in [Header -> File] /\ index \in [Header -> File]
  BY DEF Stage, HeaderInv, TypeOK
<1>2. work' \in [Header -> File] /\ index' \in [Header -> File]
  BY <1>1
<1> QED
  BY <1>1, <1>2, EditedKeeps

LEMMA RestoreKeeps == ASSUME HeaderInv, NEW h \in Header, Restore(h) PROVE HeaderInv'
BY FileIs, SaveKeeps DEF Restore

-----------------------------------------------------------------------------
(* The tool. *)

LEMMA StartKeeps ==
  ASSUME HeaderInv, NEW hs \in SUBSET Header, NEW missing \in 0 .. 1, Start(hs, missing)
  PROVE  HeaderInv'
<1>1. /\ pc = "idle" /\ pc' = "next" /\ asked' \subseteq Header /\ todo' = asked'
      /\ code' = missing /\ checked' = {} /\ compared' = {} /\ status' = NoStatus
      /\ erased' = NoneErased
      /\ UNCHANGED <<work, index, edits, current, methods>>
  BY DEF Start
<1>2. TypeOK'
  BY <1>1, NoneErasedType DEF HeaderInv, TypeOK
<1>3. StepInv' /\ CheckedAreFixed'
  BY <1>1 DEF HeaderInv, StepInv, CheckedAreFixed
<1>4. WorkInv'
  BY <1>1 DEF WorkInv
<1>5. CodeInv'
  <2>1. Cardinality(checked') = 0
    BY <1>1, FS_EmptySet
  <2> QED
    BY <1>1, <2>1 DEF CodeInv
<1> QED
  BY <1>1, <1>2, <1>3, <1>4, <1>5 DEF HeaderInv

LEMMA RefuseKeeps == ASSUME HeaderInv, Refuse PROVE HeaderInv'
<1>1. /\ pc = "idle" /\ pc' = "idle" /\ checked' = {} /\ compared' = {}
      /\ asked' = {} /\ todo' = {} /\ erased' = NoneErased /\ status' = 1
      /\ UNCHANGED <<work, index, edits, current, methods, code>>
  BY DEF Refuse
<1>2. TypeOK'
  BY <1>1, NoneErasedType DEF HeaderInv, TypeOK
<1>3. StepInv' /\ CheckedAreFixed'
  BY <1>1 DEF StepInv, CheckedAreFixed
<1> QED
  BY <1>1, <1>2, <1>3 DEF HeaderInv

LEMMA ExitKeeps ==
  ASSUME HeaderInv, NEW value \in Nat, Exit(value), UNCHANGED work PROVE HeaderInv'
<1>1. /\ pc' = "idle" /\ todo' = {} /\ methods' = <<>> /\ code' = 0
      /\ status' = value % 256 /\ value % 256 \in 0 .. 255
      /\ UNCHANGED <<work, index, edits, asked, current, checked, compared, erased>>
  BY DEF Exit
<1>2. TypeOK'
  BY <1>1, EmptySeq DEF HeaderInv, TypeOK
<1>3. StepInv' /\ CheckedAreFixed'
  BY <1>1 DEF HeaderInv, StepInv, CheckedAreFixed, IsFixed
<1> QED
  BY <1>1, <1>2, <1>3 DEF HeaderInv

LEMMA InterruptKeeps == ASSUME HeaderInv, Interrupt PROVE HeaderInv'
<1>1. /\ pc' = "idle" /\ todo' = {} /\ methods' = <<>> /\ code' = 0
      /\ UNCHANGED <<work, index, edits, asked, current, checked, compared, erased, status>>
  BY DEF Interrupt, verdicts
<1>2. TypeOK'
  BY <1>1, EmptySeq DEF HeaderInv, TypeOK
<1>3. StepInv' /\ CheckedAreFixed'
  BY <1>1 DEF HeaderInv, StepInv, CheckedAreFixed, IsFixed
<1> QED
  BY <1>1, <1>2, <1>3 DEF HeaderInv

LEMMA ScanKeeps == ASSUME HeaderInv, NEW h \in Header, Scan(h) PROVE HeaderInv'
<1>1. /\ pc = "next" /\ h \in todo /\ current' = h /\ todo' = todo \ {h}
      /\ methods' = Declared(work[h])
      /\ pc' = IF h \in Marked THEN "resize" ELSE "format"
      /\ UNCHANGED <<work, index, edits, asked, code, checked, compared, status, erased>>
  BY DEF Scan, ScanGoingTo, verdicts
<1>2. Declared(work[h]) \in Seq(Method)
  BY FileIs, DeclaredIsSequence
<1>3. TypeOK'
  BY <1>1, <1>2 DEF HeaderInv, TypeOK
<1>4. CheckedAreFixed' /\ StepInv'
  BY <1>1 DEF HeaderInv, StepInv, CheckedAreFixed, IsFixed
<1>5. WorkInv' /\ CodeInv' /\ status' = NoStatus
  BY <1>1 DEF HeaderInv, WorkInv, CodeInv
<1> QED
  BY <1>3, <1>4, <1>5 DEF HeaderInv

(* A step that only rewrites the header being checked.                     *)
LEMMA WriteKeeps ==
  ASSUME HeaderInv, NEW f \in File, NEW ms \in Seq(Method),
         pc \in {"resize", "rewrite", "format"}, pc' \in {"rewrite", "format", "diff"},
         work' = [work EXCEPT ![current] = f], erased' = [erased EXCEPT ![current] = ms],
         StepInv', UNCHANGED <<index, edits, run, verdicts>>
  PROVE  HeaderInv'
<1>1. /\ current \in Header /\ work \in [Header -> File] /\ erased \in [Header -> Seq(Method)]
      /\ UNCHANGED <<asked, todo, current, methods, code, checked, compared, status>>
      /\ current \notin checked /\ checked \subseteq Header /\ compared \subseteq checked
  BY DEF run, verdicts, HeaderInv, TypeOK, WorkInv
<1>2. \A h \in Header : h # current => work'[h] = work[h] /\ erased'[h] = erased[h]
  BY <1>1
<1>3. TypeOK'
  <2>1. work' \in [Header -> File] /\ erased' \in [Header -> Seq(Method)]
    BY <1>1
  <2>2. pc' \in {"format", "diff"} /\ current' \in Marked => work'[current'].listed # Cut
    BY DEF StepInv
  <2> QED
    BY <1>1, <2>1, <2>2 DEF HeaderInv, TypeOK
<1>4. CheckedAreFixed'
  <2> SUFFICES ASSUME NEW h \in checked \cap Marked PROVE IsFixed(h, work[h])'
    BY <1>1 DEF CheckedAreFixed
  <2>1. work'[h] = work[h] /\ erased'[h] = erased[h] /\ IsFixed(h, work[h])
    BY <1>1, <1>2 DEF HeaderInv, CheckedAreFixed
  <2> QED
    BY <2>1 DEF IsFixed
<1>5. WorkInv' /\ CodeInv' /\ status' = NoStatus
  <2>1. WorkInv /\ CodeInv /\ status = NoStatus
    BY DEF HeaderInv
  <2>2. WorkInv' /\ status' = NoStatus
    BY <1>1, <2>1 DEF WorkInv
  <2>3. \A h \in compared : work'[h] = work[h]
    BY <1>1, <1>2
  <2>4. CodeInv'
    BY <1>1, <2>1, <2>3 DEF CodeInv
  <2> QED
    BY <2>1, <2>2, <2>4
<1> QED
  BY <1>3, <1>4, <1>5 DEF HeaderInv

LEMMA ErasedSame ==
  ASSUME HeaderInv, UNCHANGED erased
  PROVE  erased' = [erased EXCEPT ![current] = erased[current]] /\ erased[current] \in Seq(Method)
BY DEF HeaderInv, TypeOK

LEMMA ResizeKeeps == ASSUME HeaderInv, Resize PROVE HeaderInv'
<1> DEFINE f == work[current]
           g == [f EXCEPT !.listed = Cut, !.late = <<>>]
<1>1. /\ pc = "resize" /\ pc' = "rewrite" /\ work' = [work EXCEPT ![current] = g]
      /\ erased' = [erased EXCEPT ![current] = f.late]
      /\ UNCHANGED <<index, edits, run, verdicts>>
  BY DEF Resize
<1>2. /\ current \in Header /\ work \in [Header -> File] /\ current \in Marked
      /\ erased \in [Header -> Seq(Method)]
      /\ methods = f.decls \o f.late
  BY <1>1 DEF HeaderInv, TypeOK, StepInv, Declared
<1>3. f \in File
  BY <1>2, FileIs
<1>4. /\ work'[current] = g /\ erased'[current] = f.late
      /\ current' = current /\ methods' = methods
  BY <1>1, <1>2 DEF run
<1> HIDE DEF f
<1>5. g \in File /\ g.late = <<>> /\ g.decls = f.decls /\ f.late \in Seq(Method)
  BY <1>3, EmptySeq DEF File
<1> HIDE DEF g
<1>6. StepInv'
  BY <1>1, <1>2, <1>4, <1>5 DEF StepInv
<1> QED
  BY <1>1, <1>5, <1>6, WriteKeeps

LEMMA RewriteKeeps == ASSUME HeaderInv, Rewrite PROVE HeaderInv'
<1> DEFINE f == work[current]
           g == [f EXCEPT !.listed = methods, !.tidy = FALSE]
<1>1. /\ pc = "rewrite" /\ pc' = "format" /\ work' = [work EXCEPT ![current] = g]
      /\ UNCHANGED <<index, edits, run, verdicts, erased>>
  BY DEF Rewrite
<1>2. /\ current \in Header /\ work \in [Header -> File] /\ current \in Marked
      /\ methods \in Seq(Method) /\ f.late = <<>> /\ methods = f.decls \o erased[current]
  BY <1>1 DEF HeaderInv, TypeOK, StepInv
<1>3. f \in File
  BY <1>2, FileIs
<1>4. /\ work'[current] = g /\ erased'[current] = erased[current]
      /\ current' = current /\ methods' = methods
  BY <1>1, <1>2 DEF run
<1> HIDE DEF f
<1>5. g \in File /\ g.late = f.late /\ g.decls = f.decls /\ g.listed = methods
  BY <1>2, <1>3 DEF File
<1> HIDE DEF g
<1>6. g.listed # Cut
  BY <1>2, <1>5, MethodAssumption
<1>7. StepInv'
  BY <1>1, <1>2, <1>4, <1>5, <1>6 DEF StepInv
<1> QED
  BY <1>1, <1>5, <1>7, ErasedSame, WriteKeeps

LEMMA FormatKeeps ==
  ASSUME HeaderInv, NEW s \in FormatStatus, Format(s) PROVE HeaderInv'
<1>1. CASE s = 0
  <2> DEFINE f == work[current]
             g == [f EXCEPT !.tidy = TRUE]
  <2>1. /\ pc = "format" /\ pc' = "diff" /\ work' = [work EXCEPT ![current] = g]
        /\ UNCHANGED <<index, edits, run, verdicts, erased>>
    BY <1>1 DEF Format, FormatExiting
  <2>2. /\ current \in Header /\ work \in [Header -> File]
        /\ current \in Marked =>
             f.late = <<>> /\ f.listed # Cut /\ f.listed = f.decls \o erased[current]
    BY <2>1 DEF HeaderInv, TypeOK, StepInv
  <2>3. f \in File
    BY <2>2, FileIs
  <2>4. work'[current] = g /\ erased'[current] = erased[current] /\ current' = current
    BY <2>1, <2>2 DEF run
  <2> HIDE DEF f
  <2>5. g \in File /\ g.late = f.late /\ g.decls = f.decls /\ g.listed = f.listed /\ g.tidy
    BY <2>3 DEF File
  <2> HIDE DEF g
  <2>6. StepInv'
    BY <2>1, <2>2, <2>4, <2>5 DEF StepInv
  <2> QED
    BY <2>1, <2>5, <2>6, ErasedSame, WriteKeeps
<1>2. CASE s # 0
  BY <1>2, ExitKeeps, StatusAssumption DEF Format, FormatExiting
<1> QED
  BY <1>1, <1>2

LEMMA DiffKeeps == ASSUME HeaderInv, Diff PROVE HeaderInv'
<1>1. /\ pc = "diff" /\ pc' = "next"
      /\ \/ /\ code' = IF work[current] # index[current] THEN code + 1 ELSE code
            /\ compared' = compared \cup {current}
         \/ code' = code /\ compared' = compared
      /\ checked' = checked \cup {current}
      /\ UNCHANGED <<work, index, edits, asked, todo, current, methods, erased, status>>
  BY DEF Diff, DiffCounting
<1>2. WorkInv /\ CodeInv /\ status = NoStatus /\ TypeOK /\ StepInv /\ CheckedAreFixed
  BY <1>1 DEF HeaderInv
<1>3. WorkInv'
  BY <1>1, <1>2 DEF WorkInv
<1>4. TypeOK'
  <2>1. checked' \subseteq asked' /\ compared' \subseteq checked' /\ code' \in Nat
    BY <1>1, <1>2 DEF TypeOK, WorkInv
  <2> QED
    BY <1>1, <1>2, <2>1 DEF TypeOK
<1>5. CheckedAreFixed'
  BY <1>1, <1>2 DEF CheckedAreFixed, StepInv, IsFixed
<1>6. CodeInv'
  <2>1. checked \subseteq Header /\ current \notin checked /\ code \in Nat
    BY <1>1, <1>2 DEF TypeOK, WorkInv
  <2>2. /\ IsFiniteSet(checked) /\ Cardinality(checked) \in Nat
        /\ Cardinality(checked') = Cardinality(checked) + 1
    <3>1. IsFiniteSet(checked)
      BY <2>1, HeaderAssumption, FS_Subset
    <3> QED
      BY <1>1, <2>1, <3>1, FS_CardinalityType, FS_AddElement
  <2> QED
    BY <1>1, <1>2, <2>1, <2>2 DEF CodeInv
<1>7. StepInv'
  BY <1>1, <1>2 DEF StepInv
<1> QED
  BY <1>1, <1>2, <1>3, <1>4, <1>5, <1>6, <1>7 DEF HeaderInv

LEMMA InitHeaderInv == Init => HeaderInv
<1> SUFFICES ASSUME Init PROVE HeaderInv
  OBVIOUS
<1>1. PICK m \in [Header -> Method \ Misnamed] :
        work = [h \in Header |-> [decls |-> <<m[h]>>, listed |-> <<m[h]>>,
                                  late |-> <<>>, tidy |-> TRUE]]
  BY DEF Init
<1>2. ASSUME NEW h \in Header
      PROVE  [decls |-> <<m[h]>>, listed |-> <<m[h]>>, late |-> <<>>, tidy |-> TRUE] \in File
  <2>1. m[h] \in Method
    BY <1>1
  <2>2. <<m[h]>> \in Seq(Method) /\ <<>> \in Seq(Method)
    BY <2>1
  <2> QED
    BY <1>1, <2>2 DEF File
<1>3. work \in [Header -> File] /\ index = work
  BY <1>1, <1>2 DEF Init
<1>4. TypeOK
  BY <1>3, EmptySeq, EditsAssumption, NoneErasedType DEF Init, TypeOK
<1>5. StepInv /\ CheckedAreFixed
  BY DEF Init, StepInv, CheckedAreFixed
<1> QED
  BY <1>4, <1>5 DEF Init, HeaderInv

LEMMA UnchangedKeeps == ASSUME HeaderInv, UNCHANGED vars PROVE HeaderInv'
BY DEF vars, run, verdicts, HeaderInv, TypeOK, StepInv, CheckedAreFixed, IsFixed, WorkInv, CodeInv

LEMMA NextHeaderInv == HeaderInv /\ [Next]_vars => HeaderInv'
<1> SUFFICES ASSUME HeaderInv, [Next]_vars PROVE HeaderInv'
  OBVIOUS
<1>1. ASSUME NEW h \in Header, NEW m \in Method,
             Declare(h, m) \/ DeclareLate(h, m) \/ Undeclare(h, m) \/ EditList(h, m)
      PROVE  HeaderInv'
  BY <1>1, DeclareKeeps, DeclareLateKeeps, UndeclareKeeps, EditListKeeps
<1>2. ASSUME NEW h \in Header, Stage(h) \/ Restore(h) PROVE HeaderInv'
  BY <1>2, StageKeeps, RestoreKeeps
<1>3. ASSUME NEW hs \in SUBSET Header, NEW missing \in 0 .. 1, Start(hs, missing)
      PROVE  HeaderInv'
  BY <1>3, StartKeeps
<1>4. ASSUME NEW h \in Header, Scan(h) PROVE HeaderInv'
  BY <1>4, ScanKeeps
<1>5. ASSUME NEW h \in Header, Abort(h) PROVE HeaderInv'
  BY <1>5, ExitKeeps DEF Abort
<1>6. CASE RewriteNothing
  BY <1>6, ExitKeeps DEF RewriteNothing
<1>7. ASSUME NEW s \in FormatStatus, Format(s) PROVE HeaderInv'
  BY <1>7, FormatKeeps
<1>8. CASE Return
  BY <1>8, ExitKeeps DEF Return, HeaderInv, TypeOK
<1>9. CASE DiffThrows
  BY <1>9, ExitKeeps DEF DiffThrows
<1> QED
  BY <1>1, <1>2, <1>3, <1>4, <1>5, <1>6, <1>7, <1>8, <1>9, RefuseKeeps, ResizeKeeps, RewriteKeeps,
     DiffKeeps, InterruptKeeps, UnchangedKeeps DEF Next

(* Whatever developers edit, stage and restore and wherever runs end: the  *)
(* headers a run is done with are up to date, and `exit_code' has counted  *)
(* those that git has compared and found to differ from the index.         *)
THEOREM HeaderInvariant == Spec => []HeaderInv
BY InitHeaderInv, NextHeaderInv, PTL DEF Spec

(* The types, and that a header cut short is not formatted or compared.    *)
THEOREM HeaderTypeCorrect == Spec => []TypeOK
<1>1. HeaderInv => TypeOK
  BY DEF HeaderInv
<1> QED
  BY <1>1, HeaderInvariant, PTL

(* A header the run is done with is up to date in the working tree,        *)
(* although an earlier run may have been killed while rewriting it.        *)
THEOREM HeaderCheckedAreFixed == Spec => []CheckedAreFixed
<1>1. HeaderInv => CheckedAreFixed
  BY DEF HeaderInv
<1> QED
  BY <1>1, HeaderInvariant, PTL

-----------------------------------------------------------------------------
(* The verdict. *)

LEMMA ReturnPass == ASSUME HeaderInv, Return PROVE PassMeansUpToDate'
<1> SUFFICES ASSUME status' = 0, Cardinality(asked') < 255
             PROVE  (\A h \in compared \cap Marked : IsFixed(h, index[h]))'
  BY DEF PassMeansUpToDate
<1>1. /\ pc = "next" /\ todo = {} /\ status' = code % 256
      /\ UNCHANGED <<work, index, asked, checked, compared, erased>>
  BY DEF Return, Exit
<1>2. /\ asked = checked /\ checked \subseteq Header /\ code \in Nat
      /\ code <= Cardinality(checked) + 1 /\ compared \subseteq checked
      /\ code = 0 => \A h \in compared : work[h] = index[h]
      /\ \A h \in checked \cap Marked : IsFixed(h, work[h])
  BY <1>1 DEF HeaderInv, TypeOK, WorkInv, CodeInv, CheckedAreFixed
<1>3. Cardinality(checked) \in Nat
  BY <1>2, HeaderAssumption, FS_Subset, FS_CardinalityType
<1>4. code = 0
  BY <1>1, <1>2, <1>3
<1>5. \A h \in compared \cap Marked : IsFixed(h, index[h])
  BY <1>2, <1>4
<1> QED
  BY <1>1, <1>5 DEF IsFixed

(* A run that ends elsewhere is not done with all its headers.             *)
LEMMA ExitPass ==
  ASSUME HeaderInv, NEW value, Exit(value), pc # "idle", todo # {} \/ pc # "next"
  PROVE  PassMeansUpToDate'
<1>1. checked' = checked /\ asked' = asked
  BY DEF Exit
<1>2. checked # asked
  BY DEF HeaderInv, WorkInv
<1> QED
  BY <1>1, <1>2 DEF PassMeansUpToDate

LEMMA NextPass ==
  ASSUME HeaderInv, PassMeansUpToDate, [Next]_vars PROVE PassMeansUpToDate'
<1>1. ASSUME status' # 0 PROVE PassMeansUpToDate'
  BY <1>1 DEF PassMeansUpToDate
<1>2. ASSUME UNCHANGED <<index, asked, checked, compared, erased, status>> PROVE PassMeansUpToDate'
  BY <1>2 DEF PassMeansUpToDate, IsFixed
<1>3. NoStatus # 0 /\ (pc # "idle" => status = NoStatus)
  BY StatusAssumption DEF HeaderInv
<1>4. ASSUME Edited PROVE PassMeansUpToDate'
  BY <1>1, <1>3, <1>4 DEF Edited
<1>5. ASSUME NEW h \in Header, NEW m \in Method,
             Declare(h, m) \/ DeclareLate(h, m) \/ Undeclare(h, m) \/ EditList(h, m)
      PROVE  PassMeansUpToDate'
  BY <1>4, <1>5 DEF Declare, DeclareLate, Undeclare, EditList, Save
<1>6. ASSUME NEW h \in Header, Stage(h) \/ Restore(h) PROVE PassMeansUpToDate'
  BY <1>4, <1>6 DEF Stage, Restore, Save
<1>7. ASSUME NEW hs \in SUBSET Header, NEW missing \in 0 .. 1, Start(hs, missing)
      PROVE  PassMeansUpToDate'
  BY <1>1, <1>3, <1>7 DEF Start
<1>8. CASE Refuse
  BY <1>1, <1>8 DEF Refuse
<1>9. ASSUME NEW h \in Header, Scan(h) PROVE PassMeansUpToDate'
  BY <1>2, <1>9 DEF Scan, ScanGoingTo, verdicts
<1>10. ASSUME NEW h \in Header, Abort(h) PROVE PassMeansUpToDate'
  BY <1>10, ExitPass DEF Abort
<1>11. CASE Resize \/ Rewrite \/ Diff
  BY <1>1, <1>3, <1>11 DEF Resize, Rewrite, Diff, DiffCounting, verdicts
<1>12. CASE Interrupt
  BY <1>2, <1>12 DEF Interrupt, verdicts
<1>13. CASE RewriteNothing
  BY <1>13, ExitPass DEF RewriteNothing
<1>14. ASSUME NEW s \in FormatStatus, Format(s) PROVE PassMeansUpToDate'
  <2>1. CASE s = 0
    BY <1>2, <1>14, <2>1 DEF Format, FormatExiting, run, verdicts
  <2>2. CASE s # 0
    BY <1>14, <2>2, ExitPass DEF Format, FormatExiting
  <2> QED
    BY <2>1, <2>2
<1>15. CASE DiffThrows
  BY <1>15, ExitPass DEF DiffThrows
<1>16. CASE UNCHANGED vars
  BY <1>2, <1>16 DEF vars, run, verdicts
<1> QED
  BY <1>5, <1>6, <1>7, <1>8, <1>9, <1>10, <1>11, <1>12, <1>13, <1>14, <1>15, <1>16, ReturnPass
  DEF Next

(* A run that goes through its headers, fewer than 255, and exits with 0   *)
(* has found each marked one that git compared staged as the tool writes   *)
(* it, whatever happened between and during earlier runs.                  *)
THEOREM HeaderPassMeansUpToDate == Spec => []PassMeansUpToDate
<1>1. Init => PassMeansUpToDate
  BY StatusAssumption DEF Init, PassMeansUpToDate
<1>2. HeaderInv /\ PassMeansUpToDate /\ [Next]_vars => PassMeansUpToDate'
  BY NextPass
<1> QED
  BY <1>1, <1>2, HeaderInvariant, PTL DEF Spec

-----------------------------------------------------------------------------
(* Running again. *)

LEMMA RegeneratedFrom ==
  ASSUME NEW h, NEW f \in File, NEW g \in File,
         h \in Marked, f.late = <<>>, g.late = <<>>, g.decls = f.decls
  PROVE  Regenerated(h, g) = Regenerated(h, f)
<1>1. Declared(g) = Declared(f)
  BY DEF Declared
<1>2. [f EXCEPT !.listed = Declared(f), !.late = <<>>, !.tidy = TRUE] =
        [g EXCEPT !.listed = Declared(f), !.late = <<>>, !.tidy = TRUE]
  BY DEF File
<1> QED
  BY <1>1, <1>2 DEF Regenerated

(* What the next run makes of h stays, but for what fs::resize_file cuts.  *)
SameButCut(h, f, g) ==
  \/ Regenerated(h, g) = Regenerated(h, f)
  \/ /\ pc = "resize" /\ h = current
     /\ Regenerated(h, g) = Regenerated(h, [f EXCEPT !.late = <<>>])

LEMMA StepRerun ==
  ASSUME HeaderInv, [Next]_vars, edits' = edits, NEW h \in Header
  PROVE  SameButCut(h, work[h], work'[h])
<1>1. edits \in Nat /\ edits' # edits + 1
  BY DEF HeaderInv, TypeOK
<1>2. ~Edited
  BY <1>1 DEF Edited
<1>3. current \in Header /\ work \in [Header -> File]
  BY DEF HeaderInv, TypeOK
<1>4. ASSUME UNCHANGED work PROVE SameButCut(h, work[h], work'[h])
  BY <1>4 DEF SameButCut
<1>5. ASSUME NEW g, work' = [work EXCEPT ![current] = g],
             h = current => SameButCut(h, work[h], g)
      PROVE  SameButCut(h, work[h], work'[h])
  <2>1. work'[h] = IF h = current THEN g ELSE work[h]
    BY <1>3, <1>5
  <2> QED
    BY <1>5, <2>1 DEF SameButCut
<1>6. CASE Resize
  <2> DEFINE f == work[current]
             g == [f EXCEPT !.listed = Cut, !.late = <<>>]
             e == [f EXCEPT !.late = <<>>]
  <2>1. work' = [work EXCEPT ![current] = g] /\ current \in Marked /\ pc = "resize"
    BY <1>6 DEF Resize, HeaderInv, StepInv
  <2>2. f \in File
    BY <1>3
  <2> HIDE DEF f
  <2>3. /\ g \in File /\ g.late = <<>> /\ g.decls = f.decls
        /\ e \in File /\ e.late = <<>> /\ e.decls = f.decls
    BY <2>2, EmptySeq DEF File
  <2> HIDE DEF g, e
  <2>4. h = current => Regenerated(h, g) = Regenerated(h, e)
    BY <2>1, <2>3, RegeneratedFrom
  <2>5. h = current => SameButCut(h, work[h], g)
    BY <2>1, <2>4 DEF SameButCut, e, f
  <2> QED
    BY <1>5, <2>1, <2>5
<1>7. CASE Rewrite
  <2> DEFINE f == work[current]
             g == [f EXCEPT !.listed = methods, !.tidy = FALSE]
  <2>1. /\ work' = [work EXCEPT ![current] = g] /\ current \in Marked
        /\ methods \in Seq(Method) /\ f.late = <<>>
    BY <1>7 DEF Rewrite, HeaderInv, StepInv, TypeOK
  <2>2. f \in File /\ (h = current => f = work[h])
    BY <1>3
  <2> HIDE DEF f
  <2>3. g \in File /\ g.late = f.late /\ g.decls = f.decls
    BY <2>1, <2>2 DEF File
  <2> HIDE DEF g
  <2>4. h = current => Regenerated(h, g) = Regenerated(h, f)
    BY <2>1, <2>2, <2>3, RegeneratedFrom
  <2>5. h = current => SameButCut(h, work[h], g)
    BY <2>2, <2>4 DEF SameButCut
  <2> QED
    BY <1>5, <2>1, <2>5
<1>8. ASSUME NEW s \in FormatStatus, Format(s) PROVE SameButCut(h, work[h], work'[h])
  <2>1. CASE s = 0
    <3> DEFINE f == work[current]
               g == [f EXCEPT !.tidy = TRUE]
    <3>1. /\ work' = [work EXCEPT ![current] = g]
          /\ current \in Marked => f.late = <<>>
      BY <1>8, <2>1 DEF Format, FormatExiting, HeaderInv, StepInv
    <3>2. f \in File /\ (h = current => f = work[h])
      BY <1>3
    <3> HIDE DEF f
    <3>3. /\ g \in File /\ g.late = f.late /\ g.decls = f.decls
          /\ [g EXCEPT !.tidy = TRUE] = [f EXCEPT !.tidy = TRUE]
      BY <3>2 DEF File
    <3> HIDE DEF g
    <3>4. ASSUME h = current PROVE Regenerated(h, g) = Regenerated(h, f)
      <4>1. CASE h \in Marked
        <5>1. f.late = <<>> /\ g.late = <<>> /\ g.decls = f.decls /\ g \in File
          BY <3>1, <3>3, <3>4, <4>1
        <5> QED
          BY <3>2, <4>1, <5>1, RegeneratedFrom
      <4>2. CASE h \notin Marked
        <5>1. [g EXCEPT !.tidy = TRUE] = [f EXCEPT !.tidy = TRUE]
          BY <3>3
        <5> QED
          BY <4>2, <5>1, Zenon DEF Regenerated
      <4> QED
        BY <4>1, <4>2
    <3>5. h = current => SameButCut(h, work[h], g)
      BY <3>2, <3>4 DEF SameButCut
    <3> QED
      BY <1>5, <3>1, <3>5
  <2>2. CASE s # 0
    BY <1>4, <1>8, <2>2 DEF Format, FormatExiting
  <2> QED
    BY <2>1, <2>2
<1>9. ASSUME NEW g \in Header, NEW m \in Method,
             Declare(g, m) \/ DeclareLate(g, m) \/ Undeclare(g, m) \/ EditList(g, m)
      PROVE  FALSE
  BY <1>2, <1>9 DEF Declare, DeclareLate, Undeclare, EditList, Save
<1>10. ASSUME NEW g \in Header, Stage(g) \/ Restore(g) PROVE FALSE
  BY <1>2, <1>10 DEF Stage, Restore, Save
<1>11. ASSUME NEW hs \in SUBSET Header, NEW missing \in 0 .. 1, Start(hs, missing)
       PROVE  SameButCut(h, work[h], work'[h])
  BY <1>4, <1>11 DEF Start
<1>12. ASSUME NEW g \in Header, Scan(g) \/ Abort(g) PROVE SameButCut(h, work[h], work'[h])
  BY <1>4, <1>12 DEF Scan, ScanGoingTo, Abort
<1>13. CASE Refuse \/ RewriteNothing \/ Diff \/ DiffThrows \/ Return \/ Interrupt
  BY <1>4, <1>13 DEF Refuse, RewriteNothing, Diff, DiffCounting, DiffThrows, Return, Interrupt
<1>14. CASE UNCHANGED vars
  BY <1>4, <1>14 DEF vars
<1> QED
  BY <1>6, <1>7, <1>8, <1>9, <1>10, <1>11, <1>12, <1>13, <1>14 DEF Next

(* No step of a run, and no end of one, loses anything the next run makes  *)
(* the header from, but fs::resize_file the declarations after the marker. *)
THEOREM HeaderRerunWritesTheSame == Spec => RerunWritesTheSame
<1>1. ASSUME HeaderInv, [Next]_vars, edits' = edits
      PROVE  \A h \in Header :
               \/ Regenerated(h, work'[h]) = Regenerated(h, work[h])
               \/ /\ pc = "resize" /\ h = current
                  /\ Regenerated(h, work'[h]) = Regenerated(h, [work[h] EXCEPT !.late = <<>>])
  BY <1>1, StepRerun, Zenon DEF SameButCut
<1>2. ASSUME HeaderInv, [Next]_vars
      PROVE  [edits' = edits =>
                \A h \in Header :
                  \/ Regenerated(h, work'[h]) = Regenerated(h, work[h])
                  \/ /\ pc = "resize" /\ h = current
                     /\ Regenerated(h, work'[h]) = Regenerated(h, [work[h] EXCEPT !.late = <<>>])]_vars
  BY <1>1, <1>2, Zenon
<1> QED
  BY <1>2, HeaderInvariant, PTL DEF Spec, RerunWritesTheSame
=============================================================================
