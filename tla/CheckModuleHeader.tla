------------------------- MODULE CheckModuleHeader --------------------------
(***************************************************************************)
(* scripts/check_module_header.cc: for every C header of a module, collect *)
(* the functions it declares, cut the file after the line                  *)
(* "// # BEGIN FOR_EACH_...", write the FOR_EACH macro again, run          *)
(* clang-format on the file and count it as out of date when git diff      *)
(* prints a hunk.  The tool works on the working tree, one header at a     *)
(* time, and may be interrupted between any two of these steps; developers *)
(* edit, stage and restore headers between its runs.                       *)
(***************************************************************************)
EXTENDS Naturals, Sequences, FiniteSets, SequencesExt

CONSTANTS
  Header,        \* the headers a run may be asked for
  Marked,        \* those with a "// # BEGIN FOR_EACH_..." line
  Misplaced,     \* C headers outside of ecsact/runtime and ecsact/si
  Method,        \* names of functions
  Misnamed,      \* those without the prefix "ecsact_"
  LateMethod,    \* those that may be declared after the marker
  FormatStatus,  \* what std::system may return for clang-format
  NoStatus,      \* the tool has not exited since the last edit
  Cut,           \* the file ends after the marker
  MaxEdits       \* bound on the developers' edits

ASSUME MarkedAssumption == Marked \subseteq Header /\ Misplaced \subseteq Header
ASSUME HeaderAssumption == IsFiniteSet(Header)
ASSUME MethodAssumption == LateMethod \subseteq Method /\ Cut \notin Seq(Method)
ASSUME StatusAssumption == FormatStatus \subseteq Nat /\ NoStatus \notin Nat
ASSUME EditsAssumption == MaxEdits \in Nat

(* A header: the functions declared before the marker, those the macro     *)
(* lists, those declared after the macro, is it as clang-format leaves it? *)
File == [decls : Seq(Method), listed : Seq(Method) \cup {Cut},
         late : Seq(Method), tidy : BOOLEAN]

VARIABLES
  work,     \* work[h]: the header in the working tree
  index,    \* index[h]: the header in git's index
  edits,    \* number of edits so far
  pc,       \* what the tool does next
  asked,    \* headers the last run was started for
  todo,     \* those still to be checked
  current,  \* the header being checked
  methods,  \* the vector `methods`
  code,     \* the variable `exit_code` of main
  checked,  \* headers this run is done with
  compared, \* those that git has compared with the index
  erased,   \* erased[h]: declarations this run has cut from the end of h
  status    \* exit status of the last run, if no edit followed it

run == <<asked, todo, current, methods, code>>
verdicts == <<checked, compared, status>>
vars == <<work, index, edits, pc, run, verdicts, erased>>

NoneErased == [h \in Header |-> <<>>]

(* What a run makes of a header.                                           *)
Declared(f) == f.decls \o f.late
Regenerated(h, f) ==
  IF h \in Marked
  THEN [f EXCEPT !.listed = Declared(f), !.late = <<>>, !.tidy = TRUE]
  ELSE [f EXCEPT !.tidy = TRUE]

Init ==
  /\ \E m \in [Header -> Method \ Misnamed] :
       work = [h \in Header |-> [decls |-> <<m[h]>>, listed |-> <<m[h]>>,
                                 late |-> <<>>, tidy |-> TRUE]]
  /\ index = work
  /\ edits = 0
  /\ pc = "idle"
  /\ asked = {}
  /\ todo = {}
  /\ current \in Header
  /\ methods = <<>>
  /\ code = 0
  /\ checked = {} /\ compared = {}
  /\ erased = NoneErased
  /\ status = NoStatus

-----------------------------------------------------------------------------
(* The developers, between runs, on the headers that runs get to read *)

Edited ==
  /\ pc = "idle"
  /\ edits < MaxEdits
  /\ edits' = edits + 1
  /\ checked' = {} /\ compared' = {}
  /\ erased' = NoneErased
  /\ status' = NoStatus
  /\ UNCHANGED <<pc, run>>

Save(h, f) == Edited /\ work' = [work EXCEPT ![h] = f] /\ UNCHANGED index

(* No list names a function twice.                                         *)
Without(ms, m) ==
  IF Contains(ms, m) THEN RemoveAt(ms, CHOOSE i \in 1 .. Len(ms) : ms[i] = m) ELSE ms

Declare(h, m) ==
  /\ ~Contains(Declared(work[h]), m)
  /\ \E t \in BOOLEAN :
       Save(h, [work[h] EXCEPT !.decls = Append(@, m), !.tidy = t])

DeclareLate(h, m) ==
  /\ h \in Marked
  /\ m \in LateMethod
  /\ work[h].listed # Cut
  /\ ~Contains(Declared(work[h]), m)
  /\ Save(h, [work[h] EXCEPT !.late = Append(@, m)])

Undeclare(h, m) ==
  /\ Contains(Declared(work[h]), m)
  /\ Save(h, [work[h] EXCEPT !.decls = Without(@, m), !.late = Without(@, m)])

(* The macro edited by hand. *)
EditList(h, m) ==
  /\ work[h].listed # Cut
  /\ Save(h, [work[h] EXCEPT !.listed =
                IF Contains(@, m) THEN Without(@, m) ELSE Append(@, m)])

(* git add *)
Stage(h) == Edited /\ index' = [index EXCEPT ![h] = work[h]] /\ UNCHANGED work

(* git restore *)
Restore(h) == Save(h, index[h])

-----------------------------------------------------------------------------
(* The tool *)

(* The arguments: some headers, and perhaps a path that does not exist.    *)
(* Without arguments every header in the two directories is checked.       *)
Start(hs, missing) ==
  /\ pc = "idle"
  /\ pc' = "next"
  /\ asked' = IF hs = {} /\ missing = 0 THEN Header \ Misplaced ELSE hs
  /\ todo' = asked'
  /\ code' = missing
  /\ checked' = {} /\ compared' = {}
  /\ erased' = NoneErased
  /\ status' = NoStatus
  /\ UNCHANGED <<work, index, edits, current, methods>>

(* No BUILD_WORKSPACE_DIRECTORY, or --clang-format without a value: main   *)
(* returns 1 before it looks at a header.                                  *)
Refuse ==
  /\ pc = "idle"
  /\ asked' = {} /\ todo' = {} /\ checked' = {} /\ compared' = {}
  /\ erased' = NoneErased
  /\ status' = 1
  /\ UNCHANGED <<work, index, edits, pc, current, methods, code>>

(* The process ends with a value of which the system keeps eight bits.     *)
Exit(value) ==
  /\ pc' = "idle"
  /\ todo' = {}
  /\ methods' = <<>>
  /\ code' = 0
  /\ status' = value % 256
  /\ UNCHANGED <<index, edits, asked, current, checked, compared, erased>>

(* get_module_name_from_path and check_module_header throw.                *)
Throws(h) ==
  \/ h \in Misplaced
  \/ \E i \in DOMAIN Declared(work[h]) : Declared(work[h])[i] \in Misnamed

ScanGoingTo(h, step) ==
  /\ pc = "next"
  /\ h \in todo
  /\ ~Throws(h)
  /\ current' = h
  /\ todo' = todo \ {h}
  /\ methods' = Declared(work[h])
  /\ pc' = step
  /\ UNCHANGED <<work, index, edits, asked, code, verdicts, erased>>

(* Fault: a header without methods is not rewritten.                       *)
ScanSkipsEmpty(h) ==
  ScanGoingTo(h, IF h \in Marked /\ Declared(work[h]) # <<>> THEN "resize" ELSE "format")

(* The loop over the lines of a header in check_module_header.             *)
Scan(h) == ScanGoingTo(h, IF h \in Marked THEN "resize" ELSE "format")

(* "Invalid method name" or "unhandled parent name" leaves main: SIGABRT.  *)
Abort(h) ==
  /\ pc = "next"
  /\ h \in todo
  /\ Throws(h)
  /\ Exit(128 + 6)
  /\ UNCHANGED work

(* Fault: cut where the last declaration starts.                           *)
ResizeAtLastMethod ==
  /\ pc = "resize"
  /\ pc' = "rewrite"
  /\ work' = [work EXCEPT ![current].listed = Cut, ![current].late = <<>>,
                          ![current].decls = IF @ = <<>> THEN @ ELSE Front(@)]
  /\ erased' = [erased EXCEPT ![current] = work[current].late]
  /\ UNCHANGED <<index, edits, run, verdicts>>

(* fs::resize_file to the position after the marker: whatever follows it   *)
(* goes, declarations included.                                            *)
Resize ==
  /\ pc = "resize"
  /\ pc' = "rewrite"
  /\ work' = [work EXCEPT ![current].listed = Cut, ![current].late = <<>>]
  /\ erased' = [erased EXCEPT ![current] = work[current].late]
  /\ UNCHANGED <<index, edits, run, verdicts>>

(* Fault: the last method is not written after the loop.                   *)
RewriteForgetsLast ==
  /\ pc = "rewrite"
  /\ methods # <<>>
  /\ pc' = "format"
  /\ work' = [work EXCEPT ![current].listed = Front(methods), ![current].tidy = FALSE]
  /\ UNCHANGED <<index, edits, run, verdicts, erased>>

(* The macro written from `methods`, and flushed.                          *)
Rewrite ==
  /\ pc = "rewrite"
  /\ methods # <<>>
  /\ pc' = "format"
  /\ work' = [work EXCEPT ![current].listed = methods, ![current].tidy = FALSE]
  /\ UNCHANGED <<index, edits, run, verdicts, erased>>

(* methods_count - 1 > i compares 2^64 - 1 with 0 when there is no method, *)
(* and methods[0] of an empty vector is read: SIGSEGV, nothing flushed.    *)
RewriteNothing ==
  /\ pc = "rewrite"
  /\ methods = <<>>
  /\ Exit(128 + 11)
  /\ UNCHANGED work

FormatExiting(s, value) ==
  /\ pc = "format"
  /\ IF s = 0
     THEN /\ pc' = "diff"
          /\ work' = [work EXCEPT ![current].tidy = TRUE]
          /\ UNCHANGED <<index, edits, run, verdicts, erased>>
     ELSE Exit(value) /\ UNCHANGED work

(* Fault: exit_code is returned.                                           *)
FormatReturnsExitCode(s) == FormatExiting(s, code)

(* clang-format -i.  Its status is returned as it is when it is not zero,  *)
(* and the headers left are not looked at.                                 *)
Format(s) == FormatExiting(s, s)

(* git diff.  Its exit status is not looked at: when git fails, or does    *)
(* not know the header, no hunk is printed and nothing is counted.         *)
DiffCounting(total) ==
  /\ pc = "diff"
  /\ pc' = "next"
  /\ \/ code' = total /\ compared' = compared \cup {current}
     \/ UNCHANGED <<code, compared>>
  /\ checked' = checked \cup {current}
  /\ UNCHANGED <<work, index, edits, asked, todo, current, methods, erased, status>>

(* Fault: the verdict on the last header replaces the others.              *)
DiffOverwrites == DiffCounting(IF work[current] # index[current] THEN 1 ELSE 0)

(* A hunk adds one to exit_code.                                           *)
Diff == DiffCounting(IF work[current] # index[current] THEN code + 1 ELSE code)

(* No git on the PATH: the constructor of bp::child throws.                *)
DiffThrows ==
  /\ pc = "diff"
  /\ Exit(128 + 6)
  /\ UNCHANGED work

Return ==
  /\ pc = "next"
  /\ todo = {}
  /\ Exit(code)
  /\ UNCHANGED work

(* The run is killed, or its machine goes away: no status is seen.         *)
Interrupt ==
  /\ pc # "idle"
  /\ pc' = "idle"
  /\ todo' = {}
  /\ methods' = <<>>
  /\ code' = 0
  /\ UNCHANGED <<work, index, edits, asked, current, verdicts, erased>>

Next ==
  \/ \E h \in Header \ Misplaced, m \in Method :
       Declare(h, m) \/ DeclareLate(h, m) \/ Undeclare(h, m) \/ EditList(h, m)
  \/ \E h \in Header \ Misplaced : Stage(h) \/ Restore(h)
  \/ \E hs \in SUBSET Header, missing \in 0 .. 1 : Start(hs, missing)
  \/ Refuse
  \/ \E h \in Header : Scan(h) \/ Abort(h)
  \/ Resize
  \/ Rewrite
  \/ RewriteNothing
  \/ \E s \in FormatStatus : Format(s)
  \/ Diff
  \/ DiffThrows
  \/ Return
  \/ Interrupt

Spec == Init /\ [][Next]_vars
-----------------------------------------------------------------------------
(* Type of the variables; a file cut short is never formatted or compared  *)
(* with the index, whatever an interrupted run left behind.                *)
TypeOK ==
  /\ work \in [Header -> File]
  /\ index \in [Header -> File]
  /\ edits \in 0 .. MaxEdits
  /\ pc \in {"idle", "next", "resize", "rewrite", "format", "diff"}
  /\ pc \in {"format", "diff"} /\ current \in Marked => work[current].listed # Cut
  /\ asked \subseteq Header /\ todo \subseteq asked /\ current \in Header
  /\ checked \subseteq asked /\ compared \subseteq checked
  /\ erased \in [Header -> Seq(Method)]
  /\ methods \in Seq(Method)
  /\ code \in Nat
  /\ status \in 0 .. 255 \cup {NoStatus}

(* h as f is what a run leaves: formatted, nothing declared after the      *)
(* macro, and the macro lists the functions f declares, and after them     *)
(* those whose declarations the run has itself erased.                     *)
IsFixed(h, f) ==
  f.tidy /\ f.late = <<>> /\ f.listed # Cut /\ f.listed = f.decls \o erased[h]

(* Status 0 of a run that got through its headers, fewer than 255, means   *)
(* that those with a marker which git has compared are staged up to date:  *)
(* exit_code adds up the verdicts (check_module_header.cc:235-386).  A     *)
(* header git did not compare passes as well, with 256 hunks the eight     *)
(* bits are 0, and a run that clang-format ends is PassMeansAllChecked's.  *)
PassMeansUpToDate ==
  status = 0 /\ checked = asked /\ Cardinality(asked) < 255 =>
    \A h \in compared \cap Marked : IsFixed(h, index[h])

(* A header the run is done with is up to date in the working tree,        *)
(* whatever an earlier, interrupted run left of it: staging what a failed  *)
(* run leaves makes the next one pass.                                     *)
CheckedAreFixed == \A h \in checked \cap Marked : IsFixed(h, work[h])

(* No step of the tool, an interrupted one included, loses what a run is   *)
(* made from: started again, it writes the same file                       *)
(* (check_module_header.cc:121-150).  The one exception is fs::resize_file *)
(* itself, which loses the declarations after the marker, and only those.  *)
RerunWritesTheSame ==
  [][edits' = edits =>
       \A h \in Header :
         \/ Regenerated(h, work'[h]) = Regenerated(h, work[h])
         \/ /\ pc = "resize" /\ h = current
            /\ Regenerated(h, work'[h]) = Regenerated(h, [work[h] EXCEPT !.late = <<>>])]_vars

(* A clang-format that does not succeed makes the run fail: "return        *)
(* format_exit_code" (check_module_header.cc:312-317) leaves headers       *)
(* unchecked.                                                              *)
PassMeansAllChecked == status = 0 => checked = asked
=============================================================================
