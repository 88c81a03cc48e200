--------------------------- MODULE RuntimeQueries ---------------------------
(***************************************************************************)
(* The C++ helpers that let the runtime fill memory they allocate:         *)
(* ecsact/runtime/meta.hh, registry::get_entities (core.hh),               *)
(* ecsact/runtime/serialize.hh and last_error_message (si/wasm.hh).        *)
(*                                                                         *)
(* All of them are sequences of calls of the C API: ask for a size,        *)
(* allocate, let the runtime write, perhaps shrink to the count it         *)
(* reports, perhaps ask for a name of each id.  A query records which of   *)
(* these steps a helper takes.  Between two calls other code of the        *)
(* process may create or destroy what is asked for.                        *)
(*                                                                         *)
(* An id (a byte of a serialized component, a character of a message) is   *)
(* a number; an element the runtime did not write is value-initialized,    *)
(* so it looks like the id 0.                                              *)
(***************************************************************************)
EXTENDS Integers, Sequences

CONSTANTS
  Id,         \* what the runtime has ids for
  Contents,   \* the lists it may have at a time
  MaxSizes,   \* the sizes a client passes
  FixedSize,  \* the size of the buffers for associations, 32
  Reports     \* does an out-count report what was "written" or the "total"?
              \* meta.h does not say.

ASSUME IdAssumption == 0 \in Id
ASSUME ContentsAssumption == Contents \subseteq Seq(Id)
ASSUME SizesAssumption == MaxSizes \subseteq Nat /\ FixedSize \in Nat
ASSUME ReportsAssumption == Reports \subseteq {"written", "total"}

-----------------------------------------------------------------------------
(* A query: the size of its buffer is a count asked for, what the client   *)
(* passes ("max"), fixed, as long as the client's input ("input") or the   *)
(* size of a C++ type ("type"), or it has none ("none").  Whether the      *)
(* runtime is given that size and reports a count back; what becomes of    *)
(* the elements: a list, or a map made by insert (the first of two equal   *)
(* keys stays) or by operator[] (the last one does); how many lists are    *)
(* asked for one after the other; and if names are asked for, whether a    *)
(* null pointer is checked before it becomes a std::string.                *)
Counted(name) ==
  [name |-> name, size |-> "count", bounded |-> TRUE, reported |-> FALSE,
   keeps |-> "list", parts |-> 1, names |-> "none"]

Limited(name) == [Counted(name) EXCEPT !.size = "max", !.reported = TRUE]

FixedBuffer(name) == [Counted(name) EXCEPT !.size = "fixed", !.reported = TRUE]

Lookup(name, check) == [Counted(name) EXCEPT !.size = "none", !.names = check]

(* get_package_ids to transient_name                                       *)
DeclarationQueries ==
  LET lists == {"package_ids", "dependencies", "component_ids", "transient_ids"}
      names == {"package_file_path", "package_name", "component_name", "transient_name"}
  IN  {Counted(l) : l \in lists} \cup {Limited(l) : l \in lists}
        \cup {Lookup(n, "checked") : n \in names}

(* get_field_ids to enum_name                                              *)
MemberQueries ==
  LET lists == {"field_ids", "system_ids", "action_ids", "enum_ids"}
      names == {"system_name", "action_name", "enum_name"}
  IN  {Counted(l) : l \in lists} \cup {Limited(l) : l \in lists}
        \cup {Lookup(n, "checked") : n \in names}

(* get_enum_value_ids, get_enum_values                                     *)
EnumValueQueries ==
  {Limited("enum_value_ids"),
   [Counted("enum_value_ids") EXCEPT !.reported = TRUE],
   [Counted("enum_values") EXCEPT !.reported = TRUE, !.names = "unchecked"]}

(* decl_full_name to get_all_system_like_ids                               *)
HierarchyQueries ==
  {Lookup("decl_full_name", "checked"), Lookup("parent_system_id", "checked"),
   Counted("child_system_ids"), Counted("top_level_systems"),
   [Counted("all_system_like_ids") EXCEPT !.parts = 2]}

(* system_capabilities to get_system_generates_components                  *)
CapabilityQueries ==
  {[Counted("system_capabilities") EXCEPT !.keeps = "insert"],
   Counted("system_capabilities_list"), Counted("system_generates_ids"),
   [Counted("system_generates_components") EXCEPT !.keeps = "assign"]}

(* system_assoc_ids to system_notify_settings                              *)
AssocQueries ==
  {FixedBuffer("system_assoc_ids"), FixedBuffer("system_assoc_fields"),
   Counted("system_assoc_capabilities"),
   [Counted("system_notify_settings") EXCEPT !.keeps = "assign"]}

(* field_name, main_package                                                *)
LastLookups == {Lookup("field_name", "unchecked"), Lookup("main_package", "checked")}

(* registry::get_entities, wasm::last_error_message                        *)
EntityQuery == Counted("entities")
MessageQuery == Counted("last_error_message")

(* serialize                                                               *)
SerializeQueries ==
  {[Counted(n) EXCEPT !.bounded = FALSE] : n \in {"serialize", "serialize_component", "serialize_action"}}

(* deserialize to a type, and to bytes when the type is unknown            *)
TypedDeserialize == [Counted("deserialize_as") EXCEPT !.size = "type", !.bounded = FALSE]
DeserializeQueries ==
  {[Counted(n) EXCEPT !.size = "input", !.bounded = FALSE] : n \in {"deserialize_component", "deserialize_action"}}

Query ==
  DeclarationQueries \cup MemberQueries \cup EnumValueQueries \cup HierarchyQueries
    \cup CapabilityQueries \cup AssocQueries \cup LastLookups
    \cup {EntityQuery, MessageQuery, TypedDeserialize} \cup SerializeQueries \cup DeserializeQueries

-----------------------------------------------------------------------------
VARIABLES
  report,   \* what an out-count of this runtime reports
  query,    \* the helper that is running or ran last
  step,     \* the next call of it: "ask", "fill", "name", "return", or "idle"
  real,     \* real[p]: what the runtime has in the p-th list asked for
  part,     \* the list it is at
  size,     \* the size of the buffer
  result,   \* the elements so far
  named,    \* how many names it has asked for
  changed,  \* history: did the runtime's lists change during the call?
  grown,    \* history: did one grow between its size and the write?
  overrun,  \* history: did the runtime write past the end of the buffer?
  crashed   \* history: was a std::string made of a null pointer?

vars == <<report, query, step, real, part, size, result, named, changed, grown, overrun, crashed>>

Lower(m, n) == IF m <= n THEN m ELSE n
SetOf(l) == {l[i] : i \in DOMAIN l}

Written(id) == [id |-> id, written |-> TRUE]
Blank == [id |-> 0, written |-> FALSE]

Init ==
  /\ report \in Reports
  /\ query = EntityQuery
  /\ step = "idle"
  /\ real = <<>>
  /\ part = 1
  /\ size = 0
  /\ result = <<>>
  /\ named = 0
  /\ changed = FALSE
  /\ grown = FALSE
  /\ overrun = FALSE
  /\ crashed = FALSE

(* The size of a buffer that is not asked for, when a call begins.         *)
FirstSizes(q, lists) ==
  IF q.size \in {"max", "input"} THEN MaxSizes
  ELSE IF q.size = "fixed" THEN {FixedSize}
  ELSE IF q.size = "type" THEN {Len(lists[1])}
  ELSE {0}

(* The client calls a helper.  Ids it passes may be out of date.           *)
Begin(q) ==
  /\ step = "idle"
  /\ query' = q
  /\ real' \in [1 .. q.parts -> Contents]
  /\ size' \in FirstSizes(q, real')
  /\ step' = IF q.size = "count" THEN "ask" ELSE IF q.size = "none" THEN "name" ELSE "fill"
  /\ result' \in IF q.size = "none" THEN {<<Written(id)>> : id \in Id} ELSE {<<>>}
  /\ part' = 1
  /\ named' = 0
  /\ UNCHANGED <<report, changed, grown, overrun, crashed>>

(* Fault: one less, for a terminator.                                      *)
AskLessOne ==
  /\ step = "ask"
  /\ size' = Len(real[part]) - 1
  /\ step' = "fill"
  /\ UNCHANGED <<report, query, real, part, result, named, changed, grown, overrun, crashed>>

(* Fault: asks until two answers are equal.                                *)
AskUntilEqual ==
  /\ step = "ask"
  /\ size' = Len(real[part])
  /\ step' = IF size' = size THEN "fill" ELSE "ask"
  /\ UNCHANGED <<report, query, real, part, result, named, changed, grown, overrun, crashed>>

(* ecsact_..._count, ecsact_serialize_..._size, ..._message_length; then   *)
(* the vector is resized to it.                                            *)
Ask ==
  /\ step = "ask"
  /\ size' = Len(real[part])
  /\ step' = "fill"
  /\ UNCHANGED <<report, query, real, part, result, named, changed, grown, overrun, crashed>>

(* Fault: the size is asked for once more when it is passed on.            *)
WrittenCountAskedAgain == Len(real[part])

(* How much the runtime writes: a function that is not given the size of   *)
(* the buffer writes all it has.                                           *)
WrittenCount == IF query.bounded THEN Lower(size, Len(real[part])) ELSE Len(real[part])

(* Fault: the buffer is not shrunk.                                        *)
KeptCountWhole == size

(* The number of elements that are kept.                                   *)
KeptCount ==
  IF ~query.reported THEN size
  ELSE IF report = "written" THEN Lower(size, Len(real[part]))
  ELSE Len(real[part])

(* The runtime writes to the buffer; then the result is resized to the     *)
(* count it reports, if it is asked to.                                    *)
Fill ==
  /\ step = "fill"
  /\ overrun' = (overrun \/ WrittenCount > size)
  /\ result' = result \o [i \in 1 .. KeptCount |->
                            IF i <= Lower(WrittenCount, size) THEN Written(real[part][i]) ELSE Blank]
  /\ part' = Lower(part + 1, query.parts)
  /\ step' = IF part < query.parts THEN "ask" ELSE IF query.names = "none" THEN "return" ELSE "name"
  /\ UNCHANGED <<report, query, real, size, named, changed, grown, crashed>>

(* Fault: nobody checks for null.                                          *)
ChecksNone == FALSE

(* Does the helper compare the name with nullptr?                          *)
Checks == query.names = "checked"

(* The runtime is asked for the name of one id, and returns null (or -1)   *)
(* if it has no such id: a helper that checks returns nothing, another     *)
(* one makes a std::string of a null pointer.                              *)
Name ==
  /\ step = "name"
  /\ named < Len(result)
  /\ LET known == result[named + 1].id \in SetOf(real[1])
     IN  /\ named' = IF known THEN named + 1 ELSE named
         /\ result' = IF ~known /\ Checks THEN <<>> ELSE result
         /\ crashed' = (~known /\ ~Checks)
         /\ step' = IF known THEN step ELSE "return"
  /\ UNCHANGED <<report, query, real, part, size, changed, grown, overrun>>

(* All names are known.                                                    *)
Named ==
  /\ step = "name"
  /\ named >= Len(result)
  /\ step' = "return"
  /\ UNCHANGED <<report, query, real, part, size, result, named, changed, grown, overrun, crashed>>

(* The helper returns.                                                     *)
Return ==
  /\ step = "return"
  /\ step' = "idle"
  /\ query' = EntityQuery
  /\ real' = <<>>
  /\ part' = 1
  /\ size' = 0
  /\ result' = <<>>
  /\ named' = 0
  /\ changed' = FALSE
  /\ grown' = FALSE
  /\ overrun' = FALSE
  /\ crashed' = FALSE
  /\ UNCHANGED report

(* Where in the result the element is that the map has for an id: insert   *)
(* keeps the first of two with the same id, operator[] the last one.       *)
FirstAt(id) == CHOOSE i \in DOMAIN result :
  result[i].id = id /\ \A j \in 1 .. i - 1 : result[j].id # id
LastAt(id) == CHOOSE i \in DOMAIN result :
  result[i].id = id /\ \A j \in i + 1 .. Len(result) : result[j].id # id

(* Fault: operator[] in both.                                              *)
MappedToLast(id) == LastAt(id)

MappedTo(id) == IF query.keeps = "insert" THEN FirstAt(id) ELSE LastAt(id)

(* Other code creates or destroys what a list contains.                    *)
Change ==
  /\ step \notin {"idle", "return"}
  /\ real' \in [DOMAIN real -> Contents] \ {real}
  /\ changed' = TRUE
  /\ grown' = (grown \/ (step = "fill" /\ Len(real'[part]) > Len(real[part])))
  /\ UNCHANGED <<report, query, step, part, size, result, named, overrun, crashed>>

Helper == Ask \/ Fill \/ Name \/ Named \/ Return

Next == (\E q \in Query : Begin(q)) \/ Helper \/ Change

Spec == Init /\ [][Next]_vars

(* A helper is plain code: once called it goes on.  Nobody has to call     *)
(* one, and nothing has to change.                                         *)
FairSpec == Spec /\ WF_vars(Helper)

-----------------------------------------------------------------------------
TypeOK ==
  /\ report \in Reports
  /\ query \in Query
  /\ step \in {"idle", "ask", "fill", "name", "return"}
  /\ real \in Seq(Contents)
  /\ part \in 1 .. query.parts
  /\ size \in Nat
  /\ result \in Seq([id : Id, written : BOOLEAN])
  /\ named \in 0 .. Len(result)
  /\ {changed, grown, overrun, crashed} \subseteq BOOLEAN

(* The runtime writes past a buffer only if it is not told its size, and   *)
(* then in three ways: in serialize when what is serialized grew between   *)
(* the size and the write (serialize.hh:36-49, 62-67, 79-84), in the typed *)
(* deserialize when the runtime's idea of the type grew, and in the byte   *)
(* deserialize at any time, which makes room for as many bytes as the      *)
(* serialized form has (:170, 189).  No change before a size is asked for, *)
(* and none that only takes away, leads to one.                            *)
NoOverrun == overrun => ~query.bounded /\ (grown \/ query.size = "input")

(* What a call returns that no change overlapped: all there is, or as much *)
(* of it as the client made room for.  (With an out-count that reports a   *)
(* total, only if there is room for it.)  A helper invents ids (zeros)     *)
(* only if it does not ask for the count that was written and the list     *)
(* shrank after it was counted, or if the runtime reports totals.          *)
ReturnsWhatThereIs ==
  query.bounded =>
    /\ step = "return" /\ ~changed /\ query.size # "none" =>
         LET all == IF query.parts = 1 THEN real[1] ELSE real[1] \o real[2]
             count == IF query.size = "count" THEN Len(all) ELSE Lower(size, Len(all))
         IN  count = Len(all) \/ report = "written"
               => result = [i \in 1 .. count |-> Written(all[i])] /\ ~crashed
    /\ (\E i \in DOMAIN result : ~result[i].written) =>
         (changed /\ ~query.reported) \/ (query.reported /\ report = "total")

(* In a map, an invented element never hides a real one, except that       *)
(* operator[] puts it in place of a real element with the id 0.            *)
MapsKeepReal ==
  step = "return" /\ query.keeps # "list" =>
    \A i \in DOMAIN result : result[i].written =>
      result[MappedTo(result[i].id)].written
        \/ (query.keeps = "assign" /\ changed /\ result[i].id = 0)

(* The program dies of a null name only in field_name and get_enum_values. *)
(* get_enum_values gets there only if a value was removed meanwhile, or if *)
(* totals are reported.                                                    *)
DiesOnlyOfUncheckedNames ==
  crashed => query.names = "unchecked" /\ (query.size # "none" => changed \/ report = "total")

(* A call returns, however often the runtime's lists change meanwhile.     *)
CallsReturn == step # "idle" ~> step = "idle"
=============================================================================
