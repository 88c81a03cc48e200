------------------------ MODULE RuntimeQueriesProofs ------------------------
(***************************************************************************)
(* Proofs about RuntimeQueries, for any ids and lists, and buffers of any  *)
(* size.                                                                   *)
(***************************************************************************)
EXTENDS RuntimeQueries, SequenceTheorems, WellFoundedInduction, TLAPS

(* What the queries have in common.                                        *)
WellFormed(q) ==
  /\ q.size \in {"count", "max", "fixed", "input", "type", "none"}
  /\ q.parts \in {1, 2} /\ (q.parts = 2 => q.size = "count")
  /\ q.bounded = TRUE \/ (q.size \in {"count", "input", "type"} /\ q.parts = 1)
  /\ q.names = "unchecked" /\ q.size # "none" =>
       q.parts = 1 /\ q.bounded = TRUE /\ q.reported = TRUE
  /\ q.names \in {"none", "checked", "unchecked"}
  /\ q.size = "none" => q.names # "none"
  /\ q.names = "checked" => q.size = "none"
  /\ q.bounded \in BOOLEAN /\ q.reported \in BOOLEAN
  /\ q.bounded = TRUE /\ q.reported = FALSE => q.size \in {"count", "none"}
  /\ q.parts = 2 => q.bounded = TRUE /\ q.reported = FALSE /\ q.names = "none"
  /\ q.keeps \in {"list", "insert", "assign"}
  /\ q.keeps # "list" =>
       q.parts = 1 /\ q.bounded = TRUE /\ q.reported = FALSE /\ q.names = "none"

LEMMA FormsWell ==
  ASSUME NEW n
  PROVE  /\ WellFormed(Counted(n)) /\ WellFormed(Limited(n)) /\ WellFormed(FixedBuffer(n))
         /\ \A check \in {"checked", "unchecked"} : WellFormed(Lookup(n, check))
BY DEF Counted, Limited, FixedBuffer, Lookup, WellFormed

LEMMA ChangedForms ==
  ASSUME NEW n
  PROVE  /\ WellFormed([Counted(n) EXCEPT !.reported = TRUE])
         /\ WellFormed([Counted(n) EXCEPT !.reported = TRUE, !.names = "unchecked"])
         /\ WellFormed([Counted(n) EXCEPT !.bounded = FALSE])
         /\ WellFormed([Counted(n) EXCEPT !.size = "type", !.bounded = FALSE])
         /\ WellFormed([Counted(n) EXCEPT !.size = "input", !.bounded = FALSE])
BY DEF Counted, WellFormed

LEMMA QueryKinds == \A q \in Query : WellFormed(q)
<1>1. \A q \in DeclarationQueries : WellFormed(q)
  BY FormsWell DEF DeclarationQueries
<1>2. \A q \in MemberQueries : WellFormed(q)
  BY FormsWell DEF MemberQueries
<1>3. \A q \in EnumValueQueries : WellFormed(q)
  BY FormsWell, ChangedForms DEF EnumValueQueries
<1>4. ASSUME NEW q \in HierarchyQueries PROVE WellFormed(q)
  <2>1. CASE q = [Counted("all_system_like_ids") EXCEPT !.parts = 2]
    BY <2>1 DEF Counted, WellFormed
  <2>2. CASE q \in {Lookup("decl_full_name", "checked"), Lookup("parent_system_id", "checked"),
                 Counted("child_system_ids"), Counted("top_level_systems")}
    BY <2>2, FormsWell
  <2> QED
    BY <1>4, <2>1, <2>2, Zenon DEF HierarchyQueries
<1>5. ASSUME NEW q \in CapabilityQueries PROVE WellFormed(q)
  <2>1. CASE q = [Counted("system_capabilities") EXCEPT !.keeps = "insert"]
    BY <2>1 DEF Counted, WellFormed
  <2>2. CASE q = [Counted("system_generates_components") EXCEPT !.keeps = "assign"]
    BY <2>2 DEF Counted, WellFormed
  <2>3. CASE q \in {Counted("system_capabilities_list"), Counted("system_generates_ids")}
    BY <2>3, FormsWell
  <2> QED
    BY <1>5, <2>1, <2>2, <2>3, Zenon DEF CapabilityQueries
<1>6. ASSUME NEW q \in AssocQueries PROVE WellFormed(q)
  <2>1. CASE q = [Counted("system_notify_settings") EXCEPT !.keeps = "assign"]
    BY <2>1 DEF Counted, WellFormed
  <2>2. CASE q \in {FixedBuffer("system_assoc_ids"), FixedBuffer("system_assoc_fields"),
                 Counted("system_assoc_capabilities")}
    BY <2>2, FormsWell
  <2> QED
    BY <1>6, <2>1, <2>2, Zenon DEF AssocQueries
<1>7. \A q \in LastLookups : WellFormed(q)
  BY FormsWell DEF LastLookups
<1>8. \A q \in {EntityQuery, MessageQuery, TypedDeserialize} : WellFormed(q)
  BY FormsWell, ChangedForms DEF EntityQuery, MessageQuery, TypedDeserialize
<1>9. \A q \in SerializeQueries : WellFormed(q)
  BY ChangedForms DEF SerializeQueries
<1>10. \A q \in DeserializeQueries : WellFormed(q)
  BY ChangedForms DEF DeserializeQueries
<1> QED
  BY <1>1, <1>2, <1>3, <1>4, <1>5, <1>6, <1>7, <1>8, <1>9, <1>10 DEF Query

(* The step a helper is at, the size of its buffer and the lists it asks   *)
(* for.  A size that was counted, or that the type of the result gives, is *)
(* right until something changes, and enough until it grows.               *)
NoOverrunInv ==
  /\ query \in Query
  /\ real \in [1 .. query.parts -> Contents] \/ step = "idle"
  /\ part \in 1 .. query.parts
  /\ size \in Int
  /\ changed \in BOOLEAN /\ grown \in BOOLEAN /\ overrun \in BOOLEAN
  /\ step = "idle" => ~overrun /\ ~changed /\ ~grown
  /\ step # "idle" => query.size # "type" \/ (part = 1 /\ step # "ask")
  /\ step = "ask" => query.size = "count"
  /\ step = "fill" /\ query.size \in {"count", "type"} /\ ~changed => size = Len(real[part])
  /\ step = "fill" /\ query.size \in {"count", "type"} /\ ~grown => Len(real[part]) <= size
  /\ step = "fill" => query.size # "none"
  /\ NoOverrun

LEMMA InitNoOverrun == Init => NoOverrunInv
<1> SUFFICES ASSUME Init PROVE NoOverrunInv
  OBVIOUS
<1>1. EntityQuery \in Query
  BY DEF Query
<1>2. WellFormed(EntityQuery)
  BY <1>1, QueryKinds
<1>3. 1 \in 1 .. EntityQuery.parts
  BY <1>2 DEF WellFormed
<1>4. query \in Query /\ part \in 1 .. query.parts /\ size \in Int /\ step = "idle"
  BY <1>1, <1>3 DEF Init
<1>5. /\ overrun \in BOOLEAN /\ changed \in BOOLEAN /\ grown \in BOOLEAN
      /\ ~overrun /\ ~changed /\ ~grown
  BY Zenon DEF Init
<1>6. NoOverrun
  BY <1>5, Zenon DEF NoOverrun
<1> QED
  BY <1>4, <1>5, <1>6 DEF NoOverrunInv

LEMMA ListLengths ==
  ASSUME NoOverrunInv, step # "idle"
  PROVE  real[part] \in Seq(Id) /\ Len(real[part]) \in Nat
<1>1. real \in [1 .. query.parts -> Contents] /\ part \in 1 .. query.parts
  BY DEF NoOverrunInv
<1>2. real[part] \in Seq(Id)
  BY <1>1, ContentsAssumption
<1> QED
  BY <1>2

LEMMA FirstSizesAreNaturals ==
  ASSUME NEW q, NEW lists, Len(lists[1]) \in Nat
  PROVE  FirstSizes(q, lists) \subseteq Nat
<1> SUFFICES ASSUME NEW n \in FirstSizes(q, lists) PROVE n \in Nat
  OBVIOUS
<1>1. n \in MaxSizes \/ n = FixedSize \/ n = Len(lists[1]) \/ n = 0
  BY Zenon DEF FirstSizes
<1>2. MaxSizes \subseteq Nat /\ FixedSize \in Nat /\ Len(lists[1]) \in Nat /\ 0 \in Nat
  BY SizesAssumption
<1> QED
  BY <1>1, <1>2, Zenon

LEMMA BeginNoOverrun ==
  ASSUME NoOverrunInv, NEW q \in Query, Begin(q) PROVE NoOverrunInv'
<1>1. WellFormed(q) /\ query' = q
  BY QueryKinds DEF Begin
<1>2. real' \in [1 .. q.parts -> Contents] /\ part' = 1 /\ part' \in 1 .. q.parts
  BY <1>1 DEF Begin, WellFormed
<1>3. real'[1] \in Seq(Id) /\ Len(real'[1]) \in Nat
  BY <1>1, <1>2, ContentsAssumption DEF WellFormed
<1>4. size' \in FirstSizes(q, real') /\ size' \in Int
  <2>1. size' \in FirstSizes(q, real')
    BY DEF Begin
  <2>2. FirstSizes(q, real') \subseteq Nat
    BY <1>3, FirstSizesAreNaturals
  <2> QED
    BY <2>1, <2>2
<1>5. q.size = "type" => size' = Len(real'[1])
  BY <1>4 DEF FirstSizes
<1>6. step' = IF q.size = "count" THEN "ask" ELSE IF q.size = "none" THEN "name" ELSE "fill"
  BY DEF Begin
<1>7. NoOverrun' /\ changed' \in BOOLEAN /\ grown' \in BOOLEAN /\ overrun' \in BOOLEAN
  BY DEF Begin, NoOverrunInv, NoOverrun
<1> QED
  BY <1>1, <1>2, <1>4, <1>5, <1>6, <1>7 DEF NoOverrunInv

LEMMA AskNoOverrun == ASSUME NoOverrunInv, Ask PROVE NoOverrunInv'
<1>1. Len(real[part]) \in Nat
  BY ListLengths DEF Ask
<1>2. /\ step = "ask" /\ step' = "fill" /\ size' = Len(real[part])
      /\ UNCHANGED <<query, real, part, changed, grown, overrun>>
  BY DEF Ask
<1> QED
  BY <1>1, <1>2 DEF NoOverrunInv, NoOverrun

(* A runtime that is told the size writes no more than that; one that is   *)
(* not writes what was counted, unless it grew or came from the client.    *)
LEMMA FillNoOverrun == ASSUME NoOverrunInv, Fill PROVE NoOverrunInv'
<1>1. Len(real[part]) \in Nat /\ size \in Int /\ WellFormed(query) /\ part \in 1 .. query.parts
  BY ListLengths, QueryKinds DEF Fill, NoOverrunInv
<1>2. step = "fill" /\ UNCHANGED <<query, real, size, changed, grown>>
  BY DEF Fill
<1>3. overrun' = (overrun \/ WrittenCount > size)
  BY DEF Fill
<1>4. (~query.bounded /\ query.size \in {"count", "input", "type"}) \/ WrittenCount <= size
  BY <1>1 DEF WrittenCount, WellFormed, Lower
<1>5. WrittenCount > size => ~query.bounded /\ (grown \/ query.size = "input")
  <2> SUFFICES ASSUME WrittenCount > size
               PROVE  ~query.bounded /\ (grown \/ query.size = "input")
    OBVIOUS
  <2>1. WrittenCount \in Int
    BY <1>1 DEF WrittenCount, Lower
  <2>2. ~query.bounded /\ query.size \in {"count", "input", "type"}
    BY <1>1, <1>4, <2>1
  <2>3. WrittenCount = Len(real[part])
    BY <2>2 DEF WrittenCount
  <2>4. query.size \in {"count", "type"} /\ ~grown => Len(real[part]) <= size
    BY <1>2 DEF NoOverrunInv
  <2> QED
    BY <1>1, <2>2, <2>3, <2>4
<1>6. NoOverrun' /\ overrun' \in BOOLEAN
  BY <1>2, <1>3, <1>5 DEF NoOverrunInv, NoOverrun
<1>7. part' \in 1 .. query.parts
  BY <1>1 DEF Fill, WellFormed, Lower
<1>8. step' \in {"ask", "return", "name"} /\ (step' = "ask" => part < query.parts)
  BY DEF Fill
<1>9. step' = "ask" => query.size = "count"
  BY <1>1, <1>8 DEF WellFormed
<1>10. query.size = "type" => part' = 1
  BY <1>1, <1>7 DEF WellFormed
<1> QED
  BY <1>2, <1>6, <1>7, <1>8, <1>9, <1>10 DEF NoOverrunInv

LEMMA NextNoOverrun == NoOverrunInv /\ [Next]_vars => NoOverrunInv'
<1> SUFFICES ASSUME NoOverrunInv, [Next]_vars PROVE NoOverrunInv'
  OBVIOUS
<1>1. CASE \E q \in Query : Begin(q)
  BY <1>1, BeginNoOverrun
<1>2. CASE Ask
  BY <1>2, AskNoOverrun
<1>3. CASE Fill
  BY <1>3, FillNoOverrun
<1>4. ASSUME UNCHANGED <<query, real, part, size, changed, grown, overrun>>,
             step' \in {step, "return"}, step # "idle"
      PROVE  NoOverrunInv'
  BY <1>4 DEF NoOverrunInv, NoOverrun
<1>5. CASE Name \/ Named
  BY <1>4, <1>5 DEF Name, Named
<1>6. CASE Return
  <2>1. /\ step' = "idle" /\ query' = EntityQuery /\ part' = 1 /\ size' = 0
        /\ changed' = FALSE /\ grown' = FALSE /\ overrun' = FALSE
    BY <1>6 DEF Return
  <2>2. EntityQuery \in Query /\ 1 \in 1 .. EntityQuery.parts
    BY QueryKinds DEF Query, WellFormed
  <2>3. /\ ~overrun' /\ ~changed' /\ ~grown'
        /\ overrun' \in BOOLEAN /\ changed' \in BOOLEAN /\ grown' \in BOOLEAN
    BY <2>1, Zenon
  <2>4. NoOverrun'
    BY <2>3, Zenon DEF NoOverrun
  <2>5. query' \in Query /\ part' \in 1 .. query'.parts /\ size' \in Int
    BY <2>1, <2>2
  <2> QED
    BY <2>1, <2>3, <2>4, <2>5 DEF NoOverrunInv
<1>7. CASE Change
  <2>1. /\ step \notin {"idle", "return"} /\ changed' = TRUE
        /\ grown' = (grown \/ (step = "fill" /\ Len(real'[part]) > Len(real[part])))
        /\ UNCHANGED <<query, step, part, size, overrun>>
        /\ real' \in [DOMAIN real -> Contents]
    BY <1>7 DEF Change
  <2>2. DOMAIN real = 1 .. query.parts /\ part \in 1 .. query.parts
    BY <2>1 DEF NoOverrunInv
  <2>3. Len(real'[part]) \in Nat /\ Len(real[part]) \in Nat /\ size \in Int
    <3>1. real'[part] \in Seq(Id)
      BY <2>1, <2>2, ContentsAssumption
    <3> QED
      BY <2>1, <3>1, ListLengths DEF NoOverrunInv
  <2>4. grown' \in BOOLEAN /\ (grown => grown')
    BY <2>1, Zenon DEF NoOverrunInv
  <2>5. ASSUME step = "fill", query.size \in {"count", "type"}, ~grown'
        PROVE  Len(real'[part]) <= size
    <3>1. ~(Len(real'[part]) > Len(real[part])) /\ ~grown
      BY <2>1, <2>5
    <3>2. Len(real[part]) <= size
      BY <2>5, <3>1 DEF NoOverrunInv
    <3> QED
      BY <2>3, <3>1, <3>2
  <2>6. NoOverrun'
    BY <2>1, <2>4 DEF NoOverrunInv, NoOverrun
  <2> QED
    BY <2>1, <2>2, <2>4, <2>5, <2>6 DEF NoOverrunInv
<1>8. CASE UNCHANGED vars
  BY <1>8 DEF vars, NoOverrunInv, NoOverrun
<1> QED
  BY <1>1, <1>2, <1>3, <1>5, <1>6, <1>7, <1>8 DEF Next, Helper

(* Whatever is created or destroyed between the calls of a helper, the     *)
(* runtime writes past no buffer whose size it is told, and past another   *)
(* only if what it holds grew after its size was settled, or in a byte     *)
(* deserialize.                                                            *)
THEOREM QueriesNoOverrun == Spec => []NoOverrun
<1>1. NoOverrunInv => NoOverrun
  BY DEF NoOverrunInv
<1> QED
  BY <1>1, InitNoOverrun, NextNoOverrun, PTL DEF Spec

-----------------------------------------------------------------------------
(* Names.                                                                  *)

(* Does the helper ask for names of ids that the runtime has just given it,*)
(* without comparing them with nullptr?                                    *)
NamesWhatItGot == query.names = "unchecked" /\ query.size # "none"

(* Such a helper has only ids that the runtime still has, until something  *)
(* changes.                                                                *)
NamesInv ==
  /\ named \in Nat
  /\ result \in Seq([id : Id, written : BOOLEAN])
  /\ step # "return" => ~crashed
  /\ step \in {"ask", "fill"} /\ query.parts = 1 => result = <<>>
  /\ step = "name" /\ NamesWhatItGot /\ ~changed /\ report # "total" =>
       \A i \in DOMAIN result : result[i].id \in SetOf(real[1])
  /\ step = "name" => query.names # "none"
  /\ report \in Reports
  /\ DiesOnlyOfUncheckedNames

LEMMA InitNames == Init => NamesInv
<1> SUFFICES ASSUME Init PROVE NamesInv
  OBVIOUS
<1>1. ~crashed /\ step = "idle"
  BY Zenon DEF Init
<1>2. named \in Nat /\ result = <<>> /\ result \in Seq([id : Id, written : BOOLEAN]) /\ report \in Reports
  BY EmptySeq DEF Init
<1>3. DiesOnlyOfUncheckedNames
  BY <1>1, Zenon DEF DiesOnlyOfUncheckedNames
<1> QED
  BY <1>1, <1>2, <1>3 DEF NamesInv

LEMMA BeginNames ==
  ASSUME NoOverrunInv, NamesInv, NEW q \in Query, Begin(q) PROVE NamesInv'
<1>1. /\ step = "idle" /\ query' = q /\ named' = 0 /\ report' = report /\ changed' = changed
      /\ step' = IF q.size = "count" THEN "ask" ELSE IF q.size = "none" THEN "name" ELSE "fill"
      /\ result' \in IF q.size = "none" THEN {<<Written(id)>> : id \in Id} ELSE {<<>>}
  BY DEF Begin
<1>2. ~crashed'
  BY <1>1, Zenon DEF Begin, NamesInv
<1>3. result' \in Seq([id : Id, written : BOOLEAN])
  <2>1. \A id \in Id : Written(id) \in [id : Id, written : BOOLEAN]
    BY DEF Written
  <2>2. CASE q.size = "none"
    <3>1. PICK id \in Id : result' = <<Written(id)>>
      BY <1>1, <2>2
    <3>2. Written(id) \in [id : Id, written : BOOLEAN]
      BY <2>1
    <3> QED
      BY <3>1, <3>2
  <2>3. CASE q.size # "none"
    BY <1>1, <2>3, EmptySeq
  <2> QED
    BY <2>2, <2>3
<1>4. step' \in {"ask", "fill"} => result' = <<>>
  BY <1>1
<1>5. step' = "name" => ~NamesWhatItGot'
  BY <1>1 DEF NamesWhatItGot
<1>6. DiesOnlyOfUncheckedNames'
  BY <1>2, Zenon DEF DiesOnlyOfUncheckedNames
<1>7. step' # "idle" /\ (step' = "name" => query'.names # "none")
  BY <1>1, QueryKinds DEF WellFormed
<1> QED
  BY <1>1, <1>2, <1>3, <1>4, <1>5, <1>6, <1>7 DEF NamesInv

(* The elements that one Fill adds are elements.                           *)
LEMMA FillTypes ==
  ASSUME NoOverrunInv, Fill
  PROVE  [i \in 1 .. KeptCount |->
            IF i <= Lower(WrittenCount, size) THEN Written(real[part][i]) ELSE Blank]
           \in Seq([id : Id, written : BOOLEAN])
<1> DEFINE n == KeptCount
           elems == [i \in 1 .. n |-> IF i <= Lower(WrittenCount, size) THEN Written(real[part][i]) ELSE Blank]
           E == [id : Id, written : BOOLEAN]
<1>1. step = "fill"
  BY DEF Fill
<1>2. /\ real[part] \in Seq(Id) /\ Len(real[part]) \in Nat /\ size \in Int
      /\ WellFormed(query) /\ part \in 1 .. query.parts
  BY <1>1, ListLengths, QueryKinds DEF NoOverrunInv
<1>3. WrittenCount \in Int /\ WrittenCount <= Len(real[part]) /\ n \in Int
  BY <1>2 DEF WrittenCount, KeptCount, Lower
<1>4. \A i \in 1 .. n : i <= Lower(WrittenCount, size) => i \in 1 .. Len(real[part]) /\ real[part][i] \in Id
  <2> HIDE DEF n
  <2>1. ASSUME NEW i \in 1 .. n, i <= Lower(WrittenCount, size) PROVE i \in 1 .. Len(real[part])
    BY <1>2, <1>3, <2>1 DEF Lower
  <2> QED
    BY <1>2, <2>1, ElementOfSeq
<1>5. elems \in Seq(E)
  <2>1. \A i \in 1 .. n : elems[i] \in E
    BY <1>4, IdAssumption DEF Written, Blank
  <2>2. elems \in [1 .. n -> E]
    BY <2>1
  <2> HIDE DEF elems, E, n
  <2>3. CASE n \in Nat
    BY <2>2, <2>3
  <2>4. CASE n \notin Nat
    <3>1. 1 .. n = 1 .. 0
      BY <1>3, <2>4
    <3>2. elems \in [1 .. 0 -> E] /\ 0 \in Nat
      BY <2>2, <3>1
    <3> QED
      BY <3>2
  <2> QED
    BY <2>3, <2>4
<1> QED
  BY <1>5

LEMMA FillNames == ASSUME NoOverrunInv, NamesInv, Fill PROVE NamesInv'
<1> DEFINE n == KeptCount
           elems == [i \in 1 .. n |-> IF i <= Lower(WrittenCount, size) THEN Written(real[part][i]) ELSE Blank]
           E == [id : Id, written : BOOLEAN]
<1>1. /\ step = "fill" /\ result' = result \o elems
      /\ step' = IF part < query.parts THEN "ask" ELSE IF query.names = "none" THEN "return" ELSE "name"
      /\ UNCHANGED <<report, query, real, size, named, changed, crashed>>
  BY DEF Fill
<1>2. /\ real[part] \in Seq(Id) /\ Len(real[part]) \in Nat /\ size \in Int
      /\ WellFormed(query) /\ part \in 1 .. query.parts
  BY <1>1, ListLengths, QueryKinds DEF NoOverrunInv
<1>3. WrittenCount \in Int /\ WrittenCount <= Len(real[part]) /\ n \in Int
  BY <1>2 DEF WrittenCount, KeptCount, Lower
<1>4. \A i \in 1 .. n : i <= Lower(WrittenCount, size) => i \in 1 .. Len(real[part]) /\ real[part][i] \in Id
  <2> HIDE DEF n
  <2>1. ASSUME NEW i \in 1 .. n, i <= Lower(WrittenCount, size) PROVE i \in 1 .. Len(real[part])
    BY <1>2, <1>3, <2>1 DEF Lower
  <2> QED
    BY <1>2, <2>1, ElementOfSeq
<1>5. elems \in Seq(E)
  BY FillTypes
<1>6. result' \in Seq(E)
  <2>1. result \in Seq(E)
    BY DEF NamesInv
  <2> HIDE DEF elems, E
  <2> QED
    BY <1>1, <1>5, <2>1, ConcatProperties
<1>7. step' = "ask" => query.parts # 1
  BY <1>1, <1>2
<1>8. ASSUME step' = "name", NamesWhatItGot, ~changed, report # "total"
      PROVE  \A i \in DOMAIN result' : result'[i].id \in SetOf(real[1])
  <2>1. query.parts = 1 /\ query.bounded = TRUE /\ query.reported = TRUE /\ part = 1
    BY <1>2, <1>8 DEF WellFormed, NamesWhatItGot
  <2>2. report = "written"
    BY <1>8, ReportsAssumption DEF NamesInv
  <2>3. n = WrittenCount /\ WrittenCount = Lower(size, Len(real[1])) /\ Lower(WrittenCount, size) = n
    BY <1>2, <2>1, <2>2 DEF WrittenCount, KeptCount, Lower
  <2>4. result' = elems
    <3>1. result = <<>>
      BY <1>1, <2>1 DEF NamesInv
    <3> HIDE DEF elems, E
    <3> QED
      BY <1>1, <1>5, <3>1, ConcatEmptySeq
  <2>5. ASSUME NEW i \in 1 .. n PROVE elems[i].id \in SetOf(real[1])
    <3>1. i <= Lower(WrittenCount, size)
      BY <1>3, <2>3
    <3>2. elems[i] = Written(real[1][i]) /\ i \in 1 .. Len(real[1])
      BY <1>4, <2>1, <3>1
    <3>3. DOMAIN real[1] = 1 .. Len(real[1])
      BY <1>2, <2>1, LenProperties
    <3> QED
      BY <3>2, <3>3 DEF Written, SetOf
  <2> QED
    BY <2>4, <2>5
<1>9. DiesOnlyOfUncheckedNames'
  BY <1>1 DEF NamesInv, DiesOnlyOfUncheckedNames
<1>10. step' # "idle" /\ step' # "fill" /\ (step' = "name" => query'.names # "none")
  BY <1>1
<1> HIDE DEF elems
<1> QED
  BY <1>1, <1>6, <1>7, <1>8, <1>9, <1>10 DEF NamesInv, NamesWhatItGot, SetOf

LEMMA NameNames == ASSUME NoOverrunInv, NamesInv, Name PROVE NamesInv'
<1> DEFINE known == result[named + 1].id \in SetOf(real[1])
<1>1. /\ step = "name" /\ named < Len(result)
      /\ named' = IF known THEN named + 1 ELSE named
      /\ result' = IF ~known /\ Checks THEN <<>> ELSE result
      /\ step' = IF known THEN step ELSE "return"
      /\ UNCHANGED <<report, query, real, changed>>
  BY DEF Name
<1>2. crashed' <=> ~known /\ ~Checks
  BY DEF Name
<1>3. named' \in Nat /\ result' \in Seq([id : Id, written : BOOLEAN])
  BY <1>1, EmptySeq DEF NamesInv
<1>4. named + 1 \in DOMAIN result
  <2>1. named \in Nat /\ Len(result) \in Nat /\ DOMAIN result = 1 .. Len(result)
    BY LenProperties DEF NamesInv
  <2> QED
    BY <1>1, <2>1
<1>5. crashed' => query.names # "checked"
  BY <1>2 DEF Checks
<1>6. query.names \in {"none", "checked", "unchecked"} /\ query.names # "none"
  BY <1>1, QueryKinds DEF NoOverrunInv, NamesInv, WellFormed
<1>7. DiesOnlyOfUncheckedNames'
  <2> SUFFICES ASSUME crashed'
               PROVE  query.names = "unchecked" /\ (query.size # "none" => changed \/ report = "total")
    BY <1>1 DEF DiesOnlyOfUncheckedNames
  <2>1. query.names = "unchecked"
    BY <1>5, <1>6
  <2>2. ASSUME query.size # "none", ~changed, report # "total" PROVE FALSE
    <3>1. known
      BY <1>1, <1>4, <2>1, <2>2 DEF NamesInv, NamesWhatItGot
    <3> QED
      BY <1>2, <3>1
  <2> QED
    BY <2>1, <2>2
<1>8. step' = "name" => result' = result
  BY <1>1
<1>9. step' # "return" => ~crashed'
  BY <1>1, <1>2
<1> HIDE DEF known
<1> QED
  BY <1>1, <1>3, <1>7, <1>8, <1>9 DEF NamesInv, NamesWhatItGot, SetOf

LEMMA NextNames == NoOverrunInv /\ NamesInv /\ [Next]_vars => NamesInv'
<1> SUFFICES ASSUME NoOverrunInv, NamesInv, [Next]_vars PROVE NamesInv'
  OBVIOUS
<1>1. CASE \E q \in Query : Begin(q)
  BY <1>1, BeginNames
<1>2. CASE Ask
  <2>1. /\ step = "ask" /\ step' = "fill"
        /\ UNCHANGED <<report, query, real, result, named, changed, crashed>>
    BY <1>2 DEF Ask
  <2> QED
    BY <2>1 DEF NamesInv, DiesOnlyOfUncheckedNames
<1>3. CASE Fill
  BY <1>3, FillNames
<1>4. CASE Name
  BY <1>4, NameNames
<1>5. CASE Named
  <2>1. step' = "return" /\ UNCHANGED <<report, query, real, result, named, changed, crashed>>
    BY <1>5 DEF Named
  <2> QED
    BY <2>1 DEF NamesInv, DiesOnlyOfUncheckedNames
<1>6. CASE Return
  <2>1. step' = "idle" /\ report' = report /\ result' = <<>> /\ named' = 0 /\ crashed' = FALSE
    BY <1>6 DEF Return
  <2>2. ~crashed' /\ DiesOnlyOfUncheckedNames'
    BY <2>1, Zenon DEF DiesOnlyOfUncheckedNames
  <2>3. named' \in Nat /\ result' \in Seq([id : Id, written : BOOLEAN])
    BY <2>1, EmptySeq
  <2> QED
    BY <2>1, <2>2, <2>3 DEF NamesInv
<1>7. CASE Change
  <2>1. /\ step \notin {"idle", "return"} /\ changed' = TRUE
        /\ UNCHANGED <<report, query, step, result, named, crashed>>
    BY <1>7 DEF Change
  <2> QED
    BY <2>1 DEF NamesInv, NamesWhatItGot, DiesOnlyOfUncheckedNames
<1>8. CASE UNCHANGED vars
  BY <1>8 DEF vars, NamesInv, NamesWhatItGot, SetOf, DiesOnlyOfUncheckedNames
<1> QED
  BY <1>1, <1>2, <1>3, <1>4, <1>5, <1>6, <1>7, <1>8 DEF Next, Helper

-----------------------------------------------------------------------------
(* Results.                                                                *)

AllThereIs == IF query.parts = 1 THEN real[1] ELSE real[1] \o real[2]

RoomFor(l) == IF query.size = "count" THEN Len(l) ELSE Lower(size, Len(l))

AsWritten(l, n) == [i \in 1 .. n |-> Written(l[i])]

(* An element that the runtime did not write has a reason.                 *)
BlanksExcused ==
  query.bounded =>
    \A i \in DOMAIN result : ~result[i].written =>
      (changed /\ ~query.reported) \/ (query.reported /\ report = "total")

(* What the result holds when the first of two lists has been read, and    *)
(* when the last one has.                                                  *)
Gathered ==
  step \in {"ask", "fill"} =>
    IF part = 1 THEN result = <<>> ELSE ~changed => result = AsWritten(real[1], Len(real[1]))

Complete ==
  query.bounded /\ step \in {"name", "return"} /\ ~changed /\ query.size # "none" =>
    (RoomFor(AllThereIs) = Len(AllThereIs) \/ report = "written"
       => result = AsWritten(AllThereIs, RoomFor(AllThereIs)) /\ ~crashed)

ResultInv ==
  /\ BlanksExcused
  /\ Gathered
  /\ Complete

(* What one Fill adds to the result of a helper that tells the runtime the *)
(* size of its buffer.                                                     *)
LEMMA FillElements ==
  ASSUME NoOverrunInv, NamesInv, Fill, query.bounded
  PROVE  \E elems :
           /\ elems \in Seq([id : Id, written : BOOLEAN]) /\ result' = result \o elems
           /\ \A i \in DOMAIN elems : ~elems[i].written =>
                (changed /\ ~query.reported) \/ (query.reported /\ report = "total")
           /\ ~changed /\ (RoomFor(real[part]) = Len(real[part]) \/ report = "written") =>
                elems = AsWritten(real[part], RoomFor(real[part]))
<1> DEFINE n == KeptCount
           len == Len(real[part])
           elems == [i \in 1 .. n |-> IF i <= Lower(WrittenCount, size) THEN Written(real[part][i]) ELSE Blank]
<1>1. step = "fill" /\ result' = result \o elems
  BY DEF Fill
<1>2. /\ real[part] \in Seq(Id) /\ len \in Nat /\ size \in Int /\ WellFormed(query)
      /\ query.size \in {"count", "max", "fixed", "input", "type"} /\ report \in {"written", "total"}
  BY <1>1, ListLengths, QueryKinds, ReportsAssumption DEF NoOverrunInv, NamesInv, WellFormed
<1>3. /\ WrittenCount = Lower(size, len)
      /\ n = IF ~query.reported THEN size ELSE IF report = "written" THEN Lower(size, len) ELSE len
  BY DEF WrittenCount, KeptCount
<1>4. /\ ~query.reported => query.size = "count"
      /\ query.size = "count" /\ ~changed => size = len
  BY <1>1, <1>2 DEF WellFormed, NoOverrunInv
<1>5. elems \in Seq([id : Id, written : BOOLEAN])
  BY FillTypes
<1>6. DOMAIN elems = 1 .. n
  OBVIOUS
<1> HIDE DEF n, len
<1>7. n \in Int
  BY <1>2, <1>3 DEF Lower
<1>8. ASSUME NEW i \in 1 .. n, ~elems[i].written
      PROVE  (changed /\ ~query.reported) \/ (query.reported /\ report = "total")
  <2>1. ~(i <= Lower(WrittenCount, size))
    BY <1>8 DEF Written
  <2>2. ~(n <= Lower(size, len))
    BY <1>2, <1>3, <1>7, <2>1 DEF Lower
  <2>3. ~(query.reported /\ report = "written")
    BY <1>2, <1>3, <2>2 DEF Lower
  <2>4. ~query.reported => changed
    BY <1>2, <1>3, <1>4, <2>2 DEF Lower
  <2> QED
    BY <1>2, <2>3, <2>4
<1>9. ASSUME ~changed, RoomFor(real[part]) = len \/ report = "written"
      PROVE  elems = AsWritten(real[part], RoomFor(real[part]))
  <2>1. RoomFor(real[part]) = IF query.size = "count" THEN len ELSE Lower(size, len)
    BY DEF RoomFor, len
  <2>2. n = RoomFor(real[part]) /\ n <= Lower(WrittenCount, size)
    BY <1>2, <1>3, <1>4, <1>9, <2>1 DEF Lower
  <2>3. \A i \in 1 .. n : elems[i] = Written(real[part][i])
    <3>1. Lower(WrittenCount, size) \in Int
      BY <1>2, <1>3 DEF Lower
    <3> QED
      BY <1>7, <2>2, <3>1
  <2> QED
    BY <2>2, <2>3 DEF AsWritten
<1> QED
  BY <1>1, <1>5, <1>6, <1>8, <1>9 DEF len

LEMMA AsWrittenConcat ==
  ASSUME NEW a \in Seq(Id), NEW b \in Seq(Id)
  PROVE  /\ AsWritten(a, Len(a)) \in Seq([id : Id, written : BOOLEAN])
         /\ AsWritten(a, Len(a)) \o AsWritten(b, Len(b)) = AsWritten(a \o b, Len(a \o b))
<1> DEFINE E == [id : Id, written : BOOLEAN]
<1>1. ASSUME NEW l \in Seq(Id)
      PROVE  /\ AsWritten(l, Len(l)) \in Seq(E) /\ Len(AsWritten(l, Len(l))) = Len(l) /\ Len(l) \in Nat
             /\ \A i \in 1 .. Len(l) : AsWritten(l, Len(l))[i] = Written(l[i])
  <2>1. Len(l) \in Nat /\ \A i \in 1 .. Len(l) : l[i] \in Id
    BY LenProperties, ElementOfSeq
  <2> DEFINE w == AsWritten(l, Len(l))
             n == Len(l)
  <2>2. w \in [1 .. n -> E] /\ \A i \in 1 .. n : w[i] = Written(l[i])
    BY <2>1 DEF AsWritten, Written
  <2> HIDE DEF w
  <2>3. w \in Seq(E) /\ Len(w) = n
    <3> HIDE DEF E
    <3> QED
      BY <2>1, <2>2
  <2> QED
    BY <2>1, <2>2, <2>3 DEF w
<1> DEFINE c == a \o b
           u == AsWritten(a, Len(a))
           v == AsWritten(b, Len(b))
           w == AsWritten(c, Len(c))
<1>2. /\ c \in Seq(Id) /\ Len(c) = Len(a) + Len(b)
      /\ \A i \in 1 .. Len(a) + Len(b) : c[i] = IF i <= Len(a) THEN a[i] ELSE b[i - Len(a)]
  BY ConcatProperties
<1>3. /\ u \in Seq(E) /\ Len(u) = Len(a) /\ Len(a) \in Nat /\ \A i \in 1 .. Len(a) : u[i] = Written(a[i])
      /\ v \in Seq(E) /\ Len(v) = Len(b) /\ Len(b) \in Nat /\ \A i \in 1 .. Len(b) : v[i] = Written(b[i])
  BY <1>1
<1>4. w \in Seq(E) /\ Len(w) = Len(c) /\ \A i \in 1 .. Len(c) : w[i] = Written(c[i])
  BY <1>1, <1>2
<1> HIDE DEF c, u, v, w, E
<1>5. /\ u \o v \in Seq(E) /\ Len(u \o v) = Len(a) + Len(b)
      /\ \A i \in 1 .. Len(a) + Len(b) : (u \o v)[i] = IF i <= Len(a) THEN u[i] ELSE v[i - Len(a)]
  <2>1. u \in Seq(E) /\ v \in Seq(E)
    BY <1>3
  <2>2. /\ u \o v \in Seq(E) /\ Len(u \o v) = Len(u) + Len(v)
        /\ \A i \in 1 .. Len(u) + Len(v) : (u \o v)[i] = IF i <= Len(u) THEN u[i] ELSE v[i - Len(u)]
    BY <2>1, ConcatProperties
  <2>3. Len(u) = Len(a) /\ Len(v) = Len(b)
    BY <1>3
  <2> QED
    BY <2>2, <2>3
<1>6. ASSUME NEW i \in 1 .. Len(a) + Len(b) PROVE (u \o v)[i] = w[i]
  <2>1. Len(a) \in Nat /\ Len(b) \in Nat
    BY <1>3
  <2>2. w[i] = Written(c[i])
    BY <1>2, <1>4
  <2>3. CASE i <= Len(a)
    <3>1. i \in 1 .. Len(a)
      BY <2>1, <2>3
    <3> QED
      BY <1>2, <1>3, <1>5, <2>2, <2>3, <3>1
  <2>4. CASE ~(i <= Len(a))
    <3>1. i - Len(a) \in 1 .. Len(b)
      BY <2>1, <2>4
    <3> QED
      BY <1>2, <1>3, <1>5, <2>2, <2>4, <3>1
  <2> QED
    BY <2>3, <2>4
<1>7. u \o v = w
  BY <1>2, <1>4, <1>5, <1>6, SeqEqual
<1> QED
  BY <1>3, <1>7 DEF c, u, v, w, E


LEMMA InitResult == Init => ResultInv
<1> SUFFICES ASSUME Init PROVE ResultInv
  OBVIOUS
<1>1. step = "idle" /\ result = <<>> /\ DOMAIN result = {}
  BY EmptySeq DEF Init
<1> QED
  BY <1>1 DEF ResultInv, BlanksExcused, Gathered, Complete

LEMMA BeginResult ==
  ASSUME NoOverrunInv, NamesInv, NEW q \in Query, Begin(q) PROVE ResultInv'
<1>1. /\ query' = q /\ part' = 1
      /\ step' = IF q.size = "count" THEN "ask" ELSE IF q.size = "none" THEN "name" ELSE "fill"
      /\ result' \in IF q.size = "none" THEN {<<Written(id)>> : id \in Id} ELSE {<<>>}
  BY DEF Begin
<1>2. ASSUME NEW i \in DOMAIN result' PROVE result'[i].written
  <2>1. q.size = "none"
    BY <1>1, <1>2, EmptySeq
  <2>2. PICK id \in Id : result' = <<Written(id)>>
    BY <1>1, <2>1
  <2>3. result'[i] = Written(id)
    BY <2>2
  <2> QED
    BY <2>3 DEF Written
<1>3. BlanksExcused'
  BY <1>2 DEF BlanksExcused
<1>4. Gathered'
  BY <1>1 DEF Gathered
<1>5. Complete'
  BY <1>1 DEF Complete
<1> QED
  BY <1>3, <1>4, <1>5 DEF ResultInv

LEMMA FillResult == ASSUME NoOverrunInv, NamesInv, ResultInv, Fill PROVE ResultInv'
<1>1. /\ step = "fill" /\ UNCHANGED <<report, query, real, size, changed, crashed>>
      /\ part' = Lower(part + 1, query.parts)
      /\ step' = IF part < query.parts THEN "ask" ELSE IF query.names = "none" THEN "return" ELSE "name"
  BY DEF Fill
<1>2. WellFormed(query) /\ part \in 1 .. query.parts /\ real[part] \in Seq(Id) /\ query.size # "none"
  BY <1>1, QueryKinds, ListLengths DEF NoOverrunInv
<1>3. result \in Seq([id : Id, written : BOOLEAN])
  BY DEF NamesInv
<1>4. part = 1 => result = <<>>
  BY <1>1 DEF ResultInv, Gathered
<1>5. CASE ~query.bounded
  <2>1. query.parts = 1 /\ step' # "ask" /\ step' # "fill"
    BY <1>1, <1>2, <1>5 DEF WellFormed
  <2> QED
    BY <1>1, <1>5, <2>1 DEF ResultInv, BlanksExcused, Gathered, Complete
<1>6. CASE query.bounded
  <2> DEFINE E == [id : Id, written : BOOLEAN]
  <2>1. PICK elems :
           /\ elems \in Seq(E) /\ result' = result \o elems
           /\ \A i \in DOMAIN elems : ~elems[i].written =>
                (changed /\ ~query.reported) \/ (query.reported /\ report = "total")
           /\ ~changed /\ (RoomFor(real[part]) = Len(real[part]) \/ report = "written") =>
                elems = AsWritten(real[part], RoomFor(real[part]))
    BY <1>6, FillElements
  <2> HIDE DEF E
  <2>2. BlanksExcused'
    <3> SUFFICES ASSUME NEW i \in DOMAIN result', ~result'[i].written
                 PROVE  (changed /\ ~query.reported) \/ (query.reported /\ report = "total")
      BY <1>1 DEF BlanksExcused
    <3>1. \/ i \in DOMAIN result /\ result'[i] = result[i]
          \/ \E j \in DOMAIN elems : result'[i] = elems[j]
      <4>1. result \in Seq(E) /\ elems \in Seq(E)
        BY <1>3, <2>1 DEF E
      <4>2. /\ DOMAIN result = 1 .. Len(result) /\ DOMAIN elems = 1 .. Len(elems)
            /\ Len(result) \in Nat /\ Len(elems) \in Nat
        BY <4>1, LenProperties
      <4>3. /\ result' \in Seq(E) /\ Len(result') = Len(result) + Len(elems)
            /\ \A k \in 1 .. Len(result) + Len(elems) :
                 result'[k] = IF k <= Len(result) THEN result[k] ELSE elems[k - Len(result)]
        BY <2>1, <4>1, ConcatProperties
      <4>4. DOMAIN result' = 1 .. Len(result')
        BY <4>3, LenProperties
      <4>5. i \in 1 .. Len(result) + Len(elems)
        BY <4>3, <4>4
      <4>6. CASE i <= Len(result)
        BY <4>2, <4>3, <4>5, <4>6
      <4>7. CASE ~(i <= Len(result))
        <5>1. i - Len(result) \in DOMAIN elems
          BY <4>2, <4>5, <4>7
        <5> QED
          BY <4>3, <4>5, <4>7, <5>1
      <4> QED
        BY <4>6, <4>7
    <3>2. CASE i \in DOMAIN result /\ result'[i] = result[i]
      BY <1>6, <3>2 DEF ResultInv, BlanksExcused
    <3>3. CASE \E j \in DOMAIN elems : result'[i] = elems[j]
      BY <2>1, <3>3
    <3> QED
      BY <3>1, <3>2, <3>3
  <2>3. part = 1 => result' = elems
    BY <1>4, <2>1, ConcatEmptySeq
  <2>4. Gathered' /\ Complete'
    <3>1. CASE query.parts = 1
      <4>1. part = 1 /\ step' \notin {"ask", "fill"}
        BY <1>1, <1>2, <3>1
      <4>2. Gathered'
        BY <4>1 DEF Gathered
      <4>3. ASSUME ~changed, RoomFor(real[1]) = Len(real[1]) \/ report = "written"
            PROVE  result' = AsWritten(real[1], RoomFor(real[1])) /\ ~crashed
        <5>1. result' = AsWritten(real[1], RoomFor(real[1]))
          BY <2>1, <2>3, <4>1, <4>3
        <5>2. ~crashed
          BY <1>1 DEF NamesInv
        <5> QED
          BY <5>1, <5>2
      <4>4. Complete'
        BY <1>1, <3>1, <4>3 DEF Complete, AllThereIs, RoomFor, AsWritten
      <4> QED
        BY <4>2, <4>4
    <3>2. CASE query.parts = 2 /\ part = 1
      <4>1. step' = "ask" /\ part' = 2 /\ query.size = "count"
        BY <1>1, <1>2, <3>2 DEF WellFormed, Lower
      <4>2. ~changed => result' = AsWritten(real[1], Len(real[1]))
        BY <2>1, <2>3, <3>2, <4>1 DEF RoomFor
      <4> QED
        BY <1>1, <4>1, <4>2 DEF Gathered, Complete, AsWritten
    <3>3. CASE query.parts = 2 /\ part = 2
      <4>1. step' = "return" /\ query.size = "count"
        BY <1>1, <1>2, <3>3 DEF WellFormed
      <4>2. real[1] \in Seq(Id) /\ real[2] \in Seq(Id)
        BY <1>1, <3>3, ContentsAssumption DEF NoOverrunInv
      <4>3. ~changed => result' = AsWritten(real[1], Len(real[1])) \o AsWritten(real[2], Len(real[2]))
        <5>1. ~changed => elems = AsWritten(real[2], Len(real[2]))
          BY <2>1, <3>3, <4>1 DEF RoomFor
        <5>2. ~changed => result = AsWritten(real[1], Len(real[1]))
          BY <1>1, <3>3 DEF ResultInv, Gathered
        <5> QED
          BY <2>1, <5>1, <5>2
      <4>4. ~changed => result' = AsWritten(real[1] \o real[2], Len(real[1] \o real[2]))
        BY <4>2, <4>3, AsWrittenConcat
      <4>5. ~crashed
        BY <1>1 DEF NamesInv
      <4>6. Gathered'
        BY <4>1 DEF Gathered
      <4>7. AllThereIs' = real[1] \o real[2] /\ RoomFor(AllThereIs)' = Len(real[1] \o real[2])
        BY <1>1, <3>3, <4>1 DEF AllThereIs, RoomFor
      <4>8. AsWritten(AllThereIs, RoomFor(AllThereIs))' = AsWritten(real[1] \o real[2], Len(real[1] \o real[2]))
        BY <4>7 DEF AsWritten
      <4>9. Complete'
        BY <1>1, <4>4, <4>5, <4>8 DEF Complete
      <4> QED
        BY <4>6, <4>9
    <3> QED
      BY <1>2, <3>1, <3>2, <3>3 DEF WellFormed
  <2> QED
    BY <2>2, <2>4 DEF ResultInv
<1> QED
  BY <1>5, <1>6

LEMMA NameResult == ASSUME NoOverrunInv, NamesInv, ResultInv, Name PROVE ResultInv'
<1> DEFINE known == result[named + 1].id \in SetOf(real[1])
<1>1. /\ step = "name" /\ named < Len(result)
      /\ result' = IF ~known /\ Checks THEN <<>> ELSE result
      /\ step' = IF known THEN step ELSE "return"
      /\ crashed' = (~known /\ ~Checks)
      /\ UNCHANGED <<report, query, real, size, changed>>
  BY DEF Name
<1>2. BlanksExcused'
  BY <1>1, EmptySeq DEF ResultInv, BlanksExcused
<1>3. Gathered'
  BY <1>1 DEF Gathered
<1>4. Complete'
  <2>1. ASSUME query.bounded, ~changed, query.size # "none",
               RoomFor(AllThereIs) = Len(AllThereIs) \/ report = "written"
        PROVE  result' = AsWritten(AllThereIs, RoomFor(AllThereIs)) /\ ~crashed'
    <3>1. result = AsWritten(AllThereIs, RoomFor(AllThereIs))
      BY <1>1, <2>1 DEF ResultInv, Complete
    <3>2. WellFormed(query) /\ query.parts = 1 /\ part = 1 /\ size \in Int
      BY <1>1, <2>1, QueryKinds DEF NoOverrunInv, NamesInv, WellFormed
    <3>3. AllThereIs = real[1] /\ real[1] \in Seq(Id) /\ Len(real[1]) \in Nat
      BY <1>1, <3>2, ListLengths DEF AllThereIs
    <3>4. RoomFor(real[1]) \in Int /\ RoomFor(real[1]) <= Len(real[1])
      BY <3>2, <3>3 DEF RoomFor, Lower
    <3>5. named + 1 \in DOMAIN result
      <4>1. named \in Nat /\ Len(result) \in Nat /\ DOMAIN result = 1 .. Len(result)
        BY LenProperties DEF NamesInv
      <4> QED
        BY <1>1, <4>1
    <3>6. named + 1 \in 1 .. RoomFor(real[1]) /\ result[named + 1] = Written(real[1][named + 1])
      BY <3>1, <3>3, <3>5 DEF AsWritten
    <3>7. named + 1 \in DOMAIN real[1]
      <4>1. DOMAIN real[1] = 1 .. Len(real[1])
        BY <3>3, LenProperties
      <4> QED
        BY <3>3, <3>4, <3>6, <4>1
    <3>8. known
      BY <3>6, <3>7 DEF Written, SetOf
    <3> HIDE DEF known
    <3> QED
      BY <1>1, <3>1, <3>8
  <2> HIDE DEF known
  <2>2. AllThereIs' = AllThereIs /\ RoomFor(AllThereIs)' = RoomFor(AllThereIs)
    BY <1>1 DEF AllThereIs, RoomFor
  <2>3. AsWritten(AllThereIs, RoomFor(AllThereIs))' = AsWritten(AllThereIs, RoomFor(AllThereIs))
    BY <2>2 DEF AsWritten
  <2> QED
    BY <1>1, <2>1, <2>2, <2>3 DEF Complete
<1> QED
  BY <1>2, <1>3, <1>4 DEF ResultInv

LEMMA NextResult == NoOverrunInv /\ NamesInv /\ ResultInv /\ [Next]_vars => ResultInv'
<1> SUFFICES ASSUME NoOverrunInv, NamesInv, ResultInv, [Next]_vars PROVE ResultInv'
  OBVIOUS
<1>1. CASE \E q \in Query : Begin(q)
  BY <1>1, BeginResult
<1>2. CASE Ask
  <2>1. step = "ask" /\ step' = "fill" /\ UNCHANGED <<report, query, real, part, result, changed>>
    BY <1>2 DEF Ask
  <2> QED
    BY <2>1 DEF ResultInv, BlanksExcused, Gathered, Complete, AsWritten
<1>3. CASE Fill
  BY <1>3, FillResult
<1>4. CASE Name
  BY <1>4, NameResult
<1>5. CASE Named
  <2>1. /\ step = "name" /\ step' = "return"
        /\ UNCHANGED <<report, query, real, size, result, changed, crashed>>
    BY <1>5 DEF Named
  <2>2. AllThereIs' = AllThereIs /\ RoomFor(AllThereIs)' = RoomFor(AllThereIs)
    BY <2>1 DEF AllThereIs, RoomFor
  <2>3. AsWritten(AllThereIs, RoomFor(AllThereIs))' = AsWritten(AllThereIs, RoomFor(AllThereIs))
    BY <2>2 DEF AsWritten
  <2> QED
    BY <2>1, <2>2, <2>3 DEF ResultInv, BlanksExcused, Gathered, Complete
<1>6. CASE Return
  <2>1. step' = "idle" /\ result' = <<>> /\ DOMAIN result' = {}
    BY <1>6, EmptySeq DEF Return
  <2> QED
    BY <2>1 DEF ResultInv, BlanksExcused, Gathered, Complete
<1>7. CASE Change
  <2>1. changed' = TRUE /\ UNCHANGED <<report, query, step, part, result>>
    BY <1>7 DEF Change
  <2> QED
    BY <2>1 DEF ResultInv, BlanksExcused, Gathered, Complete
<1>8. CASE UNCHANGED vars
  <2>1. UNCHANGED <<report, query, step, real, part, size, result, changed, crashed>>
    BY <1>8 DEF vars
  <2>2. AllThereIs' = AllThereIs /\ RoomFor(AllThereIs)' = RoomFor(AllThereIs)
    BY <2>1 DEF AllThereIs, RoomFor
  <2>3. AsWritten(AllThereIs, RoomFor(AllThereIs))' = AsWritten(AllThereIs, RoomFor(AllThereIs))
    BY <2>2 DEF AsWritten
  <2> QED
    BY <2>1, <2>2, <2>3 DEF ResultInv, BlanksExcused, Gathered, Complete, AsWritten
<1> QED
  BY <1>1, <1>2, <1>3, <1>4, <1>5, <1>6, <1>7, <1>8 DEF Next, Helper

-----------------------------------------------------------------------------
(* Maps. *)

(* An element nobody wrote looks like the id 0, and in a list that is read *)
(* in one piece it comes after those that were written.                    *)
MapsInv ==
  /\ \A i \in DOMAIN result : ~result[i].written => result[i].id = 0
  /\ query.parts = 1 =>
       \A i \in DOMAIN result : result[i].written => \A j \in 1 .. i - 1 : result[j].written

LEMMA InitMaps == Init => MapsInv
BY EmptySeq DEF Init, MapsInv

LEMMA BeginMaps == ASSUME NEW q \in Query, Begin(q) PROVE MapsInv'
<1>1. result' \in IF q.size = "none" THEN {<<Written(id)>> : id \in Id} ELSE {<<>>}
  BY DEF Begin
<1>2. CASE q.size = "none"
  <2>1. PICK id \in Id : result' = <<Written(id)>>
    BY <1>1, <1>2
  <2>2. DOMAIN result' = {1} /\ result'[1].written
    BY <2>1 DEF Written
  <2> QED
    BY <2>2 DEF MapsInv
<1>3. CASE q.size # "none"
  BY <1>1, <1>3, EmptySeq DEF MapsInv
<1> QED
  BY <1>2, <1>3

LEMMA FillMaps == ASSUME NoOverrunInv, NamesInv, MapsInv, Fill PROVE MapsInv'
<1> DEFINE n == KeptCount
           m == Lower(WrittenCount, size)
           elems == [i \in 1 .. n |-> IF i <= m THEN Written(real[part][i]) ELSE Blank]
           E == [id : Id, written : BOOLEAN]
<1>1. /\ step = "fill" /\ result' = result \o elems /\ query' = query
  BY DEF Fill
<1>2. elems \in Seq(E) /\ result \in Seq(E)
  BY FillTypes DEF NamesInv
<1>3. ASSUME NEW i \in DOMAIN elems
      PROVE  (elems[i].written => i <= m) /\ (i <= m => elems[i].written)
               /\ (~elems[i].written => elems[i].id = 0)
  BY DEF Written, Blank
<1>4. n \in Int /\ m \in Int
  <2>1. Len(real[part]) \in Nat /\ size \in Int
    BY <1>1, ListLengths DEF NoOverrunInv
  <2> QED
    BY <2>1 DEF KeptCount, WrittenCount, Lower
<1> HIDE DEF n, m, elems, E
<1>5. /\ DOMAIN result = 1 .. Len(result) /\ DOMAIN elems = 1 .. Len(elems)
      /\ Len(result) \in Nat /\ Len(elems) \in Nat
  BY <1>2, LenProperties
<1>6. /\ DOMAIN result' = 1 .. Len(result) + Len(elems)
      /\ \A k \in 1 .. Len(result) + Len(elems) :
           result'[k] = IF k <= Len(result) THEN result[k] ELSE elems[k - Len(result)]
  BY <1>1, <1>2, ConcatProperties, LenProperties
<1>7. ASSUME NEW i \in DOMAIN result', ~result'[i].written PROVE result'[i].id = 0
  <2>1. CASE i <= Len(result)
    BY <1>5, <1>6, <1>7, <2>1 DEF MapsInv
  <2>2. CASE ~(i <= Len(result))
    <3>1. i - Len(result) \in DOMAIN elems
      BY <1>5, <1>6, <2>2
    <3>2. result'[i] = elems[i - Len(result)]
      BY <1>6, <2>2
    <3> QED
      BY <1>3, <1>7, <3>1, <3>2
  <2> QED
    BY <2>1, <2>2
<1>8. ASSUME query.parts = 1, NEW i \in DOMAIN result', result'[i].written, NEW j \in 1 .. i - 1
      PROVE  result'[j].written
  <2>1. result = <<>>
    BY <1>1, <1>8 DEF NamesInv
  <2>2. result' = elems
    BY <1>1, <1>2, <2>1, ConcatEmptySeq
  <2>3. i \in DOMAIN elems /\ elems[i].written
    BY <1>8, <2>2
  <2>4. i <= m
    BY <1>3, <2>3
  <2>5. j <= m /\ j \in DOMAIN elems
    BY <1>4, <1>5, <2>3, <2>4
  <2>6. elems[j].written
    BY <1>3, <2>5
  <2> QED
    BY <2>2, <2>6
<1> QED
  BY <1>1, <1>7, <1>8 DEF MapsInv

LEMMA NextMaps == NoOverrunInv /\ NamesInv /\ MapsInv /\ [Next]_vars => MapsInv'
<1> SUFFICES ASSUME NoOverrunInv, NamesInv, MapsInv, [Next]_vars PROVE MapsInv'
  OBVIOUS
<1>1. CASE \E q \in Query : Begin(q)
  BY <1>1, BeginMaps
<1>2. CASE Fill
  BY <1>2, FillMaps
<1>3. CASE Name
  <2>1. query' = query /\ result' \in {result, <<>>}
    BY <1>3 DEF Name
  <2> QED
    BY <2>1, EmptySeq DEF MapsInv
<1>4. CASE Return
  <2>1. result' = <<>> /\ DOMAIN result' = {}
    BY <1>4, EmptySeq DEF Return
  <2> QED
    BY <2>1 DEF MapsInv
<1>5. CASE Ask \/ Named \/ Change \/ UNCHANGED vars
  <2>1. query' = query /\ result' = result
    BY <1>5 DEF Ask, Named, Change, vars
  <2> QED
    BY <2>1 DEF MapsInv
<1> QED
  BY <1>1, <1>2, <1>3, <1>4, <1>5 DEF Next, Helper

(* A set of numbers that is not empty has a smallest element, and one that *)
(* is bounded a largest.                                                   *)
LEMMA Smallest ==
  ASSUME NEW T, T \subseteq Nat, T # {}
  PROVE  \E x \in T : \A y \in T : x <= y
<1>1. PICK x \in T : \A y \in T : ~(<<y, x>> \in OpToRel(<, Nat))
  BY NatLessThanWellFounded, WFMin
<1>2. \A y \in T : ~(y < x)
  BY <1>1 DEF OpToRel
<1> QED
  BY <1>2

LEMMA Largest ==
  ASSUME NEW n \in Nat, NEW T, T \subseteq 1 .. n, T # {}
  PROVE  \E x \in T : \A y \in T : y <= x
<1> DEFINE U == {n - x : x \in T}
<1>1. U \subseteq Nat /\ U # {}
  <2>1. \A x \in T : n - x \in Nat
    OBVIOUS
  <2>2. PICK x : x \in T
    OBVIOUS
  <2> QED
    BY <2>1, <2>2
<1> HIDE DEF U
<1>2. PICK u \in U : \A v \in U : u <= v
  BY <1>1, Smallest
<1>3. PICK x \in T : u = n - x
  BY DEF U
<1>4. \A y \in T : n - x <= n - y
  BY <1>2, <1>3 DEF U
<1> QED
  BY <1>4

LEMMA FirstIsThere ==
  ASSUME NamesInv, NEW i \in DOMAIN result
  PROVE  FirstAt(result[i].id) \in 1 .. i
<1> DEFINE id == result[i].id
           T == {j \in DOMAIN result : result[j].id = id}
<1>1. DOMAIN result = 1 .. Len(result) /\ Len(result) \in Nat
  BY LenProperties DEF NamesInv
<1>2. i \in T /\ T \subseteq Nat
  BY <1>1
<1>3. PICK f \in T : \A j \in T : f <= j
  BY <1>2, Smallest
<1>4. f \in DOMAIN result /\ result[f].id = id /\ \A j \in 1 .. f - 1 : result[j].id # id
  BY <1>1, <1>3
<1> HIDE DEF T, id
<1>5. \A e \in DOMAIN result :
         result[e].id = id /\ (\A j \in 1 .. e - 1 : result[j].id # id) => e \in 1 .. i
  BY <1>1 DEF id
<1>6. /\ FirstAt(id) \in DOMAIN result /\ result[FirstAt(id)].id = id
      /\ \A j \in 1 .. FirstAt(id) - 1 : result[j].id # id
  BY <1>4, Zenon DEF FirstAt
<1> QED
  BY <1>5, <1>6 DEF id

LEMMA LastIsThere ==
  ASSUME NamesInv, NEW i \in DOMAIN result
  PROVE  LastAt(result[i].id) \in DOMAIN result /\ result[LastAt(result[i].id)].id = result[i].id
<1> DEFINE id == result[i].id
           T == {j \in DOMAIN result : result[j].id = id}
<1>1. DOMAIN result = 1 .. Len(result) /\ Len(result) \in Nat
  BY LenProperties DEF NamesInv
<1>2. i \in T /\ T \subseteq 1 .. Len(result)
  BY <1>1
<1>3. PICK f \in T : \A j \in T : j <= f
  BY <1>1, <1>2, Largest
<1>4. f \in DOMAIN result /\ result[f].id = id /\ \A j \in f + 1 .. Len(result) : result[j].id # id
  BY <1>1, <1>3
<1> HIDE DEF T, id
<1>5. LastAt(id) \in DOMAIN result /\ result[LastAt(id)].id = id
  BY <1>4, Zenon DEF LastAt
<1> QED
  BY <1>5 DEF id

-----------------------------------------------------------------------------
(* Types. *)

(* What TypeOK says and the invariants above do not, and that a helper     *)
(* which checks names looks up only one: when it finds none and returns    *)
(* nothing, it has found none before.                                      *)
TypesInv ==
  /\ step \in {"idle", "ask", "fill", "name", "return"}
  /\ step = "idle" => real = <<>>
  /\ size \in Nat
  /\ named <= Len(result)
  /\ crashed \in BOOLEAN
  /\ query.names = "checked" => Len(result) <= 1

LEMMA InitTypes == Init => TypesInv
<1> SUFFICES ASSUME Init PROVE TypesInv
  OBVIOUS
<1>1. step = "idle" /\ real = <<>> /\ size \in Nat /\ named <= Len(result) /\ Len(result) <= 1
  BY DEF Init
<1>2. crashed \in BOOLEAN
  BY Zenon DEF Init
<1> QED
  BY <1>1, <1>2 DEF TypesInv

LEMMA BeginTypes ==
  ASSUME TypesInv, NEW q \in Query, Begin(q) PROVE TypesInv'
<1>1. WellFormed(q) /\ query' = q /\ named' = 0 /\ crashed' = crashed
  BY QueryKinds DEF Begin
<1>2. step' \in {"ask", "name", "fill"}
  BY DEF Begin
<1>3. size' \in Nat
  <2>1. real' \in [1 .. q.parts -> Contents] /\ 1 \in 1 .. q.parts
    BY <1>1 DEF Begin, WellFormed
  <2>2. Len(real'[1]) \in Nat
    BY <2>1, ContentsAssumption
  <2>3. FirstSizes(q, real') \subseteq Nat
    BY <2>2, FirstSizesAreNaturals
  <2>4. size' \in FirstSizes(q, real')
    BY DEF Begin
  <2> QED
    BY <2>3, <2>4
<1>4. Len(result') \in 0 .. 1
  <2>1. result' \in IF q.size = "none" THEN {<<Written(id)>> : id \in Id} ELSE {<<>>}
    BY DEF Begin
  <2>2. CASE q.size = "none"
    <3>1. PICK id \in Id : result' = <<Written(id)>>
      BY <2>1, <2>2
    <3> QED
      BY <3>1
  <2>3. CASE q.size # "none"
    BY <2>1, <2>3
  <2> QED
    BY <2>2, <2>3
<1>5. crashed' \in BOOLEAN
  BY <1>1 DEF TypesInv
<1>6. named' <= Len(result') /\ Len(result') <= 1
  <2> DEFINE l == Len(result')
  <2>1. l \in 0 .. 1
    BY <1>4
  <2> HIDE DEF l
  <2>2. 0 <= l /\ l <= 1
    BY <2>1
  <2> QED
    BY <1>1, <2>2, Zenon DEF l
<1>7. step' # "idle" /\ step' \in {"idle", "ask", "fill", "name", "return"}
  BY <1>2
<1> QED
  BY <1>3, <1>5, <1>6, <1>7 DEF TypesInv

LEMMA FillTypesInv == ASSUME NoOverrunInv, NamesInv, TypesInv, Fill PROVE TypesInv'
<1> DEFINE elems == [i \in 1 .. KeptCount |->
                       IF i <= Lower(WrittenCount, size) THEN Written(real[part][i]) ELSE Blank]
           E == [id : Id, written : BOOLEAN]
<1>1. /\ step = "fill" /\ result' = result \o elems
      /\ step' \in {"ask", "return", "name"}
      /\ UNCHANGED <<query, real, size, named, crashed>>
  BY DEF Fill
<1>2. elems \in Seq(E) /\ result \in Seq(E)
  BY FillTypes DEF NamesInv
<1> HIDE DEF elems, E
<1>3. Len(result') = Len(result) + Len(elems) /\ Len(result) \in Nat /\ Len(elems) \in Nat
  BY <1>1, <1>2, ConcatProperties, LenProperties
<1>4. query.names # "checked"
  BY <1>1, QueryKinds DEF NoOverrunInv, WellFormed
<1>5. named' <= Len(result')
  BY <1>1, <1>3 DEF NamesInv, TypesInv
<1> QED
  BY <1>1, <1>4, <1>5 DEF TypesInv

LEMMA NameTypes == ASSUME NoOverrunInv, NamesInv, TypesInv, Name PROVE TypesInv'
<1> DEFINE known == result[named + 1].id \in SetOf(real[1])
<1>1. /\ step = "name" /\ named < Len(result)
      /\ named' = IF known THEN named + 1 ELSE named
      /\ result' = IF ~known /\ Checks THEN <<>> ELSE result
      /\ step' = IF known THEN step ELSE "return"
      /\ UNCHANGED <<query, real, size>>
  BY DEF Name
<1>2. crashed' \in BOOLEAN
  BY Zenon DEF Name
<1>3. named \in Nat /\ Len(result) \in Nat
  BY LenProperties DEF NamesInv
<1> HIDE DEF known
<1>4. CASE ~known /\ Checks
  <2>1. Len(result) <= 1
    BY <1>4 DEF TypesInv, Checks
  <2>2. named' = 0 /\ Len(result') = 0
    BY <1>1, <1>3, <1>4, <2>1
  <2> QED
    BY <1>1, <1>2, <1>4, <2>2 DEF TypesInv
<1>5. CASE ~(~known /\ Checks)
  <2>1. result' = result /\ named' <= Len(result) /\ step' \in {"name", "return"}
    BY <1>1, <1>3, <1>5
  <2> QED
    BY <1>1, <1>2, <2>1 DEF TypesInv
<1> QED
  BY <1>4, <1>5

LEMMA NextTypes == NoOverrunInv /\ NamesInv /\ TypesInv /\ [Next]_vars => TypesInv'
<1> SUFFICES ASSUME NoOverrunInv, NamesInv, TypesInv, [Next]_vars PROVE TypesInv'
  OBVIOUS
<1>1. CASE \E q \in Query : Begin(q)
  BY <1>1, BeginTypes
<1>2. CASE Ask
  <2>1. /\ step = "ask" /\ step' = "fill" /\ size' = Len(real[part])
        /\ UNCHANGED <<query, real, result, named, crashed>>
    BY <1>2 DEF Ask
  <2>2. size' \in Nat
    BY <2>1, ListLengths
  <2> QED
    BY <2>1, <2>2 DEF TypesInv
<1>3. CASE Fill
  BY <1>3, FillTypesInv
<1>4. CASE Name
  BY <1>4, NameTypes
<1>5. CASE Named
  <2>1. step' = "return" /\ UNCHANGED <<query, real, size, result, named, crashed>>
    BY <1>5 DEF Named
  <2> QED
    BY <2>1 DEF TypesInv
<1>6. CASE Return
  <2>1. /\ step' = "idle" /\ real' = <<>> /\ size' = 0 /\ result' = <<>> /\ named' = 0
    BY <1>6 DEF Return
  <2>2. crashed' \in BOOLEAN
    BY <1>6, Zenon DEF Return
  <2>3. Len(result') = 0
    BY <2>1
  <2> QED
    BY <2>1, <2>2, <2>3 DEF TypesInv
<1>7. CASE Change
  <2>1. step \notin {"idle", "return"} /\ UNCHANGED <<query, step, size, result, named, crashed>>
    BY <1>7 DEF Change
  <2> QED
    BY <2>1 DEF TypesInv
<1>8. CASE UNCHANGED vars
  BY <1>8 DEF vars, TypesInv
<1> QED
  BY <1>1, <1>2, <1>3, <1>4, <1>5, <1>6, <1>7, <1>8 DEF Next, Helper

-----------------------------------------------------------------------------
(* Theorems. *)

(* What the theorems below follow from.                                    *)
THEOREM QueriesInvariant == Spec => [](NoOverrunInv /\ NamesInv /\ ResultInv /\ MapsInv /\ TypesInv)
<1>1. Init => NoOverrunInv /\ NamesInv /\ ResultInv /\ MapsInv /\ TypesInv
  BY InitNoOverrun, InitNames, InitResult, InitMaps, InitTypes
<1>2. NoOverrunInv /\ NamesInv /\ ResultInv /\ MapsInv /\ TypesInv /\ [Next]_vars =>
        (NoOverrunInv /\ NamesInv /\ ResultInv /\ MapsInv /\ TypesInv)'
  BY NextNoOverrun, NextNames, NextResult, NextMaps, NextTypes
<1> QED
  BY <1>1, <1>2, PTL DEF Spec

(* The types of the variables, for any lists and sizes: no call ends at a  *)
(* part that is not asked for, nor has asked for more names than it has.   *)
THEOREM QueriesTypeCorrect == Spec => []TypeOK
<1>1. NoOverrunInv /\ NamesInv /\ TypesInv => TypeOK
  <2> SUFFICES ASSUME NoOverrunInv, NamesInv, TypesInv PROVE TypeOK
    OBVIOUS
  <2>1. real \in Seq(Contents)
    <3>1. CASE step = "idle"
      BY <3>1, EmptySeq DEF TypesInv
    <3>2. CASE step # "idle"
      <4>1. real \in [1 .. query.parts -> Contents] /\ query.parts \in Nat
        BY <3>2, QueryKinds DEF NoOverrunInv, WellFormed
      <4> QED
        BY <4>1
    <3> QED
      BY <3>1, <3>2
  <2>2. named \in 0 .. Len(result)
    BY LenProperties DEF NamesInv, TypesInv
  <2> QED
    BY <2>1, <2>2 DEF TypeOK, NoOverrunInv, NamesInv, TypesInv
<1> QED
  BY <1>1, QueriesInvariant, PTL

(* A std::string is made of a null pointer only by field_name and          *)
(* get_enum_values, and by the latter only if a value was removed after    *)
(* its id was listed, or the runtime reports totals.                       *)
THEOREM QueriesDieOnlyOfUncheckedNames == Spec => []DiesOnlyOfUncheckedNames
<1>1. NamesInv => DiesOnlyOfUncheckedNames
  BY DEF NamesInv
<1> QED
  BY <1>1, QueriesInvariant, PTL

(* A call of meta.hh, get_entities or last_error_message that no change    *)
(* overlaps returns all there is, as far as the client made room for it,   *)
(* and a helper invents ids only if the list shrank after it was counted   *)
(* or the runtime reports totals.                                          *)
THEOREM QueriesReturnWhatThereIs == Spec => []ReturnsWhatThereIs
<1>1. ResultInv => ReturnsWhatThereIs
  <2> SUFFICES ASSUME ResultInv, query.bounded PROVE ReturnsWhatThereIs
    BY DEF ReturnsWhatThereIs
  <2>1. (\E i \in DOMAIN result : ~result[i].written) =>
          (changed /\ ~query.reported) \/ (query.reported /\ report = "total")
    BY DEF ResultInv, BlanksExcused
  <2>2. step = "return" /\ ~changed /\ query.size # "none" =>
          (RoomFor(AllThereIs) = Len(AllThereIs) \/ report = "written"
             => result = AsWritten(AllThereIs, RoomFor(AllThereIs)) /\ ~crashed)
    BY DEF ResultInv, Complete
  <2> QED
    BY <2>1, <2>2 DEF ReturnsWhatThereIs, AllThereIs, RoomFor, AsWritten
<1> QED
  BY <1>1, QueriesInvariant, PTL

(* In system_capabilities, whose map keeps the first of two equal keys, an *)
(* id the runtime did not write never hides one that it wrote. In the maps *)
(* made by operator[] it does so only to a real id 0, and only if the list *)
(* shrank after it was counted.                                            *)
THEOREM QueriesMapsKeepReal == Spec => []MapsKeepReal
<1>1. NoOverrunInv /\ NamesInv /\ ResultInv /\ MapsInv => MapsKeepReal
  <2> SUFFICES ASSUME NoOverrunInv, NamesInv, ResultInv, MapsInv, query.keeps # "list",
                      NEW i \in DOMAIN result, result[i].written
               PROVE  result[MappedTo(result[i].id)].written
                        \/ (query.keeps = "assign" /\ changed /\ result[i].id = 0)
    BY DEF MapsKeepReal
  <2>1. /\ query.keeps \in {"insert", "assign"} /\ query.parts = 1
        /\ query.bounded = TRUE /\ query.reported = FALSE
    BY QueryKinds DEF NoOverrunInv, WellFormed
  <2>2. CASE query.keeps = "insert"
    <3> DEFINE f == FirstAt(result[i].id)
    <3>1. f \in 1 .. i
      BY FirstIsThere
    <3> HIDE DEF f
    <3>2. i \in Nat
      BY LenProperties DEF NamesInv
    <3>3. f = i \/ f \in 1 .. i - 1
      BY <3>1, <3>2
    <3>4. result[f].written
      BY <2>1, <3>3 DEF MapsInv
    <3> QED
      BY <2>2, <3>4 DEF MappedTo, f
  <2>3. CASE query.keeps = "assign"
    <3> DEFINE l == LastAt(result[i].id)
    <3>1. l \in DOMAIN result /\ result[l].id = result[i].id
      BY LastIsThere
    <3> HIDE DEF l
    <3>2. ~result[l].written => changed /\ result[l].id = 0
      BY <2>1, <3>1 DEF ResultInv, BlanksExcused, MapsInv
    <3>3. MappedTo(result[i].id) = l
      BY <2>3 DEF MappedTo, l
    <3> QED
      BY <2>3, <3>1, <3>2, <3>3
  <2> QED
    BY <2>1, <2>2, <2>3
<1> QED
  BY <1>1, QueriesInvariant, PTL
=============================================================================
