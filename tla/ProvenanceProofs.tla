-------------------------- MODULE ProvenanceProofs --------------------------
(***************************************************************************)
(* Proofs about Provenance: for any files, runs and rubrics, and however   *)
(* often the world changes.                                                *)
(***************************************************************************)
EXTENDS Provenance, FiniteFacts, TLAPS

-----------------------------------------------------------------------------
(* The checks of Intake, of one file.                                      *)

(* FirstOf answers with the first complaint there is.                      *)
LEMMA FirstOfList ==
  ASSUME NEW n \in Nat, NEW list, DOMAIN list = 1..n
  PROVE  \/ /\ FirstOf(list) = Ok
            /\ \A i \in 1..n : list[i] = Ok
         \/ /\ FirstOf(list) # Ok
            /\ \E i \in 1..n : /\ FirstOf(list) = list[i] /\ list[i] # Ok
                               /\ \A j \in 1..n : j < i => list[j] = Ok
  <1> DEFINE bad == {i \in 1..n : list[i] # Ok}
             First(i) == i \in bad /\ \A j \in bad : i <= j
  <1>1. FirstOf(list) = IF bad = {} THEN Ok ELSE list[CHOOSE i \in bad : \A j \in bad : i <= j]
    BY DEF FirstOf
  <1>2. CASE bad = {}
    BY <1>1, <1>2
  <1>3. CASE bad # {}
    <2>1. bad \in SUBSET Nat
      OBVIOUS
    <2>2. \E i \in bad : \A j \in bad : i <= j
      <3> HIDE DEF bad
      <3> QED
        BY <1>3, <2>1, LeastNumber
    <2>3. PICK i : First(i) /\ FirstOf(list) = list[i]
      <3> DEFINE i == CHOOSE i \in bad : \A j \in bad : i <= j
      <3>1. First(i)
        BY <2>2
      <3> QED
        BY <1>1, <1>3, <3>1
    <2>4. i \in 1..n /\ list[i] # Ok /\ \A j \in 1..n : j < i => list[j] = Ok
      BY <2>3
    <2> QED
      BY <2>3, <2>4
  <1> QED
    BY <1>2, <1>3

(* RunningTotal's recursion has a solution, whatever the entries.          *)
LEMMA RunningTotalIsDefined ==
  ASSUME NEW entries, NEW len \in Nat, Len(entries) = len
  PROVE  \A n \in 0..len :
           RunningTotal(entries)[n] =
             IF n = 0 THEN 0 ELSE RunningTotal(entries)[n - 1] + entries[n].full
  <1> DEFINE Totals(sum, k) ==
               sum = [n \in 0..k |-> IF n = 0 THEN 0 ELSE sum[n - 1] + entries[n].full]
             N == {k \in Nat : \E sum : Totals(sum, k)}
  <1>1. 0 \in N
    <2>1. Totals([n \in 0..0 |-> 0], 0)
      OBVIOUS
    <2> QED
      BY <2>1
  <1>2. ASSUME NEW k \in N PROVE k + 1 \in N
    <2>1. PICK sum : Totals(sum, k)
      OBVIOUS
    <2> DEFINE more == [n \in 0..(k + 1) |-> IF n = 0 THEN 0 ELSE sum[n - 1] + entries[n].full]
    <2>2. \A n \in 0..k : more[n] = sum[n]
      <3> TAKE n \in 0..k
      <3>1. n \in 0..(k + 1)
        OBVIOUS
      <3>2. sum[n] = IF n = 0 THEN 0 ELSE sum[n - 1] + entries[n].full
        BY <2>1
      <3> QED
        BY <3>1, <3>2
    <2>3. \A n \in 0..(k + 1) : n # 0 => n - 1 \in 0..k
      OBVIOUS
    <2>4. \A n \in 0..(k + 1) : n # 0 => more[n - 1] = sum[n - 1]
      BY <2>2, <2>3
    <2>5. Totals(more, k + 1)
      BY <2>4
    <2> HIDE DEF Totals, more
    <2> QED
      BY <2>5
  <1>3. N \in SUBSET Nat
    OBVIOUS
  <1>4. len \in N
    <2> HIDE DEF N
    <2> QED
      BY <1>1, <1>2, <1>3, NumberInduction
  <1>5. Totals(CHOOSE sum : Totals(sum, len), len)
    BY <1>4
  <1>6. RunningTotal(entries) = CHOOSE sum : Totals(sum, len)
    BY DEF RunningTotal
  <1>7. Totals(RunningTotal(entries), len)
    BY <1>5, <1>6
  <1> QED
    BY <1>7

(* No entry takes from the total.                                          *)
LEMMA RunningTotalGrows ==
  ASSUME NEW entries \in Seq(Entry)
  PROVE  \A n \in 0..Len(entries) :
           /\ RunningTotal(entries)[n] \in Nat
           /\ \A m \in 0..n : RunningTotal(entries)[m] <= RunningTotal(entries)[n]
  <1> DEFINE len == Len(entries)
             total == RunningTotal(entries)
             N == {n \in Nat : n <= len =>
                     \A m \in 0..n : total[m] \in Nat /\ total[m] <= total[n]}
  <1>1. len \in Nat
    OBVIOUS
  <1>2. total[0] = 0 /\ \A n \in 1..len : total[n] = total[n - 1] + entries[n].full
    BY <1>1, RunningTotalIsDefined
  <1>3. \A n \in 1..len : entries[n].full \in Nat
    <2>1. \A n \in 1..len : entries[n] \in Entry
      OBVIOUS
    <2> QED
      BY <2>1 DEF Entry
  <1> HIDE DEF total, len
  <1>4. 0 \in N
    BY <1>2
  <1>5. ASSUME NEW n \in N PROVE n + 1 \in N
    <2> SUFFICES ASSUME n + 1 <= len
                 PROVE  \A m \in 0..(n + 1) : total[m] \in Nat /\ total[m] <= total[n + 1]
      OBVIOUS
    <2>1. \A m \in 0..n : total[m] \in Nat /\ total[m] <= total[n]
      BY <1>1
    <2>2. total[n + 1] = total[n] + entries[n + 1].full /\ entries[n + 1].full \in Nat
      BY <1>1, <1>2, <1>3
    <2>3. n \in 0..n /\ total[n] \in Nat
      BY <2>1
    <2> TAKE m \in 0..(n + 1)
    <2>4. CASE m = n + 1
      BY <2>2, <2>3, <2>4
    <2>5. CASE m # n + 1
      <3>1. m \in 0..n
        BY <2>5
      <3>2. total[m] \in Nat /\ total[m] <= total[n]
        BY <2>1, <3>1
      <3> QED
        BY <2>2, <2>3, <3>2
    <2> QED
      BY <2>4, <2>5
  <1>6. N \in SUBSET Nat
    OBVIOUS
  <1>7. N = Nat
    <2> HIDE DEF N
    <2> QED
      BY <1>4, <1>5, <1>6, NumberInduction
  <1>8. \A n \in 0..len : total[n] \in Nat /\ \A m \in 0..n : total[m] <= total[n]
    BY <1>1, <1>7
  <1> QED
    BY <1>8 DEF total, len

(* The complaints of the checks, each in its place.                        *)
LEMMA FirstOfTwo ==
  ASSUME NEW v, NEW w
  PROVE  FirstOf(<<v, w>>) = IF v # Ok THEN v ELSE w
  <1> DEFINE list == <<v, w>>
  <1>1. DOMAIN list = 1..2 /\ list[1] = v /\ list[2] = w
    OBVIOUS
  <1> HIDE DEF list
  <1>2. \/ FirstOf(list) = Ok /\ \A i \in 1..2 : list[i] = Ok
        \/ \E i \in 1..2 : /\ FirstOf(list) = list[i] /\ list[i] # Ok
                           /\ \A j \in 1..2 : j < i => list[j] = Ok
    BY <1>1, FirstOfList
  <1> QED
    BY <1>1, <1>2 DEF list

LEMMA FirstOfThree ==
  ASSUME NEW v, NEW w, NEW x
  PROVE  FirstOf(<<v, w, x>>) = IF v # Ok THEN v ELSE IF w # Ok THEN w ELSE x
  <1> DEFINE list == <<v, w, x>>
  <1>1. DOMAIN list = 1..3 /\ list[1] = v /\ list[2] = w /\ list[3] = x
    OBVIOUS
  <1> HIDE DEF list
  <1>2. \/ FirstOf(list) = Ok /\ \A i \in 1..3 : list[i] = Ok
        \/ \E i \in 1..3 : /\ FirstOf(list) = list[i] /\ list[i] # Ok
                           /\ \A j \in 1..3 : j < i => list[j] = Ok
    BY <1>1, FirstOfList
  <1> QED
    BY <1>1, <1>2 DEF list

LEMMA FirstOfFour ==
  ASSUME NEW v, NEW w, NEW x, NEW y
  PROVE  FirstOf(<<v, w, x, y>>) =
           IF v # Ok THEN v ELSE IF w # Ok THEN w ELSE IF x # Ok THEN x ELSE y
  <1> DEFINE list == <<v, w, x, y>>
  <1>1. DOMAIN list = 1..4 /\ list[1] = v /\ list[2] = w /\ list[3] = x /\ list[4] = y
    OBVIOUS
  <1> HIDE DEF list
  <1>2. \/ FirstOf(list) = Ok /\ \A i \in 1..4 : list[i] = Ok
        \/ \E i \in 1..4 : /\ FirstOf(list) = list[i] /\ list[i] # Ok
                           /\ \A j \in 1..4 : j < i => list[j] = Ok
    BY <1>1, FirstOfList
  <1> QED
    BY <1>1, <1>2 DEF list

LEMMA FirstOfFive ==
  ASSUME NEW v, NEW w, NEW x, NEW y, NEW z
  PROVE  FirstOf(<<v, w, x, y, z>>) =
           IF v # Ok THEN v ELSE IF w # Ok THEN w ELSE IF x # Ok THEN x
           ELSE IF y # Ok THEN y ELSE z
  <1> DEFINE list == <<v, w, x, y, z>>
  <1>1. /\ DOMAIN list = 1..5
        /\ list[1] = v /\ list[2] = w /\ list[3] = x /\ list[4] = y /\ list[5] = z
    OBVIOUS
  <1> HIDE DEF list
  <1>2. \/ FirstOf(list) = Ok /\ \A i \in 1..5 : list[i] = Ok
        \/ \E i \in 1..5 : /\ FirstOf(list) = list[i] /\ list[i] # Ok
                           /\ \A j \in 1..5 : j < i => list[j] = Ok
    BY <1>1, FirstOfList
  <1> QED
    BY <1>1, <1>2 DEF list

(* What the loop over the entries of a zip finds is a defect of the zip,   *)
(* and it finds nothing only where there is nothing: the running total     *)
(* passes the limit at some entry exactly if the whole total does.         *)
LEMMA EntriesAreJudgedRight ==
  ASSUME NEW entries \in Seq(Entry)
  PROVE  LET answer == FirstOf([n \in DOMAIN entries |-> CheckEntry(entries, n)])
         IN  IF answer # Ok THEN answer \in ZipDefects(entries)
             ELSE ZipDefects(entries) \subseteq
                    When(Len(entries) > MaxZipEntries, "too_many_entries")
                      \cup When(\A n \in DOMAIN entries : entries[n].name # "word/document.xml",
                                "not_a_word_document")
  <1> DEFINE len == Len(entries)
             total == RunningTotal(entries)
             list == [n \in 1..len |-> CheckEntry(entries, n)]
             answer == FirstOf(list)
             Named(name) == \E n \in 1..len : entries[n].name = name
             Swells(n) == entries[n].packed > 0 /\ entries[n].full > MaxCompressionRatio * entries[n].packed
             Appears(n) == entries[n].packed = 0 /\ entries[n].full > 0
             others == When(len > MaxZipEntries, "too_many_entries")
                         \cup When(\A n \in 1..len : entries[n].name # "word/document.xml",
                                   "not_a_word_document")
  <1>1. len \in Nat /\ DOMAIN entries = 1..len
    OBVIOUS
  <1>2. \A n \in 1..len :
          CheckEntry(entries, n) =
            IF entries[n].name = "climbs" THEN "path_traversal"
            ELSE IF entries[n].name = "absolute" THEN "absolute_path"
            ELSE IF total[n] > MaxDecompressedBytes THEN "decompression_limit"
            ELSE IF Swells(n) THEN "compression_ratio"
            ELSE IF Appears(n) THEN "impossible_ratio" ELSE Ok
    BY FirstOfFive DEF CheckEntry, Reject, Ok
  <1>3. /\ Named("climbs") => "path_traversal" \in ZipDefects(entries)
        /\ Named("absolute") => "absolute_path" \in ZipDefects(entries)
        /\ total[len] > MaxDecompressedBytes => "decompression_limit" \in ZipDefects(entries)
        /\ (\E n \in 1..len : Swells(n)) => "compression_ratio" \in ZipDefects(entries)
        /\ (\E n \in 1..len : Appears(n)) => "impossible_ratio" \in ZipDefects(entries)
    BY <1>1 DEF ZipDefects, When
  <1>4. /\ ~Named("climbs") /\ ~Named("absolute") /\ ~(total[len] > MaxDecompressedBytes)
        /\ ~(\E n \in 1..len : Swells(n)) /\ ~(\E n \in 1..len : Appears(n))
        => ZipDefects(entries) \subseteq others
    BY <1>1 DEF ZipDefects, When
  <1>5. \A n \in 0..len : /\ total[n] \in Nat /\ total[len] \in Nat /\ total[n] <= total[len]
    BY <1>1, RunningTotalGrows
  <1>6. total[0] = 0 /\ MaxDecompressedBytes \in Nat
    BY <1>1, RunningTotalIsDefined, IntakeAssumption
  <1> HIDE DEF total, len, Swells, Appears, others
  <1>7. ASSUME answer # Ok PROVE answer \in ZipDefects(entries)
    <2>1. PICK n \in 1..len : answer = CheckEntry(entries, n)
      <3>1. DOMAIN list = 1..len
        OBVIOUS
      <3> HIDE DEF list
      <3>2. PICK n \in 1..len : answer = list[n]
        BY <1>1, <1>7, <3>1, FirstOfList
      <3> QED
        BY <3>2 DEF list
    <2>2. total[n] > MaxDecompressedBytes => total[len] > MaxDecompressedBytes
      BY <1>1, <1>5, <1>6
    <2> HIDE DEF answer, list
    <2> QED
      BY <1>2, <1>3, <1>7, <2>1, <2>2
  <1>8. ASSUME answer = Ok PROVE ZipDefects(entries) \subseteq others
    <2>1. \A n \in 1..len : CheckEntry(entries, n) = Ok
      <3>1. DOMAIN list = 1..len
        OBVIOUS
      <3> HIDE DEF list
      <3>2. \A n \in 1..len : list[n] = Ok
        BY <1>1, <1>8, <3>1, FirstOfList
      <3> QED
        BY <3>2 DEF list
    <2>2. \A n \in 1..len :
            /\ entries[n].name \notin {"climbs", "absolute"} /\ ~(total[n] > MaxDecompressedBytes)
            /\ ~Swells(n) /\ ~Appears(n)
      BY <1>2, <2>1 DEF Ok
    <2>3. ~(total[len] > MaxDecompressedBytes)
      <3>1. CASE len = 0
        BY <1>6, <3>1
      <3>2. CASE len # 0
        BY <1>1, <2>2, <3>2
      <3> QED
        BY <3>1, <3>2
    <2> QED
      BY <1>4, <2>2, <2>3
  <1> QED
    BY <1>1, <1>7, <1>8 DEF len, others

(* The hint is over the limit exactly if some signal is.                   *)
LEMMA PageHintIsLargest ==
  ASSUME NEW d \in File
  PROVE  PageHint(d) > MaxPages <=> \E n \in d.signals : n > MaxPages
  <1>1. d.signals \in SUBSET Nat /\ IsFiniteSet(d.signals) /\ d.signals # {}
    BY DEF File
  <1> DEFINE R == {mn \in Nat \X Nat : mn[1] > mn[2]}
  <1>2. \A m, n \in Nat : <<m, n>> \in R <=> m > n
    OBVIOUS
  <1> HIDE DEF R
  <1>3. Orders(R, d.signals)
    <2>1. \A m, n \in d.signals : m = n \/ <<m, n>> \in R \/ <<n, m>> \in R
      <3> TAKE m, n \in d.signals
      <3>1. m = n \/ m > n \/ n > m
        BY <1>1
      <3> QED
        BY <1>1, <1>2, <3>1
    <2>2. \A n \in d.signals : <<n, n>> \notin R
      BY <1>1, <1>2
    <2>3. \A l, m, n \in d.signals : <<l, m>> \in R /\ <<m, n>> \in R => <<l, n>> \in R
      BY <1>1, <1>2
    <2> QED
      BY <2>1, <2>2, <2>3 DEF Orders
  <1>4. PICK n \in d.signals : \A m \in d.signals : m = n \/ <<n, m>> \in R
    BY <1>1, <1>3, HasFirst
  <1>5. \A m \in d.signals : m <= n
    <2> TAKE m \in d.signals
    <2>1. m \in Nat /\ n \in Nat
      BY <1>1
    <2>2. m = n \/ n > m
      BY <1>2, <1>4, <2>1
    <2> QED
      BY <2>1, <2>2
  <1>6. PageHint(d) \in d.signals /\ \A m \in d.signals : m <= PageHint(d)
    BY <1>5 DEF PageHint
  <1>7. MaxPages \in Nat
    BY IntakeAssumption
  <1> QED
    BY <1>1, <1>6, <1>7

(* What can be held against a file in its place.                           *)
LEMMA DefectsInPlace ==
  ASSUME NEW d, NEW ext, d.place = "run_folder"
  PROVE  /\ d.size = 0 => "empty_file" \in Defects(d, ext)
         /\ d.size > MaxFileBytes => "oversize" \in Defects(d, ext)
         /\ d.type = "other" => "unrecognized_type" \in Defects(d, ext)
         /\ ext \notin Allowed => "disallowed_extension" \in Defects(d, ext)
         /\ ext # d.type => "extension_mime_mismatch" \in Defects(d, ext)
         /\ d.type = "pdf" /\ (\E n \in d.signals : n > MaxPages) =>
              "too_many_pages" \in Defects(d, ext)
         /\ d.type = "docx" /\ ~d.intact => "corrupt_zip" \in Defects(d, ext)
         /\ d.type = "docx" /\ d.intact => ZipDefects(d.entries) \subseteq Defects(d, ext)
         /\ /\ d.size # 0 /\ ~(d.size > MaxFileBytes) /\ d.type # "other"
            /\ ext \in Allowed /\ ext = d.type
            /\ d.type = "pdf" => ~\E n \in d.signals : n > MaxPages
            /\ d.type = "docx" => d.intact /\ ZipDefects(d.entries) = {}
            => Defects(d, ext) = {}
  BY DEF Defects, When

(* The stages of validate_file, one by one: each complains of a defect the *)
(* file has, if the stages before it had nothing to say.                   *)
LEMMA LocationIsJudgedRight ==
  ASSUME NEW d \in File, NEW ext
  PROVE  IF CheckLocation(d) # Ok THEN CheckLocation(d) \in Defects(d, ext)
                                  ELSE d.place = "run_folder"
  <1>1. d.place \in {"run_folder", "elsewhere", "link", "directory", "gone"}
    BY DEF File, Places
  <1> QED
    BY <1>1 DEF CheckLocation, Defects, Ok

LEMMA SizeIsJudgedRight ==
  ASSUME NEW d \in File, NEW ext, d.place = "run_folder"
  PROVE  IF CheckSize(d) # Ok THEN CheckSize(d) \in Defects(d, ext)
                              ELSE d.size # 0 /\ ~(d.size > MaxFileBytes)
  <1>1. CheckSize(d) = IF d.size = 0 THEN "empty_file"
                       ELSE IF d.size > MaxFileBytes THEN "oversize" ELSE Ok
    <2> DEFINE a == Reject(d.size = 0, "empty_file")
               b == Reject(d.size > MaxFileBytes, "oversize")
    <2>1. CheckSize(d) = FirstOf(<<a, b>>)
      BY DEF CheckSize
    <2>2. FirstOf(<<a, b>>) = IF a # Ok THEN a ELSE b
      <3> HIDE DEF a, b
      <3> QED
        BY FirstOfTwo
    <2> QED
      BY <2>1, <2>2 DEF Reject, Ok
  <1> QED
    BY <1>1, DefectsInPlace DEF Ok

LEMMA TypeIsJudgedRight ==
  ASSUME NEW d \in File, NEW ext, d.place = "run_folder"
  PROVE  IF CheckType(d, ext) # Ok THEN CheckType(d, ext) \in Defects(d, ext)
         ELSE d.type # "other" /\ ext \in Allowed /\ ext = d.type
  <1>1. CheckType(d, ext) = IF d.type = "other" THEN "unrecognized_type"
                            ELSE IF ext \notin Allowed THEN "disallowed_extension"
                            ELSE IF ext # d.type THEN "extension_mime_mismatch" ELSE Ok
    <2> DEFINE a == Reject(d.type = "other", "unrecognized_type")
               b == Reject(ext \notin Allowed, "disallowed_extension")
               c == Reject(ext # d.type, "extension_mime_mismatch")
    <2>1. CheckType(d, ext) = FirstOf(<<a, b, c>>)
      BY DEF CheckType
    <2>2. FirstOf(<<a, b, c>>) = IF a # Ok THEN a ELSE IF b # Ok THEN b ELSE c
      <3> HIDE DEF a, b, c
      <3> QED
        BY FirstOfThree
    <2> QED
      BY <2>1, <2>2 DEF Reject, Ok
  <1> QED
    BY <1>1, DefectsInPlace DEF Ok

LEMMA DocxIsReadInOrder ==
  ASSUME NEW d, d.place = "run_folder"
  PROVE  CheckDocxStructure(d) =
           IF ~d.intact THEN "corrupt_zip"
           ELSE IF Len(d.entries) > MaxZipEntries THEN "too_many_entries"
           ELSE IF \A n \in DOMAIN d.entries : d.entries[n].name # "word/document.xml"
                THEN "not_a_word_document"
           ELSE FirstOf([n \in DOMAIN d.entries |-> CheckEntry(d.entries, n)])
  <1> DEFINE whole == Reject(~Readable(d) \/ ~d.intact, "corrupt_zip")
             few == Reject(Len(d.entries) > MaxZipEntries, "too_many_entries")
             word == Reject(\A n \in DOMAIN d.entries : d.entries[n].name # "word/document.xml",
                            "not_a_word_document")
             entry == FirstOf([n \in DOMAIN d.entries |-> CheckEntry(d.entries, n)])
  <1>1. CheckDocxStructure(d) = FirstOf(<<whole, few, word, entry>>)
    BY DEF CheckDocxStructure
  <1>2. FirstOf(<<whole, few, word, entry>>) =
          IF whole # Ok THEN whole ELSE IF few # Ok THEN few ELSE IF word # Ok THEN word ELSE entry
    <2> HIDE DEF whole, few, word, entry
    <2> QED
      BY FirstOfFour
  <1>3. Readable(d)
    BY DEF Readable
  <1> DEFINE Wordless == \A n \in DOMAIN d.entries : d.entries[n].name # "word/document.xml"
  <1>4. /\ whole = IF ~d.intact THEN "corrupt_zip" ELSE Ok
        /\ few = IF Len(d.entries) > MaxZipEntries THEN "too_many_entries" ELSE Ok
    BY <1>3 DEF Reject
  <1>5. word = IF Wordless THEN "not_a_word_document" ELSE Ok
    BY DEF Reject
  <1> HIDE DEF whole, few, word, entry, Wordless
  <1>6. CheckDocxStructure(d) =
          IF ~d.intact THEN "corrupt_zip"
          ELSE IF Len(d.entries) > MaxZipEntries THEN "too_many_entries"
          ELSE IF Wordless THEN "not_a_word_document" ELSE entry
    BY <1>1, <1>2, <1>4, <1>5 DEF Ok
  <1> QED
    BY <1>6 DEF entry, Wordless

LEMMA StructureIsJudgedRight ==
  ASSUME NEW d \in File, NEW ext, d.place = "run_folder", d.type # "other", ext = d.type
  PROVE  IF CheckStructure(d, ext) # Ok THEN CheckStructure(d, ext) \in Defects(d, ext)
         ELSE /\ d.type = "pdf" => ~\E n \in d.signals : n > MaxPages
              /\ d.type = "docx" => d.intact /\ ZipDefects(d.entries) = {}
  <1>1. d.type \in {"pdf", "docx"}
    BY DEF File
  <1>2. CASE d.type = "pdf"
    <2>1. CheckStructure(d, ext) = IF PageHint(d) > MaxPages THEN "too_many_pages" ELSE Ok
      BY <1>2 DEF CheckStructure, CheckPdfPages, Reject
    <2> QED
      BY <1>2, <2>1, PageHintIsLargest, DefectsInPlace DEF Ok
  <1>3. CASE d.type = "docx"
    <2> DEFINE entries == d.entries
               answer == FirstOf([n \in DOMAIN entries |-> CheckEntry(entries, n)])
               NoWord == \A n \in DOMAIN entries : entries[n].name # "word/document.xml"
    <2>1. entries \in Seq(Entry)
      BY DEF File
    <2>2. CheckStructure(d, ext) = IF ~d.intact THEN "corrupt_zip"
                                   ELSE IF Len(entries) > MaxZipEntries THEN "too_many_entries"
                                   ELSE IF NoWord THEN "not_a_word_document" ELSE answer
      BY <1>3, DocxIsReadInOrder DEF CheckStructure
    <2>3. /\ answer # Ok => answer \in ZipDefects(entries)
          /\ answer = Ok /\ ~(Len(entries) > MaxZipEntries) /\ ~NoWord => ZipDefects(entries) = {}
      BY <2>1, EntriesAreJudgedRight DEF When
    <2> HIDE DEF answer
    <2>4. /\ Len(entries) > MaxZipEntries => "too_many_entries" \in ZipDefects(entries)
          /\ NoWord => "not_a_word_document" \in ZipDefects(entries)
      BY DEF ZipDefects, When
    <2>5. /\ ~d.intact => "corrupt_zip" \in Defects(d, ext)
          /\ d.intact => ZipDefects(entries) \subseteq Defects(d, ext)
      BY <1>3, DefectsInPlace
    <2> QED
      BY <1>3, <2>2, <2>3, <2>4, <2>5 DEF Ok
  <1> QED
    BY <1>1, <1>2, <1>3

(* Of a file that stays as it is, validate_file says the right thing: its  *)
(* first complaint is a defect the file has, and it has none if there is   *)
(* no complaint (spec 8.2).                                                *)
THEOREM ValidationIsRight ==
  ASSUME NEW d \in File, NEW ext
  PROVE  LET answer == FirstOf(<<CheckLocation(d), CheckSize(d), CheckType(d, ext),
                                 CheckStructure(d, ext)>>)
         IN  IF answer # Ok THEN answer \in Defects(d, ext) ELSE Defects(d, ext) = {}
  <1> DEFINE location == CheckLocation(d)
             size == CheckSize(d)
             type == CheckType(d, ext)
             structure == CheckStructure(d, ext)
             answer == FirstOf(<<location, size, type, structure>>)
  <1> SUFFICES IF answer # Ok THEN answer \in Defects(d, ext) ELSE Defects(d, ext) = {}
    OBVIOUS
  <1>1. answer = IF location # Ok THEN location ELSE IF size # Ok THEN size
                 ELSE IF type # Ok THEN type ELSE structure
    <2> HIDE DEF location, size, type, structure
    <2> QED
      BY FirstOfFour
  <1> HIDE DEF answer
  <1>2. CASE location # Ok
    BY <1>1, <1>2, LocationIsJudgedRight
  <1>3. CASE location = Ok /\ size # Ok
    BY <1>1, <1>3, LocationIsJudgedRight, SizeIsJudgedRight
  <1>4. CASE location = Ok /\ size = Ok /\ type # Ok
    BY <1>1, <1>4, LocationIsJudgedRight, TypeIsJudgedRight
  <1>5. CASE location = Ok /\ size = Ok /\ type = Ok
    <2>1. /\ d.place = "run_folder" /\ d.size # 0 /\ ~(d.size > MaxFileBytes)
          /\ d.type # "other" /\ ext \in Allowed /\ ext = d.type
      BY <1>5, LocationIsJudgedRight, SizeIsJudgedRight, TypeIsJudgedRight
    <2>2. IF structure # Ok THEN structure \in Defects(d, ext)
          ELSE /\ d.type = "pdf" => ~\E n \in d.signals : n > MaxPages
               /\ d.type = "docx" => d.intact /\ ZipDefects(d.entries) = {}
      BY <2>1, StructureIsJudgedRight
    <2> HIDE DEF location, size, type, structure
    <2>3. answer = structure
      BY <1>1, <1>5
    <2> QED
      BY <2>1, <2>2, <2>3, DefectsInPlace
  <1> QED
    BY <1>2, <1>3, <1>4, <1>5
-----------------------------------------------------------------------------
(* Only the weights and the prompt are read after a process was started.   *)
Shape ==
  /\ world \in [Changeable -> Nat \ {0}]
  /\ api \in [Changeable -> Nat] /\ worker \in [Changeable -> Nat]
  /\ \A f \in Changeable \ {"weights", "prompt"} : worker[f] # Unread
  /\ run \in [Runs -> Run \cup {None}]
  /\ DOMAIN row = Runs
  /\ \A r \in Runs : row[r] # None =>
       row[r] = [sha |-> row[r].sha, cacheable |-> row[r].cacheable, from |-> row[r].from,
                 under |-> row[r].under, doubt |-> row[r].doubt, served |-> row[r].served,
                 key |-> row[r].key, id |-> row[r].id]
  /\ step # "idle" => hand \in Runs /\ run[hand] # None

(* A run's key differs from the world only in what is on record.           *)
RunsAreTrue ==
  \A r \in Runs : run[r] # None =>
    \A f \in Keyed \ {"rubric"} : run[r].key[f] # world[f] => f \in run[r].doubt

(* What the worker hashed was at the path since.                           *)
HashIsSeen == step = "parsing" => sha \in seen

(* The candidate in hand, filed under its run, would make a true record.   *)
DraftIsTrue ==
  step = "saving" =>
    /\ \A f \in Keyed : run[hand].key[f] # draft.under[f] => f \in draft.doubt
    /\ draft.sha \notin {None, draft.from} => "file" \in draft.doubt

IInv == Shape /\ RunsAreTrue /\ HashIsSeen /\ DraftIsTrue /\ RecordsAreTrue
-----------------------------------------------------------------------------
(* The initial states satisfy the invariant.                               *)
LEMMA InvInit == Init => IInv
  BY DEF Init, IInv, Shape, RunsAreTrue, HashIsSeen, DraftIsTrue, RecordsAreTrue, Saved, Boot,
     Unread, Changeable

(* What a run is doubted about covers what it would be screened under now, *)
(* and differs from its key.                                               *)
LEMMA DoubtCoversTheKey ==
  ASSUME Shape, RunsAreTrue, NEW r \in Runs, run[r] # None, NEW f \in Keyed,
         run[r].key[f] # Prevailing(r)[f]
  PROVE  f \in Doubt(r)
  <1>1. CASE f = "rubric"
    BY <1>1 DEF Prevailing
  <1>2. CASE f = "weights"
    BY <1>2 DEF Prevailing, RunsAreTrue, Keyed, Doubt
  <1>3. CASE f = "prompt"
    <2>1. Prevailing(r)[f] = IF worker[f] = Unread THEN world[f] ELSE worker[f]
      BY <1>3 DEF Prevailing, FirstRead
    <2>2. run[r].key[f] # world[f] => f \in run[r].doubt
      BY <1>3 DEF RunsAreTrue, Keyed
    <2> QED
      BY <1>3, <2>1, <2>2 DEF Doubt, Changeable
  <1>4. CASE f \in {"settings", "version"}
    <2>1. Prevailing(r)[f] = worker[f] /\ worker[f] # Unread
      BY <1>4 DEF Prevailing, Shape, Changeable
    <2>2. run[r].key[f] # world[f] => f \in run[r].doubt
      BY <1>4 DEF RunsAreTrue, Keyed
    <2> QED
      BY <1>4, <2>1, <2>2 DEF Doubt, Changeable
  <1> QED
    BY <1>1, <1>2, <1>3, <1>4 DEF Keyed

(* A change of the world puts every run in doubt about it.                 *)
LEMMA WorldStep ==
  ASSUME IInv, Replace \/ RestartApi \/ RestartWorker \/ \E f \in Changeable : Change(f)
  PROVE  IInv'
  <1>1. ASSUME NEW f \in Changeable, Change(f) PROVE IInv'
    <2>1. /\ world' = [world EXCEPT ![f] = @ + 1]
          /\ run' = [r \in Runs |-> IF run[r] = None THEN None
                                    ELSE [run[r] EXCEPT !.doubt = @ \cup {f}]]
          /\ UNCHANGED <<worker, row, machine>>
      BY <1>1 DEF Change
    <2>2. \A r \in Runs : run[r] # None =>
            /\ run'[r] \in Run /\ run'[r].key = run[r].key
            /\ run'[r].doubt = run[r].doubt \cup {f}
      BY <2>1 DEF IInv, Shape, Run
    <2>3. \A r \in Runs : run[r] = None => run'[r] = None
      BY <2>1
    <2>4. RunsAreTrue'
      BY <2>1, <2>2, <2>3 DEF IInv, Shape, RunsAreTrue, Keyed, Changeable
    <2>5. Shape'
      <3>1. world' \in [Changeable -> Nat \ {0}]
        BY <2>1 DEF IInv, Shape
      <3>2. run' \in [Runs -> Run \cup {None}]
        BY <2>1, <2>2, <2>3
      <3>3. step # "idle" => hand \in Runs /\ run'[hand] # None
        BY <2>2, ProvenanceAssumption DEF IInv, Shape
      <3> QED
        BY <1>1, <2>1, <3>1, <3>2, <3>3 DEF Change, machine, IInv, Shape
    <2>6. HashIsSeen' /\ DraftIsTrue' /\ RecordsAreTrue'
      BY <2>1, <2>2 DEF machine, IInv, Shape, HashIsSeen, DraftIsTrue, RecordsAreTrue, Saved,
         WrongAbout
    <2> QED
      BY <2>4, <2>5, <2>6 DEF IInv
  <1>2. CASE Replace
    BY <1>2 DEF Replace, IInv, Shape, RunsAreTrue, HashIsSeen, DraftIsTrue, RecordsAreTrue,
       Saved, WrongAbout
  <1>3. CASE RestartApi
    BY <1>3 DEF RestartApi, Boot, Unread, machine, IInv, Shape, RunsAreTrue, HashIsSeen, DraftIsTrue,
       RecordsAreTrue, Saved, WrongAbout
  <1>4. CASE RestartWorker
    BY <1>4 DEF RestartWorker, Boot, Unread, Changeable, machine, IInv, Shape, RunsAreTrue,
       HashIsSeen, DraftIsTrue, RecordsAreTrue, Saved, WrongAbout
  <1> QED
    BY <1>1, <1>2, <1>3, <1>4
(* A new run freezes a key, and is doubted wherever the key is behind.     *)
LEMMA CreateStep ==
  ASSUME IInv, NEW r \in Runs, CreateRun(r)
  PROVE  IInv'
  <1>1. PICK rubric \in Rubrics :
          run' = [run EXCEPT ![r] =
                    [key |-> Frozen(rubric),
                     doubt |-> {f \in Changeable \ {"unkeyed"} : Frozen(rubric)[f] # world[f]}]]
    BY DEF CreateRun
  <1> DEFINE new == [key |-> Frozen(rubric),
                     doubt |-> {f \in Changeable \ {"unkeyed"} : Frozen(rubric)[f] # world[f]}]
  <1>2. /\ FirstRead(api, "weights") \in Nat /\ FirstRead(api, "prompt") \in Nat
        /\ api["settings"] \in Nat /\ world["version"] \in Nat
    BY DEF FirstRead, IInv, Shape, Changeable
  <1>3. Frozen(rubric) \in [Keyed -> Nat \cup Rubrics]
    BY <1>2 DEF Frozen, Digest, Keyed
  <1>4. new \in Run
    BY <1>3 DEF Run
  <1>5. \A f \in Keyed \ {"rubric"} : new.key[f] # world[f] => f \in new.doubt
    BY DEF Keyed, Changeable
  <1> HIDE DEF new
  <1>6. /\ run'[r] = new /\ \A x \in Runs : x # r => run'[x] = run[x]
        /\ run' \in [Runs -> Run \cup {None}]
    BY <1>1, <1>4 DEF new, IInv, Shape
  <1>7. api' \in [Changeable -> Nat]
    BY <1>2 DEF CreateRun, Digest, IInv, Shape
  <1>8. UNCHANGED <<file, suffix, world, worker, row, hand, step, sha, draft, verdict, seen>>
        /\ run[r] = None
    BY DEF CreateRun, machine
  <1>9. Shape'
    BY <1>4, <1>6, <1>7, <1>8, ProvenanceAssumption DEF IInv, Shape
  <1>10. RunsAreTrue' /\ HashIsSeen' /\ RecordsAreTrue'
    BY <1>5, <1>6, <1>8 DEF IInv, RunsAreTrue, HashIsSeen, RecordsAreTrue, Saved, WrongAbout
  <1>11. DraftIsTrue'
    BY <1>6, <1>8 DEF IInv, Shape, DraftIsTrue
  <1> QED
    BY <1>9, <1>10, <1>11 DEF IInv

(* A candidate screened now is as true as the doubts about its run say.    *)
LEMMA CandidateIsTrue ==
  ASSUME IInv, step # "idle", NEW hash, NEW cacheable, NEW doubt,
         hash \notin {None, file} => "file" \in doubt
  PROVE  LET candidate == Candidate(hash, cacheable, doubt)
         IN  /\ \A f \in Keyed : run[hand].key[f] # candidate.under[f] => f \in candidate.doubt
             /\ candidate.sha \notin {None, candidate.from} => "file" \in candidate.doubt
  <1>1. hand \in Runs /\ run[hand] # None /\ Shape /\ RunsAreTrue
    BY DEF IInv, Shape
  <1> QED
    BY <1>1, DoubtCoversTheKey DEF Candidate

(* What a step of the worker leaves alone stays true.                      *)
LEMMA TheRestHolds ==
  ASSUME IInv, UNCHANGED <<file, suffix, world, api, run, row>>,
         worker' \in [Changeable -> Nat],
         \A f \in Changeable \ {"weights", "prompt"} : worker'[f] = worker[f]
  PROVE  /\ (step' # "idle" => hand' \in Runs /\ run[hand'] # None) => Shape'
         /\ RunsAreTrue' /\ RecordsAreTrue'
  <1>1. RunsAreTrue' /\ RecordsAreTrue'
    BY DEF IInv, RunsAreTrue, RecordsAreTrue, Saved, WrongAbout
  <1>2. ASSUME step' # "idle" => hand' \in Runs /\ run[hand'] # None PROVE Shape'
    BY <1>2 DEF IInv, Shape
  <1> QED
    BY <1>1, <1>2

(* Claiming, looking up and checking preserve the invariant.               *)
LEMMA ReadStep ==
  ASSUME IInv, \/ \E r \in Runs : Claim(r)
               \/ LookUp \/ ValidateLocation \/ ValidateSize \/ ValidateType \/ ValidateStructure
  PROVE  IInv'
  <1>1. UNCHANGED <<file, suffix, world, api, run, row, worker>>
    BY DEF Claim, LookUp, ValidateLocation, ValidateSize, ValidateType, ValidateStructure, Check,
       Keeps
  <1>2. RunsAreTrue' /\ RecordsAreTrue'
        /\ ((step' # "idle" => hand' \in Runs /\ run[hand'] # None) => Shape')
    BY <1>1, TheRestHolds DEF IInv, Shape
  <1>3. ASSUME NEW r \in Runs, Claim(r) PROVE IInv'
    BY <1>1, <1>2, <1>3 DEF Claim, At, Then, Keeps, IInv, HashIsSeen, DraftIsTrue
  <1>4. CASE LookUp
    <2>1. step = "looking" /\ hand' = hand /\ hand \in Runs /\ run[hand] # None
      BY <1>4 DEF LookUp, At, IInv, Shape
    <2>2. CASE Hits(hand, sha) = {}
      BY <1>1, <1>2, <1>4, <2>1, <2>2 DEF LookUp, At, Then, IInv, HashIsSeen, DraftIsTrue
    <2>3. CASE Hits(hand, sha) # {}
      <3>1. PICK q \in Hits(hand, sha) :
              draft' = [row[q] EXCEPT !.served = TRUE, !.doubt = @ \cup Doubt(hand)]
        BY <1>4, <2>3 DEF LookUp
      <3>2. q \in Saved /\ q \in Runs /\ row[q] # None
            /\ \A f \in Keyed : row[q].key[f] = run[hand].key[f]
        BY DEF Hits, Matches, Saved
      <3>3. /\ draft'.under = row[q].under /\ draft'.from = row[q].from
            /\ draft'.sha = row[q].sha /\ draft'.doubt = row[q].doubt \cup Doubt(hand)
        BY <3>1, <3>2 DEF IInv, Shape
      <3>4. WrongAbout(q) \subseteq row[q].doubt
        BY <3>2 DEF IInv, RecordsAreTrue
      <3>5. DraftIsTrue'
        BY <1>1, <2>1, <3>2, <3>3, <3>4 DEF DraftIsTrue, WrongAbout
      <3> QED
        BY <1>2, <1>4, <2>1, <2>3, <3>5 DEF LookUp, Then, IInv, HashIsSeen
    <2> QED
      BY <2>2, <2>3
  <1>5. ASSUME NEW label, NEW next, NEW answer, Check(label, next, answer),
               label # "idle", next \notin {"saving", "parsing"}
        PROVE  IInv'
    <2>1. step = label /\ hand' = hand /\ hand \in Runs /\ run[hand] # None
      BY <1>5 DEF Check, At, IInv, Shape
    <2>2. CASE answer = Ok
      BY <1>1, <1>2, <1>5, <2>1, <2>2 DEF Check, Then, IInv, HashIsSeen, DraftIsTrue
    <2>3. CASE answer # Ok
      <3>1. step' = "saving" /\ draft' = Candidate(None, TRUE, {})
        BY <1>5, <2>3 DEF Check, Then
      <3>2. DraftIsTrue'
        BY <1>1, <1>5, <2>1, <3>1, CandidateIsTrue DEF DraftIsTrue
      <3> QED
        BY <1>2, <2>1, <3>1, <3>2 DEF IInv, HashIsSeen
    <2> QED
      BY <2>2, <2>3
  <1> QED
    BY <1>3, <1>4, <1>5
    DEF ValidateLocation, ValidateSize, ValidateType, ValidateStructure
(* Hashing, judging, filing and failing preserve the invariant.            *)
LEMMA FileStep ==
  ASSUME IInv, Hash \/ Judge \/ Save \/ Raise
  PROVE  IInv'
  <1>1. CASE Hash
    <2>1. UNCHANGED <<file, suffix, world, api, run, row, worker, hand>>
          /\ step = "hashing" /\ step' = "parsing" /\ sha' = file /\ seen' = {file}
      BY <1>1 DEF Hash, Keeps, At, Then
    <2>2. Shape' /\ RunsAreTrue' /\ RecordsAreTrue'
      BY <2>1, TheRestHolds DEF IInv, Shape
    <2> QED
      BY <2>1, <2>2 DEF IInv, HashIsSeen, DraftIsTrue
  <1>2. CASE Judge
    <2>1. /\ UNCHANGED <<file, suffix, world, api, run, row, hand>>
          /\ step = "parsing" /\ step' = "saving"
      BY <1>2 DEF Judge, Keeps, At, Then
    <2>2. /\ worker' \in [Changeable -> Nat]
          /\ \A f \in Changeable \ {"weights", "prompt"} : worker'[f] = worker[f]
      <3>1. FirstRead(worker, "prompt") \in Nat
        BY DEF FirstRead, IInv, Shape, Changeable
      <3>2. worker' \in {worker, [worker EXCEPT !["prompt"] = FirstRead(worker, "prompt")]}
        BY <1>2 DEF Judge
      <3> QED
        BY <3>1, <3>2 DEF IInv, Shape
    <2>3. Shape' /\ RunsAreTrue' /\ RecordsAreTrue'
      BY <2>1, <2>2, TheRestHolds DEF IInv, Shape
    <2>4. PICK cacheable \in BOOLEAN :
            draft' = Candidate(sha, cacheable, IF seen = {file} THEN {} ELSE {"file"})
      BY <1>2 DEF Judge
    <2>5. seen = {file} => sha = file
      BY <2>1 DEF IInv, HashIsSeen
    <2>6. DraftIsTrue'
      BY <2>1, <2>4, <2>5, CandidateIsTrue DEF DraftIsTrue
    <2> QED
      BY <2>1, <2>3, <2>6 DEF IInv, HashIsSeen
  <1>3. CASE Save
    <2> DEFINE record ==
          [sha |-> draft.sha, cacheable |-> draft.cacheable, from |-> draft.from,
           under |-> draft.under, doubt |-> draft.doubt, served |-> draft.served,
           key |-> run[hand].key, id |-> Cardinality(Saved) + 1]
    <2>1. /\ UNCHANGED <<file, suffix, world, api, run, worker>>
          /\ step = "saving" /\ step' = "idle"
          /\ row' = [row EXCEPT ![hand] = record]
      BY <1>3 DEF Save, Release, Keeps, At, Then
    <2>2. hand \in Runs /\ DOMAIN row = Runs
      BY <2>1 DEF IInv, Shape
    <2>3. /\ record.sha = draft.sha /\ record.from = draft.from /\ record.under = draft.under
          /\ record.doubt = draft.doubt /\ record.key = run[hand].key
          /\ record = [sha |-> record.sha, cacheable |-> record.cacheable, from |-> record.from,
                       under |-> record.under, doubt |-> record.doubt,
                       served |-> record.served, key |-> record.key, id |-> record.id]
      OBVIOUS
    <2> HIDE DEF record
    <2>4. /\ DOMAIN row' = Runs /\ row'[hand] = record
          /\ \A r \in Runs : r # hand => row'[r] = row[r]
      BY <2>1, <2>2
    <2>5. Shape'
      BY <2>1, <2>3, <2>4 DEF IInv, Shape
    <2>6. RecordsAreTrue'
      <3> SUFFICES ASSUME NEW r \in Runs, row'[r] # None
                   PROVE  WrongAbout(r)' \subseteq row'[r].doubt
        BY DEF RecordsAreTrue, Saved
      <3>1. CASE r = hand
        BY <2>1, <2>3, <2>4, <3>1 DEF IInv, DraftIsTrue, WrongAbout
      <3>2. CASE r # hand
        BY <2>4, <3>2 DEF IInv, RecordsAreTrue, Saved, WrongAbout
      <3> QED
        BY <3>1, <3>2
    <2> QED
      BY <2>1, <2>5, <2>6 DEF IInv, RunsAreTrue, HashIsSeen, DraftIsTrue
  <1>4. CASE Raise
    <2>1. UNCHANGED <<file, suffix, world, api, run, row, worker>> /\ step' = "idle"
      BY <1>4 DEF Raise, Release, Keeps, Then
    <2>2. Shape' /\ RunsAreTrue' /\ RecordsAreTrue'
      BY <2>1, TheRestHolds DEF IInv, Shape
    <2> QED
      BY <2>1, <2>2 DEF IInv, HashIsSeen, DraftIsTrue
  <1> QED
    BY <1>1, <1>2, <1>3, <1>4

(* The invariant holds in every reachable state.                           *)
THEOREM Invariant == Spec => []IInv
  <1>1. IInv /\ [Next]_vars => IInv'
    <2> SUFFICES ASSUME IInv, [Next]_vars PROVE IInv'
      OBVIOUS
    <2>1. CASE Next
      BY <2>1, WorldStep, CreateStep, ReadStep, FileStep DEF Next
    <2>2. CASE UNCHANGED vars
      BY <2>2 DEF vars, machine, IInv, Shape, RunsAreTrue, HashIsSeen, DraftIsTrue,
         RecordsAreTrue, Saved, WrongAbout
    <2> QED
      BY <2>1, <2>2
  <1> QED
    BY <1>1, InvInit, PTL DEF Spec

(* Whatever is changed or replaced meanwhile, a stored row is wrong about  *)
(* how it came to be only where that is on record.                         *)
THEOREM RecordsTellTheTruth == Spec => []RecordsAreTrue
  BY Invariant, PTL DEF IInv
-----------------------------------------------------------------------------
(* What has held the path, and what the stages passed so far say of it.    *)
Reading == {"size", "type", "structure", "hashing"}

Watched ==
  /\ file \in File /\ seen \subseteq File
  /\ step # "idle" => file \in seen
  /\ verdict # Ok => step = "saving"

PassedSoFar ==
  \A d \in seen : seen = {d} =>
    /\ step \in Reading => CheckLocation(d) = Ok
    /\ step \in Reading \ {"size"} => CheckSize(d) = Ok
    /\ step \in {"structure", "hashing"} => CheckType(d, suffix) = Ok
    /\ step = "hashing" => CheckStructure(d, suffix) = Ok

(* The last verdict, if the path held one thing, and in any case.          *)
VerdictHolds ==
  /\ \A d \in seen : seen = {d} /\ verdict # Ok => verdict \in Defects(d, suffix)
  /\ verdict # Ok => \E d \in seen : Defects(d, suffix) # {}

VInv == Watched /\ PassedSoFar /\ VerdictHolds

(* The four stages, as ValidationIsRight takes them together, say of a     *)
(* file that passed the first ones whether the next has reason to refuse.  *)
LEMMA StagesAreRight ==
  ASSUME NEW d \in File, NEW ext
  PROVE  /\ CheckLocation(d) # Ok => CheckLocation(d) \in Defects(d, ext)
         /\ CheckLocation(d) = Ok /\ CheckSize(d) # Ok => CheckSize(d) \in Defects(d, ext)
         /\ CheckLocation(d) = Ok /\ CheckSize(d) = Ok /\ CheckType(d, ext) # Ok =>
              CheckType(d, ext) \in Defects(d, ext)
         /\ /\ CheckLocation(d) = Ok /\ CheckSize(d) = Ok /\ CheckType(d, ext) = Ok
            /\ CheckStructure(d, ext) # Ok
            => CheckStructure(d, ext) \in Defects(d, ext)
         /\ /\ CheckLocation(d) = Ok /\ CheckSize(d) = Ok /\ CheckType(d, ext) = Ok
            /\ CheckStructure(d, ext) = Ok
            => Defects(d, ext) = {}
  <1> DEFINE location == CheckLocation(d)
             size == CheckSize(d)
             type == CheckType(d, ext)
             structure == CheckStructure(d, ext)
  <1>1. LET answer == FirstOf(<<location, size, type, structure>>)
        IN  IF answer # Ok THEN answer \in Defects(d, ext) ELSE Defects(d, ext) = {}
    BY ValidationIsRight
  <1>2. FirstOf(<<location, size, type, structure>>) =
          IF location # Ok THEN location ELSE IF size # Ok THEN size
          ELSE IF type # Ok THEN type ELSE structure
    <2> HIDE DEF location, size, type, structure
    <2> QED
      BY FirstOfFour
  <1> HIDE DEF location, size, type, structure
  <1>3. /\ location # Ok => location \in Defects(d, ext)
        /\ location = Ok /\ size # Ok => size \in Defects(d, ext)
        /\ location = Ok /\ size = Ok /\ type # Ok => type \in Defects(d, ext)
        /\ location = Ok /\ size = Ok /\ type = Ok /\ structure # Ok => structure \in Defects(d, ext)
        /\ location = Ok /\ size = Ok /\ type = Ok /\ structure = Ok => Defects(d, ext) = {}
    BY <1>1, <1>2
  <1> QED
    BY <1>3 DEF location, size, type, structure

(* Whatever a stage has against a file, even one that came after the first *)
(* stages had let another pass, the file has some defect.                  *)
LEMMA NoComplaintWithoutDefect ==
  ASSUME NEW d \in File, NEW ext,
         \/ CheckLocation(d) # Ok \/ CheckSize(d) # Ok
         \/ CheckType(d, ext) # Ok \/ CheckStructure(d, ext) # Ok
  PROVE  Defects(d, ext) # {}
  <1>1. CASE d.place # "run_folder"
    BY <1>1 DEF Defects
  <1>2. CASE d.place = "run_folder"
    <2>1. CheckLocation(d) = Ok
      BY <1>2 DEF CheckLocation
    <2>2. /\ d.type = "other" => Defects(d, ext) # {}
          /\ ext # d.type => Defects(d, ext) # {}
      BY <1>2, DefectsInPlace
    <2>3. CheckSize(d) # Ok => Defects(d, ext) # {}
      BY <1>2, SizeIsJudgedRight
    <2>4. CheckType(d, ext) # Ok => Defects(d, ext) # {}
      BY <1>2, TypeIsJudgedRight
    <2>5. CheckStructure(d, ext) # Ok => Defects(d, ext) # {}
      BY <1>2, <2>2, StructureIsJudgedRight
    <2> QED
      BY <2>1, <2>3, <2>4, <2>5
  <1> QED
    BY <1>1, <1>2

(* The initial states.                                                     *)
LEMMA VerdictInit == Init => VInv
  BY ProvenanceAssumption DEF Init, VInv, Watched, PassedSoFar, VerdictHolds, Ok

(* One stage preserves it: it is right about what is at the path now, and  *)
(* that is all there was if the path has held one thing only.              *)
LEMMA StageStep ==
  ASSUME VInv, NEW label, NEW next, NEW answer, Check(label, next, answer),
         label \in {"location"} \cup Reading, next \in Reading,
         next # "size" => label \in Reading,
         next \in {"structure", "hashing"} => label \in Reading \ {"size"},
         next = "hashing" => label = "structure",
         answer # Ok => /\ Defects(file, suffix) # {}
                        /\ seen = {file} => answer \in Defects(file, suffix),
         answer = Ok => /\ next = "size" => CheckLocation(file) = Ok
                        /\ next = "type" => CheckSize(file) = Ok
                        /\ next = "structure" => CheckType(file, suffix) = Ok
                        /\ next = "hashing" => CheckStructure(file, suffix) = Ok
  PROVE  VInv'
  <1>1. /\ step = label /\ verdict' = answer /\ UNCHANGED <<file, suffix, seen>>
        /\ step' = IF answer = Ok THEN next ELSE "saving"
    BY DEF Check, At, Then, Keeps
  <1>2. file \in seen /\ file \in File
    BY <1>1 DEF VInv, Watched, Reading
  <1>3. Watched'
    BY <1>1, <1>2 DEF VInv, Watched
  <1>4. PassedSoFar'
    BY <1>1, <1>2 DEF VInv, PassedSoFar, Reading
  <1>5. VerdictHolds'
    BY <1>1, <1>2 DEF VerdictHolds
  <1> QED
    BY <1>3, <1>4, <1>5 DEF VInv

(* Each of the four stages is such a stage.                                *)
LEMMA ValidateStep ==
  ASSUME VInv, ValidateLocation \/ ValidateSize \/ ValidateType \/ ValidateStructure
  PROVE  VInv'
  <1>1. step # "idle" /\ file \in File /\ file \in seen
    BY DEF ValidateLocation, ValidateSize, ValidateType, ValidateStructure, Check, At, VInv,
       Watched
  <1>2. CASE ValidateLocation
    <2>1. CheckLocation(file) # Ok => /\ Defects(file, suffix) # {}
                                      /\ CheckLocation(file) \in Defects(file, suffix)
      BY <1>1, StagesAreRight
    <2> QED
      BY <1>2, <2>1, StageStep DEF ValidateLocation, Reading
  <1>3. CASE ValidateSize
    <2>1. CheckSize(file) # Ok => Defects(file, suffix) # {}
      BY <1>1, NoComplaintWithoutDefect
    <2>2. seen = {file} => CheckLocation(file) = Ok
      BY <1>1, <1>3 DEF ValidateSize, Check, At, VInv, PassedSoFar, Reading
    <2>3. seen = {file} /\ CheckSize(file) # Ok => CheckSize(file) \in Defects(file, suffix)
      BY <1>1, <2>2, StagesAreRight
    <2> QED
      BY <1>3, <2>1, <2>3, StageStep DEF ValidateSize, Reading
  <1>4. CASE ValidateType
    <2>1. CheckType(file, suffix) # Ok => Defects(file, suffix) # {}
      BY <1>1, NoComplaintWithoutDefect
    <2>2. seen = {file} => CheckLocation(file) = Ok /\ CheckSize(file) = Ok
      BY <1>1, <1>4 DEF ValidateType, Check, At, VInv, PassedSoFar, Reading
    <2>3. seen = {file} /\ CheckType(file, suffix) # Ok =>
            CheckType(file, suffix) \in Defects(file, suffix)
      BY <1>1, <2>2, StagesAreRight
    <2> QED
      BY <1>4, <2>1, <2>3, StageStep DEF ValidateType, Reading
  <1>5. CASE ValidateStructure
    <2>1. CheckStructure(file, suffix) # Ok => Defects(file, suffix) # {}
      BY <1>1, NoComplaintWithoutDefect
    <2>2. seen = {file} => /\ CheckLocation(file) = Ok /\ CheckSize(file) = Ok
                           /\ CheckType(file, suffix) = Ok
      BY <1>1, <1>5 DEF ValidateStructure, Check, At, VInv, PassedSoFar, Reading
    <2>3. seen = {file} /\ CheckStructure(file, suffix) # Ok =>
            CheckStructure(file, suffix) \in Defects(file, suffix)
      BY <1>1, <2>2, StagesAreRight
    <2> QED
      BY <1>5, <2>1, <2>3, StageStep DEF ValidateStructure, Reading
  <1> QED
    BY <1>2, <1>3, <1>4, <1>5

(* A file put in another's place is a second one the path has held.        *)
LEMMA ReplaceStep ==
  ASSUME VInv, Replace
  PROVE  VInv'
  <1>1. PICK d \in Arrivals \ {file} :
          file' = d /\ seen' = IF step = "idle" THEN seen ELSE seen \cup {d}
    BY DEF Replace
  <1>2. UNCHANGED <<suffix, step, verdict>> /\ d \in File /\ d # file
    BY <1>1, ProvenanceAssumption DEF Replace
  <1>3. CASE step = "idle"
    BY <1>1, <1>2, <1>3 DEF VInv, Watched, PassedSoFar, VerdictHolds, Reading
  <1>4. CASE step # "idle"
    <2>1. file \in seen /\ file \in seen' /\ d \in seen' /\ seen \subseteq seen'
          /\ seen' \subseteq File
      BY <1>1, <1>2, <1>4 DEF VInv, Watched
    <2>2. \A f \in seen' : seen' # {f}
      BY <1>2, <2>1
    <2> QED
      BY <1>1, <1>2, <1>4, <2>1, <2>2 DEF VInv, Watched, PassedSoFar, VerdictHolds
  <1> QED
    BY <1>3, <1>4

(* Every other step hashes the file, ends the work on it, or goes on.      *)
LEMMA VerdictStep ==
  ASSUME VInv, [Next]_vars
  PROVE  VInv'
  <1>1. ASSUME UNCHANGED <<file, suffix, step, verdict, seen>> PROVE VInv'
    BY <1>1 DEF VInv, Watched, PassedSoFar, VerdictHolds
  <1>2. CASE UNCHANGED vars
    BY <1>1, <1>2 DEF vars, machine
  <1>3. CASE RestartApi \/ RestartWorker \/ \E f \in Changeable : Change(f)
    BY <1>1, <1>3 DEF RestartApi, RestartWorker, Change, machine
  <1>4. ASSUME NEW r \in Runs, CreateRun(r) PROVE VInv'
    BY <1>1, <1>4 DEF CreateRun, machine
  <1>5. ASSUME NEW r \in Runs, Claim(r) PROVE VInv'
    BY <1>5 DEF Claim, At, Then, Keeps, VInv, Watched, PassedSoFar, VerdictHolds, Reading
  <1>6. CASE LookUp
    BY <1>6 DEF LookUp, At, Then, Keeps, VInv, Watched, PassedSoFar, VerdictHolds, Reading
  <1>7. CASE Hash
    BY <1>7 DEF Hash, At, Then, Keeps, VInv, Watched, PassedSoFar, VerdictHolds, Reading
  <1>8. CASE Judge
    BY <1>8 DEF Judge, At, Then, Keeps, VInv, Watched, PassedSoFar, VerdictHolds, Reading
  <1>9. CASE Save \/ Raise
    <2>1. step' = "idle" /\ verdict' = Ok /\ seen' = {} /\ file' = file
      BY <1>9 DEF Save, Raise, Release, Then, Keeps
    <2> QED
      BY <2>1 DEF VInv, Watched, PassedSoFar, VerdictHolds
  <1> QED
    BY <1>2, <1>3, <1>4, <1>5, <1>6, <1>7, <1>8, <1>9, ValidateStep, ReplaceStep DEF Next

(* Whatever replaces the file between the stages of its validation, a      *)
(* verdict is right about a file that stayed, and a refusal has a reason   *)
(* in something the path has held (validate_file, spec 8.2).               *)
THEOREM VerdictsAreRight == Spec => []VerdictIsRight
  <1>1. VInv => VerdictIsRight
    <2> SUFFICES ASSUME VInv PROVE VerdictIsRight
      OBVIOUS
    <2>1. ASSUME NEW d \in seen, seen = {d}, step = "hashing" PROVE Defects(d, suffix) = {}
      <3>1. /\ CheckLocation(d) = Ok /\ CheckSize(d) = Ok
            /\ CheckType(d, suffix) = Ok /\ CheckStructure(d, suffix) = Ok
        BY <2>1 DEF VInv, PassedSoFar, Reading
      <3>2. d \in File
        BY <2>1 DEF VInv, Watched
      <3> QED
        BY <3>1, <3>2, StagesAreRight
    <2> QED
      BY <2>1 DEF VerdictIsRight, VInv, VerdictHolds
  <1> QED
    BY <1>1, VerdictInit, VerdictStep, PTL DEF Spec
=============================================================================
