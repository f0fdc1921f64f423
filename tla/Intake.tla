------------------------------- MODULE Intake -------------------------------
(***************************************************************************)
(* validate_file and the bound the parser's answer is held to, as          *)
(* functions of what is at a resume's path when each of them looks.  A     *)
(* file is what these checks can tell apart: where it is, its size, the    *)
(* type of its leading bytes, the page counts legible in a PDF without a   *)
(* parse (signals), whether a zip's central directory can be read (intact) *)
(* and its entries, whether the parser finds text and how many pages.      *)
(***************************************************************************)
EXTENDS Naturals, Sequences, FiniteSets

CONSTANTS
  MaxFileBytes, MaxPages, MaxDecompressedBytes, MaxCompressionRatio,
                  \* the settings of those names
  MaxZipEntries,  \* MAX_ZIP_ENTRIES
  Allowed,        \* settings.allowed_extensions
  Suffixes        \* extensions a path may have

Places == {"run_folder", "elsewhere", "link", "directory", "gone"}

Entry == [name : {"word/document.xml", "other", "climbs", "absolute"},
          full : Nat, packed : Nat]

File == [place : Places, size : Nat, type : {"pdf", "docx", "other"},
         signals : {found \in SUBSET Nat : IsFiniteSet(found) /\ found # {}},
         intact : BOOLEAN, entries : Seq(Entry), legible : BOOLEAN, pages : Nat]

ASSUME IntakeAssumption ==
  /\ {MaxFileBytes, MaxPages, MaxDecompressedBytes, MaxCompressionRatio, MaxZipEntries} \subseteq Nat
  /\ Allowed \subseteq Suffixes

Ok == "ok"

(* The first complaint of a sequence of verdicts.                          *)
FirstOf(verdicts) ==
  LET bad == {i \in DOMAIN verdicts : verdicts[i] # Ok}
  IN IF bad = {} THEN Ok ELSE verdicts[CHOOSE i \in bad : \A j \in bad : i <= j]

Reject(complaint, reason) == IF complaint THEN reason ELSE Ok
-----------------------------------------------------------------------------
(* Whether open() succeeds.                                                *)
Readable(file) == file.place \notin {"gone", "directory"}

CheckLocation(file) ==
  CASE file.place = "link" -> "symlink"
    [] file.place = "gone" -> "unresolvable_path"
    [] file.place = "elsewhere" -> "outside_run_folder"
    [] file.place = "directory" -> "not_a_regular_file"
    [] OTHER -> Ok

\* Slip: a file of exactly the limit is refused.
CheckSizeStrictly(file) ==
  FirstOf(<<Reject(file.size = 0, "empty_file"), Reject(file.size >= MaxFileBytes, "oversize")>>)

CheckSize(file) ==
  FirstOf(<<Reject(file.size = 0, "empty_file"), Reject(file.size > MaxFileBytes, "oversize")>>)

(* _sniff, then the path's extension against the settings and the type.    *)
CheckType(file, suffix) ==
  FirstOf(<<Reject(file.type = "other", "unrecognized_type"),
            Reject(suffix \notin Allowed, "disallowed_extension"),
            Reject(suffix # file.type, "extension_mime_mismatch")>>)

(* total_uncompressed after the first n entries.                           *)
RunningTotal(entries) ==
  LET sum[n \in 0 .. Len(entries)] == IF n = 0 THEN 0 ELSE sum[n - 1] + entries[n].full
  IN sum

(* The body of the loop for entry n: ratio = full / packed, unless the     *)
(* entry claims to expand from nothing.                                    *)
CheckEntry(entries, n) ==
  LET e == entries[n]
  IN FirstOf(<<Reject(e.name = "climbs", "path_traversal"),
               Reject(e.name = "absolute", "absolute_path"),
               Reject(RunningTotal(entries)[n] > MaxDecompressedBytes, "decompression_limit"),
               Reject(e.packed > 0 /\ e.full > MaxCompressionRatio * e.packed, "compression_ratio"),
               Reject(e.packed = 0 /\ e.full > 0, "impossible_ratio")>>)

CheckDocxStructure(file) ==
  LET entries == file.entries
  IN FirstOf(<<Reject(~Readable(file) \/ ~file.intact, "corrupt_zip"),
               Reject(Len(entries) > MaxZipEntries, "too_many_entries"),
               Reject(\A n \in DOMAIN entries : entries[n].name # "word/document.xml",
                      "not_a_word_document"),
               FirstOf([n \in DOMAIN entries |-> CheckEntry(entries, n)])>>)

(* The largest signal; 0, when there is none, does not reject.             *)
PageHint(file) == CHOOSE n \in file.signals : \A m \in file.signals : m <= n

CheckPdfPages(file) == Reject(PageHint(file) > MaxPages, "too_many_pages")

CheckStructure(file, type) ==
  IF type = "docx" THEN CheckDocxStructure(file) ELSE CheckPdfPages(file)

(* SandboxedParser.parse of a document the parser can read: an empty text  *)
(* is a failed extraction, and the real page count is known only now.      *)
ParseOutcome(file) ==
  CASE ~Readable(file) \/ ~file.legible -> "extraction_failed"
    [] file.pages > MaxPages -> "too_many_pages"
    [] OTHER -> "parsed"
-----------------------------------------------------------------------------
(* Reference: everything that can be held against a file at such a path,   *)
(* in no order (spec 8.2).                                                 *)
When(complaint, defect) == IF complaint THEN {defect} ELSE {}

ZipDefects(entries) ==
  LET Named(name) == \E n \in DOMAIN entries : entries[n].name = name
  IN UNION {
       When(Len(entries) > MaxZipEntries, "too_many_entries"),
       When(~Named("word/document.xml"), "not_a_word_document"),
       When(Named("climbs"), "path_traversal"),
       When(Named("absolute"), "absolute_path"),
       When(RunningTotal(entries)[Len(entries)] > MaxDecompressedBytes, "decompression_limit"),
       When(\E n \in DOMAIN entries :
              entries[n].packed > 0 /\ entries[n].full > MaxCompressionRatio * entries[n].packed,
            "compression_ratio"),
       When(\E n \in DOMAIN entries : entries[n].packed = 0 /\ entries[n].full > 0,
            "impossible_ratio")}

Defects(file, suffix) ==
  IF file.place # "run_folder" THEN {CheckLocation(file)}
  ELSE UNION {
       When(file.size = 0, "empty_file"),
       When(file.size > MaxFileBytes, "oversize"),
       When(file.type = "other", "unrecognized_type"),
       When(suffix \notin Allowed, "disallowed_extension"),
       When(suffix # file.type, "extension_mime_mismatch"),
       When(file.type = "pdf" /\ \E n \in file.signals : n > MaxPages, "too_many_pages"),
       When(file.type = "docx" /\ ~file.intact, "corrupt_zip"),
       IF file.type = "docx" /\ file.intact THEN ZipDefects(file.entries) ELSE {}}
=============================================================================
