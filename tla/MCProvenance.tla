---------------------------- MODULE MCProvenance ----------------------------
(* Small instances of Provenance for TLC.                                   *)
EXTENDS Provenance, TLC

Alike == Permutations(Runs) \cup Permutations(Rubrics)

Zip(entries) == [place |-> "run_folder", size |-> 1, type |-> "docx", signals |-> {0},
                 intact |-> TRUE, entries |-> entries, legible |-> TRUE, pages |-> 1]
E(name, full, packed) == [name |-> name, full |-> full, packed |-> packed]
Word == E("word/document.xml", 2, 1)

(* Sound files at every limit: of pages; of bytes, entries, ratio, total.  *)
Pdf  == [place |-> "run_folder", size |-> 3, type |-> "pdf", signals |-> {0, 2},
         intact |-> FALSE, entries |-> <<>>, legible |-> TRUE, pages |-> 2]
Docx == [Zip(<<Word, E("other", 2, 1)>>) EXCEPT !.size = 3]

(* Files with one defect each, and with two.                               *)
Misplaced == {[Pdf EXCEPT !.place = p] : p \in Places \ {"run_folder"}}
BadPdfs == {[Pdf EXCEPT !.size = 0], [Pdf EXCEPT !.size = 4], [Pdf EXCEPT !.type = "other"],
            [Pdf EXCEPT !.signals = {0, 3}], [Pdf EXCEPT !.size = 4, !.signals = {3}]}
BadZips == {[Docx EXCEPT !.intact = FALSE]} \cup
           {Zip(entries) : entries \in
              {<<>>, <<E("other", 1, 1)>>, <<Word, E("other", 0, 0), E("other", 1, 1)>>,
               <<Word, E("climbs", 1, 1)>>, <<E("absolute", 1, 1), Word>>,
               <<Word, E("other", 3, 2)>>, <<E("word/document.xml", 3, 1)>>,
               <<Word, E("other", 1, 0)>>}}
(* Sound, but with more pages than could be read off, and without a text.  *)
Unusable == {[Pdf EXCEPT !.signals = {0}, !.pages = 3], [Pdf EXCEPT !.legible = FALSE]}

Later == {Pdf, [Pdf EXCEPT !.place = "gone"], [Pdf EXCEPT !.size = 4],
          [Pdf EXCEPT !.signals = {0}, !.pages = 3]}

Samples == {Pdf, Docx} \cup Misplaced \cup BadPdfs \cup BadZips \cup Unusable
=============================================================================
