---------------------------- MODULE MCPdfEditing ----------------------------
(***************************************************************************)
(* A handle, a PDF of one page and an OFD on the disk or nothing, and the  *)
(* path of a text file.                                                    *)
(***************************************************************************)
EXTENDS PdfEditing

Pdf1 == File("pdf", <<Page("p1", <<>>)>>, TRUE)
Ofd1 == File("ofd", <<Page("o1", <<>>)>>, TRUE)

MCEnding == [a |-> "pdf", b |-> "other", c |-> "txt"]
MCDisks == {[a |-> Pdf1, b |-> Ofd1, c |-> Absent], [a |-> Absent, b |-> Absent, c |-> Absent]}
MCJsons == {[is |-> "null", items |-> <<>>], [is |-> "bad", items |-> <<>>],
            [is |-> "good", items |-> <<"t", "skip">>],
            [is |-> "good", items |-> <<"u", "abort">>]}

=============================================================================
