---------------------------- MODULE MCLogStream -----------------------------
(* Small outputs for LogStream: lines shorter than a chunk of six, as long *)
(* as one and longer, with sequences of two to four bytes across the       *)
(* boundary, one that starts in the middle of a sequence, one that breaks  *)
(* some, and one that is not UTF-8 at all where a chunk is to be cut.      *)
EXTENDS LogStream

Small == { <<1, Newline, 1, 1, 1, 1, 3, 0, 0, Newline>>,
           <<1, 1, 1, 4, 0, 0, 0, 2, 0, 1>>,
           <<1, 1, 2, 0, 1, Newline, 4, 0, 0, 0>>,
           <<0, 3, 0, 0, 3, 0, Newline, 1, 1, 1>>,
           <<3, Newline, 1, 4, 0, 1, 3, 0, 0, 0>>,
           <<1, 0, 0, 0, 0, 0, 0, 2, 0, Newline>> }

One == { <<1, 1, Newline, 1, 1>> }
=============================================================================
