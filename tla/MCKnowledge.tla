----------------------------- MODULE MCKnowledge -----------------------------
(* Knowledge with chunks of three words that overlap by one: documents with no    *)
(* word, with one chunk, with two, and with a last chunk that is all overlap.     *)
(* There are two versions of each file.                                          *)
EXTENDS Knowledge

Documents ==
    {[title |-> "Restart", words |-> <<>>],
     [title |-> "Restart", words |-> <<"a", "b">>],
     [title |-> "Rollback", words |-> <<"c", "d", "e">>],
     [title |-> "Rollback", words |-> <<"f", "g", "h", "i">>]}
TwoFiles == <<"restart.md", "rollback.md">>
Titles(path) == IF path = "restart.md" THEN "Restart" ELSE "Rollback"
=============================================================================
