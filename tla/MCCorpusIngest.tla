--------------------------- MODULE MCCorpusIngest ----------------------------
(* One session, frozen or not, whose inventory entry may change and change  *)
(* back.                                                                    *)
EXTENDS CorpusIngest
=============================================================================
