--------------------------- MODULE MCHomeworkHire ---------------------------
(* Small instances of HomeworkHire for TLC.                                *)
EXTENDS HomeworkHire

(* The first student is the fastest, the second the best, and the third    *)
(* solves homeworks for nothing.                                           *)
MCQuality == <<1, 5, 3>>
MCSpeed   == <<4, 2, 3>>
MCCost    == <<1, 2, 0>>
MCFiles   == {<<>>, <<"Q">>, <<"C", "other">>, <<"S", "C", "Q">>, <<"C", "Q", "S", "Q">>}
MCMoneys  == {2, 3, 9}
=============================================================================
