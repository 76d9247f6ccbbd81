--------------------------- MODULE MCAnswerCache ---------------------------
(* One question_id that is used with a question, the same with a blank at    *)
(* its end, another and a sensitive one; a cache of one entry.               *)
EXTENDS AnswerCache

CONSTANTS id, p, blank_p, q, s

MCQids == {id}
MCQuestions == {p, blank_p, q, s}
MCStripped == [x \in MCQuestions |-> IF x = blank_p THEN p ELSE x]
MCSensitive == {s}
=============================================================================
