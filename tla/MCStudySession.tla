--------------------------- MODULE MCStudySession ---------------------------
(* StudySession with two notes: cards 1 and 2 of the first, card 3 of the second. *)
EXTENDS StudySession

MCNoteOf == <<1, 1, 2>>
MCSelections == {{1, 2, 3}}
MCTwoSubjects == <<1, 2>>
=============================================================================
