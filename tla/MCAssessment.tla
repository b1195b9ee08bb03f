---------------------------- MODULE MCAssessment ----------------------------
(* One browser, the seeded control, and edits that change the scope, one   *)
(* score above its threshold and one below.                                *)
EXTENDS AssessmentPanel

MCFieldEdits == {[NoAnswers EXCEPT !.digitalActivities = FALSE]}

MCSlides == {[domain |-> "continuite", value |-> 80]}

MCChoices == {"implemented"}
=============================================================================
