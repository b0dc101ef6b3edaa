--------------------------- MODULE MCTelegramJobs ---------------------------
(* Small instances of TelegramJobs for TLC. *)
EXTENDS TelegramJobsProperties, TLC

OneLink  == [j \in Jobs |-> CHOOSE l \in Links : TRUE]

OnlyQuestions == [j \in Jobs |-> "QUESTION"]
AllKinds      == [j \in Jobs |-> CASE j % 3 = 1 -> "QUESTION"
                                   [] j % 3 = 2 -> "NEW"
                                   [] j % 3 = 0 -> "ADVISOR"]

OnlyCommands  == [j \in Jobs |-> IF j % 2 = 1 THEN "ADVISOR" ELSE "NEW"]

Shape(t, p) == [texts |-> t, photos |-> p]
OneText     == {Shape(1, 0)}
BlankOrText == {Shape(0, 0), Shape(1, 0)}
OneOfEach   == {Shape(1, 1)}
TextsAndPictures == {Shape(2, 2), Shape(1, 0)}

LegacyAnswers == {Shape(2, 2)}

WorkerSymmetry == Permutations(Workers)
=============================================================================
