------------------------------ MODULE MCExamJobs ------------------------------
(* Small instances of ExamJobs for TLC. *)
EXTENDS ExamJobsProperties
=============================================================================
