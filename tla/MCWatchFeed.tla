---------------------------- MODULE MCWatchFeed ----------------------------
(* Model-checking instance of WatchFeed: marks of one width (dates, or     *)
(* numbers below ten), with a tie shorter than a page and one that fills   *)
(* it; and marks that gain a digit.                                        *)
EXTENDS WatchFeed

SameWidth == <<3, 4, 4, 5, 6>>
NewDigit  == <<7, 8, 9, 10, 11>>
FullTie   == <<3, 4, 4, 4, 5>>
AllKinds  == {SameWidth, FullTie, NewDigit}

\* What StoredAgainRarely assumes holds of this instance.
ASSUME MCAnswersFit == AnswersFit
=============================================================================
