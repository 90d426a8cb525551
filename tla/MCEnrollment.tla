---------------------------- MODULE MCEnrollment ----------------------------
(***************************************************************************)
(* Instances of Enrollment for TLC.                                        *)
(***************************************************************************)
EXTENDS Enrollment, TLC

CONSTANTS ann, bob, course, club

\* Both students may join the club by invite, or for free; one buys the course.
ClubInvites == {<<ann, club>>, <<bob, club>>}
Sales == {<<ann, course>>, <<bob, club>>}

\* Alone, with two payments and an invite.
AnnInvites == {<<ann, club>>}
AnnBuys == {ann} \X {course, club}

Symmetry == Permutations(Rows) \cup Permutations(Requests)
=============================================================================
