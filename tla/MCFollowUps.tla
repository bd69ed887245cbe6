----------------------------- MODULE MCFollowUps -----------------------------
(* Constants for the model-checking runs of FollowUps and ReplyChecker. *)
EXTENDS ReplyChecker

CONSTANTS c1, c2, j1, g1, g2, k1, k2, a1, a2

OneCompany == {c1}
TwoCompanies == {c1, c2}
NoStep == {}
OneStep == {1}
OneSender == {j1}
OneWriter == {g1}
TwoWriters == {g1, g2}
OneChecker == {k1}
TwoCheckers == {k1, k2}
OneAddress == {a1}
TwoAddresses == {a1, a2}
OneEach == [c \in Company |-> IF c = c1 THEN a1 ELSE a2]

NoFault == {}
SendingFaults == {"crash", "ambiguous", "mark"}
CheckingFaults == {"load", "save", "reject", "break"}
Rejections == {"reject"}
AllRequests == {"approve", "edit", "reset", "optout", "click", "consent", "template", "tenant"}
NoRequest == {}
NoWriter == {}
=============================================================================
