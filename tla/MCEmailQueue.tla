---------------------------- MODULE MCEmailQueue ----------------------------
(* Constants for the model-checking runs of EmailQueue. *)
EXTENDS QueueOutbox, TLC

CONSTANTS c1, c2, c3, w1, w2

OneCompany == {c1}
ThreeCompanies == {c1, c2, c3}
OneWorker == {w1}

NoFault == {}
AllButOverrun == {"crash", "ambiguous", "commit"}
LogOrRecord == {"log", "ambiguous", "commit"}

AllHandlers == {"automatic", "manual", "approve", "withdraw", "byhand", "consent", "optout", "delete"}
Automatic == {"automatic"}
AskDelete == {"automatic", "byhand", "delete"}
NoMark == AllHandlers \ {"byhand"}

CompanySymmetry == Permutations(Company)
=============================================================================
