------------------------------ MODULE MCRequests ------------------------------
\* HttpRequests with the operators it hands data to and the guide, on a small instance.
EXTENDS RequestData, GuideMount, TLC

MCSites == <<"env", "bundle", "docker">>
MCNumbers == -1..3
MCLengths == 0..3

\* What /debug/guide reports of an unchanged disk is what is mounted (guide.py:52-121).
ASSUME GuideReported == DiagnosticsAgree

Symmetry == Permutations(Requests)
===============================================================================
