--------------------------- MODULE MCAsyncWorker ---------------------------
(* AsyncWorker on small instances.                                          *)
EXTENDS AsyncWorker

CONSTANTS t1, t2, t3

AllTasks == {t1, t2, t3}
TwoTasks == {t1, t2}
OnlyFirst == {t1}
NoTasks == {}

Levels == {1, 2}
OneLevel == {1}

JoinOnly == {"join"}
AllButJoin == {"remove", "cancel", "priority", "dispose"}

\* The properties of async_app excuse what follows a late store, ...
UntilLate == ~late

\* ... those of async_all do too, but for two, which are checked after it as well as
\* long as no bounded call was made.
LateWithoutCalls == late => calls = 0
=============================================================================
