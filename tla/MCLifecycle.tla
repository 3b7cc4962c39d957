----------------------------- MODULE MCLifecycle -----------------------------
(***************************************************************************)
(* Values of the constants of Lifecycle for TLC.                           *)
(***************************************************************************)
EXTENDS Lifecycle, MCMTBMPI

\* The application demands nothing, as many processes as the examples do, or
\* more than there are.
SomeMinimums == {0, ExampleMinNumProc, Cardinality(Processes) + 1}

\* The callbacks do nothing collective, or all of the tasks meet in them.
SomeGroups == {CallBacksGroup, Tasks}

=============================================================================
