---------------------------- MODULE MCSetupCores ----------------------------
(* SetupCores, for the model checker: values of --core and --coreB.        *)
EXTENDS SetupCores

\* Autoselected, two cores the system accepts, one it refuses, and one that does not exist.
MCOption == {-1, 0, 1, 3, 4}
=============================================================================
