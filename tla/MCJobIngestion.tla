--------------------------- MODULE MCJobIngestion ---------------------------
(* Instances of JobIngestion for TLC.                                      *)
EXTENDS JobIngestion, TLC

\* Workers are interchangeable in the runs that check no liveness property.
WorkerSymmetry == Permutations(Workers)
=============================================================================
