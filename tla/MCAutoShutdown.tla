---------------------------- MODULE MCAutoShutdown ----------------------------
(* AutoShutdown with a status and a semi-static report.                           *)
EXTENDS AutoShutdown

MCFullReports == <<"status", "semi">>

===============================================================================
