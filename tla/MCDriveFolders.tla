--------------------------- MODULE MCDriveFolders ---------------------------
(* Model-checking instance of DriveFolders.                                *)
EXTENDS DriveFolders
=============================================================================
