------------------------ MODULE MCRestoreTransaction ------------------------
(***************************************************************************)
(* An instance of RestoreTransaction with two framework adapters.          *)
(***************************************************************************)
EXTENDS RestoreTransaction

MCAdapters == <<"accelerator", "torch">>
=============================================================================
