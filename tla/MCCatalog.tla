----------------------------- MODULE MCCatalog -----------------------------
(* Model-checking instances of Catalog.                                    *)
EXTENDS Catalog
=============================================================================
