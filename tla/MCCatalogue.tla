----------------------------- MODULE MCCatalogue -----------------------------
(* An instance of Catalogue for TLC.                                        *)
EXTENDS Catalogue
=============================================================================
