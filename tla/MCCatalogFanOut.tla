--------------------------- MODULE MCCatalogFanOut ---------------------------
(* CatalogFanOut with a page longer than the semaphore, for TLC. *)
EXTENDS CatalogFanOut
=============================================================================
