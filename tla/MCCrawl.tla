------------------------------ MODULE MCCrawl ------------------------------
(* Model-checking instance of Crawl: two requests of this worker, one of    *)
(* another.                                                                *)
EXTENDS Crawl
=============================================================================
