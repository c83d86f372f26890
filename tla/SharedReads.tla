----------------------------- MODULE SharedReads ----------------------------
(***************************************************************************)
(* The two services that many requests read through at once: the live      *)
(* source feed (module CatalogReads) and the Neo4j client (module          *)
(* GraphReads).  They share nothing but their callers.                     *)
(***************************************************************************)
EXTENDS CatalogReads, GraphReads

\* Reads of the catalogs share one flight, are fresh, have the rows that were asked for,
\* and end with the client's close (LiveSourceFeed, Neo4jReadClient).
ReadsExact == FlightsExact /\ RowsExact
=============================================================================
