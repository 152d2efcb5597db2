---------------------------- MODULE MCIngestion ----------------------------
(* Small pipelines: what kinds of documents, which of them share their       *)
(* bytes, and what can go wrong.                                             *)
EXTENDS Ingestion

CONSTANTS d1, d2

\* A scanned PDF: pdf-parser, then ocr-service, then chunk-splitter.
ScanKind == [d \in Docs |-> "pdf"]
\* An office file.
OfficeKind == [d \in Docs |-> "office"]
\* A text note.
TextKind == [d \in Docs |-> "text"]

\* Equal bytes, or different ones.
SameHash == [d \in Docs |-> 1]
OwnHash  == [d \in Docs |-> d]
=============================================================================
