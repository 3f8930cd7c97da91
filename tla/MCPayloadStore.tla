--------------------------- MODULE MCPayloadStore ---------------------------
(* Three records and a file of up to five lines: put-backs behind unread     *)
(* records, a used-up file followed by new records.  Two faults: a cut after *)
(* a card was pulled, a write that fails after a read that failed.           *)
EXTENDS PayloadStore
=============================================================================
