----------------------------- MODULE MC_BulkLink -----------------------------
(* Model-checking instance of BulkLink.  The constants are set in the .cfg *)
(* file; see README.md for the run.                                        *)
EXTENDS BulkLink

\* The transfers of the control machine (SETUP, a descriptor read longer
\* than a packet, the zero-length status stages with a NULL buffer), of
\* the CDC driver (a bulk OUT of a full and a short packet, a bulk IN
\* packet) and of an interrupt OUT.
MCXfers ==
  { [dir |-> "OUT", type |-> "CONTROL", len |-> 8, buf |-> TRUE],
    [dir |-> "IN", type |-> "CONTROL", len |-> 18, buf |-> TRUE],
    [dir |-> "IN", type |-> "CONTROL", len |-> 0, buf |-> FALSE],
    [dir |-> "OUT", type |-> "CONTROL", len |-> 0, buf |-> FALSE],
    [dir |-> "OUT", type |-> "BULK", len |-> 12, buf |-> TRUE],
    [dir |-> "IN", type |-> "BULK", len |-> 8, buf |-> TRUE],
    [dir |-> "OUT", type |-> "INTERRUPT", len |-> 8, buf |-> TRUE] }

=============================================================================
