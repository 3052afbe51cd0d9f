------------------------------- MODULE MCInbox -------------------------------
(* Instances of Inbox for TLC: pages of one row, so that two rows need a    *)
(* second page, and one partition, so that rows are stored in the order of  *)
(* publication, which need not be the order of their numbers.               *)
EXTENDS InboxInv

AllFaults == {"redis", "publish", "insert", "query", "crash", "consume"}
OnePage == 1
=============================================================================
