---------------------------- MODULE MCConnection ----------------------------
(* Bounds for checking one ConnectionDescriptor.  Four bytes in pages of  *)
(* up to two bytes make queues of up to four pages, more than the two    *)
(* pages one writev gathers here, so partial writes that stop inside the *)
(* first page, inside a later page and at the iovec cap all occur.       *)
EXTENDS Connection

MCMaxBytes == 4
MCMaxPageLen == 2
MCIovMax == 2

====
