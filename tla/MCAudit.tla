------------------------------ MODULE MCAudit -------------------------------
(***************************************************************************)
(* Instances of Audit for TLC.  Ticket i of fragment f is <<f, i>>.        *)
(***************************************************************************)
EXTENDS Audit

CONSTANT TicketsPerFragment

MCTicket == Fragment \X (1..TicketsPerFragment)
MCTicketFor == [t \in MCTicket |-> t[1]]
=============================================================================
