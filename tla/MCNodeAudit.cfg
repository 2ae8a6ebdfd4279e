CONSTANTS
  Fragment = {f1}
  TicketsPerFragment = 2
  Ticket <- MCTicket
  ticketFor <- MCTicketFor
  Monitor = {m1,m2}
  ScrubBatch = 1
  MaxRot = 1
  MaxMishaps = 1
  SetSize = 2
  LowWater = 2
  None = None
SPECIFICATION FairSpec
CHECK_DEADLOCK FALSE
INVARIANTS  LostOnlyHurt
PROPERTIES DeleteWins 
