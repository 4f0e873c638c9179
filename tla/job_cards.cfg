CHECK_DEADLOCK FALSE
SPECIFICATION Spec
CONSTANTS
  Results <- TwoResults
  NoFormat = "none"
  Ttl = 2
  MaxBytes = 2
  MaxWire = 1
  MaxToasts = 2
INVARIANT RowIsSound
PROPERTIES EndedRowStays ToastsLeaveAlone SentIsShown OfferEnds
