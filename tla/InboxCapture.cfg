SPECIFICATION FairCaptureSpec
CONSTANTS
  Messages = {1, 2}
  MaxMessage = 2
  CAPTURE_ATTEMPTS = 3
  MaxStops = 3
  MaxDrops = 2
INVARIANTS CaptureTypeOK EventsNumbered
PROPERTIES ImplementsLog EventuallySettled
