SPECIFICATION Spec
CONSTANTS
  photo = photo
  document = document
  contact = contact
  preview = preview
  None = none
  Nodes = {n1}
  Others = {n2}
  MaxMessage = 2
  Attachments <- MCAttachments
  Bytes <- MCBytes
  Unsized <- MCUnsized
  Keyless <- MCUnsized
  Fileless = {preview}
  Limits = {0, 1}
  First <- MCFirst
  MaxEdits = 1
  MaxFaults = 1
  MaxPartial = 1
  MaxSuffix = 3
INVARIANTS TypeOK CopiesWhole CopiesCurrent
PROPERTY AllArrive
