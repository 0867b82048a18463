SPECIFICATION Spec
CONSTANTS
  Getters = {g1}
  Limits = {1, 2}
  MaxMessageId = 3
PROPERTY DropsOnlyDeleted
