CONSTANTS
  MaxMedia = 2
  RecvOnly = {}
SPECIFICATION Spec
PROPERTY GrantSends
