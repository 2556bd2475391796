CONSTANTS
  Page = {p1, p2}
  None = None
SPECIFICATION Spec
PROPERTY PageSettles
