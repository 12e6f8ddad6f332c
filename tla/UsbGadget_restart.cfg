SPECIFICATION Spec
CONSTANTS
  Requests = {{"ADB"}}
  Faulty = {}
PROPERTIES
  RestartedWithOwner
