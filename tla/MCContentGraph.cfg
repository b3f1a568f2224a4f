SPECIFICATION Spec
CONSTANTS
    None = None
    Pages <- pages
    Imported <- imported
    Kinds = {"field", "template", "layout", "type"}
    Received = {"field"}
    Exposed = {}
    MaxItems = 2
    MaxChanges = 3
INVARIANT GraphInv
PROPERTIES PatchIsShown EditorOverwritesNothing
CHECK_DEADLOCK FALSE
