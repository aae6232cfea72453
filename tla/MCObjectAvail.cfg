CONSTANTS
  Inline = Inline
  Null = Null
  Page = Page
  Obj <- MCObj
  Parts <- MCParts
  Link <- MCLink
  PageNames <- MCPageNames
  Roots <- MCRoots
  MaxErrors = 1
SPECIFICATION FairSpec
INVARIANTS TypeOK AvailableIsComplete
PROPERTIES ImplementsCheck CallReturns EventuallyAvailable
