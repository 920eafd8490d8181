CONSTANTS
  Params <- MCParams
  NameOf <- MCNameOf
  Patterns <- MCPatterns
  Paths <- MCPaths
  Decoded <- MCDecoded
  Bases <- MCBases
  Methods = {"GET"}
  GET = "GET"
  HEAD = "HEAD"
  MaxRegs = 3
  Docs = {}
  MaxDocs = 0
  PathNames = {"b"}
  QueryNames = {"q"}
  MaxDescriptors = 1
  PlainKinds = {"sync"}
  DocPaths <- MCDocPaths
SPECIFICATION OpenApiSpec
PROPERTIES KeepsRoutes
CHECK_DEADLOCK FALSE
