SPECIFICATION Spec
CONSTANTS
  Char = {"a", "b", "c", "/", "^"}
  Layouts <- Versions
  Foreign <- Unreadable
  Fallible = {"locale", "name", "message", "second", "change", "string"}
  BufferInitial = 2
  BufferIncrement = 1
  MaxCalls = 2
INVARIANTS
  TypeOK
  SavedIsRestored
  ChunksAccounted
  NamesInBuffer

  
