CONSTANTS
  EndA = EndA
  EndB = EndB
  NoRef = NoRef
  NoTps = NoTps
  NoConn = NoConn
  MaxTps = 4
SPECIFICATION Spec
CONSTRAINTS FewUnsaved FewEdits
INVARIANTS TypeOK TpsAreOneLine EditsNeverRefused LegsAreFresh EndsReachALine 
PROPERTIES ImplementsLinkPath
