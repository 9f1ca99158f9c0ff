CONSTANTS
  Actions = {start, die}
  MaxLines = 4
SPECIFICATION FairSpec
PROPERTIES
  ImplementsSource
  EndReported
  EndReaped
  ReaderEndsOrHolds
