SPECIFICATION WordsSpec
CONSTANTS
  h1 = h1
  h2 = h2
  Refresh = Refresh
  Handlers = {h1, h2}
  Characters <- AllCharacters
  AsciiWord <- Ascii
  Letters <- AllLetters
  Entries <- ThreeEntries
  Seeds <- OneSeed
  Texts <- ShortTexts
INVARIANT WordsTypeOK
PROPERTIES FindsLongest FilterCatchesUp
