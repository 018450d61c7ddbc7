SPECIFICATION AlgorithmsSpec
CONSTANT Frames <- SomeFrames
INVARIANTS DecoderHasTheCodes SymbolsAndBitsComeBack TransformsAreDefined ColorsComeBack ColormapsAreNearest ColorsAreManaged ProfilesComeBack FilesKeepTheImage
CHECK_DEADLOCK FALSE
