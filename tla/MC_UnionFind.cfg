CONSTANT MaxIds = 5
SPECIFICATION Spec
INVARIANTS TypeOK CountsClasses
PROPERTIES FindReturnsRoot NormalizeFlattens LoopsEnd ImplementsPartition
