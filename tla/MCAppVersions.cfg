SPECIFICATION Spec
CONSTANTS
  Tags <- MCTags
  NoImage = NoImage
  Custom = Custom
INVARIANTS
  TypeOK
  WholeImages
