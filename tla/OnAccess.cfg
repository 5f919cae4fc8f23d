\* One program that opens files of a marked directory, or of `/`.
SPECIFICATION Spec
CONSTANTS
  Apps = {"app"}
  Files = {"a", "b"}
  Bad = {"b"}
  Nothing = Nothing
PROPERTIES OpenIsAnswered
