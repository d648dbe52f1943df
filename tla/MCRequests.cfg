\* Every small request and every small tree of arguments.
SPECIFICATION Spec
CONSTANTS
  ContentKeys <- Contents
  SecretKeys <- Secrets
  SecretTexts <- SecretValues
  Inputs <- SomeInputs
  Parts <- SomeParts
  MaxDepth = 3
INVARIANT RequestsTypeOK
INVARIANT QueryTokenIgnored
INVARIANT SessionIsOpeners
INVARIANT BranchGuardExact
INVARIANT RedactionExact
CHECK_DEADLOCK FALSE
