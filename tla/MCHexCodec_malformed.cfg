\* File-name fields outside the grammar.
CONSTANT TestNibbles = {0, 1, 10}
SPECIFICATION Spec
INVARIANT MalformedRejected
