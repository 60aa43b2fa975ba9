CONSTANT TestNibbles = {0, 1, 10}
SPECIFICATION Spec
INVARIANT RenderMatchesReference
INVARIANT ParseInvertsRender
INVARIANT GrammarFieldsParsed
