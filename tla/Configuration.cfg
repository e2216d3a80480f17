SPECIFICATION ConfigSpec
CONSTANT Names = {a, b}
SYMMETRY Symmetry
INVARIANT CurrentRegistered
INVARIANT DefaultAfterOrderlyEnd
