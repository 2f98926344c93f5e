CONSTANTS
    yes = yes  no = no  chat = chat  offer = offer  letter = letter
    p1 = p1  p2 = p2  p3 = p3
    Letters = {yes, no, chat, offer, letter}
    Kind <- MCKind
    Requests = {p1, p2, p3}
    None = None
    MaxFaults = 2
SPECIFICATION Spec
SYMMETRY Symmetry
INVARIANTS TypeOK ToldAsHeard RepeatIsSaid
CHECK_DEADLOCK FALSE
