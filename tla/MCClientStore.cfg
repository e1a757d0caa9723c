CONSTANTS
    Mine = {"m1"}
    Theirs = {"t1"}
    Asked = Asked
    Room = 2
    Nothing = Nothing
SPECIFICATION Spec
INVARIANTS
    TypeOK
    MarksAreTrue
PROPERTIES
    MessagesStay
CHECK_DEADLOCK FALSE
