SPECIFICATION FairSpec
CHECK_DEADLOCK FALSE
CONSTANTS
    Programs = {"sem", "cv3_queue", "quee", "cv2_consumer_sem"}
    Lines = {a, b}
    End = End
    NoItem = NoItem
    Size = 2
    MaxLines = 5
INVARIANTS
    PrintsInput
PROPERTIES
    Terminates
