SPECIFICATION FairSpec
CONSTANTS
    Size = 3
    Data = {0, 1}
    Blank = 0
    Capacity = 2
    Gens = 1
    Indices = 2
    MaxCount = 2
PROPERTIES ReadsWhatWasWritten CallsReturn
