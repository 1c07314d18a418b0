SPECIFICATION Spec
CONSTANTS
    till1 = till1
    till2 = till2
    row1 = row1
    row2 = row2
    code1 = code1
    Till = {till1, till2}
    Barcode = {row1, row2}
    Worker = {w1}
    Code = {code1}
    CodeOf <- Codes
    MadeBy <- Makers
    KilledAt = {"push", "answer", "pull"}
    None = None
INVARIANTS CodesUnique ScansAgree
PROPERTIES RemovedStaysRemoved
