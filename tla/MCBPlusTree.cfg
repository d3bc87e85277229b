\* Order 2: nine rows are enough to split the root a second time.
SPECIFICATION Spec
CONSTANTS
    Order = 2
    Key = {1, 2, 3, 4, 5}
    MaxRows = 9
INVARIANTS TypeOK SearchFinds EachRowOnce LeavesSorted ParentsAgree Balanced
