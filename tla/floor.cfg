CONSTANT Datagrams = {{1}, {2}, {4, 2}, {1, 4}, {1, 2, 4, 8}, {4, 16}}
SPECIFICATION Spec
INVARIANTS TypeOK NoGrantFromNothing FloorFollowsLast
