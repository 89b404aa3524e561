SPECIFICATION NamesSpec
CONSTANTS
    t1 = t1  t2 = t2  root = root  n1 = n1  n2 = n2  n3 = n3
    a = a  b = b  p1 = p1  p2 = p2
    Task = {t1, t2}  Node = {root, n1, n2}  Root = root  Dirs = {root, n1, n2}
    Name = {a, b}  Pos = {p1, p2}  NONE = NONE
SYMMETRY Symmetry
INVARIANTS  LinksExact 
CHECK_DEADLOCK FALSE
