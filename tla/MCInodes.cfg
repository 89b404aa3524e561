SPECIFICATION Spec
CONSTANTS
    t1 = t1  t2 = t2  t3 = t3  f1 = f1  f2 = f2  d1 = d1  d2 = d2
    s1 = s1  s2 = s2  s3 = s3  s4 = s4  s5 = s5  s6 = s6  b1 = b1  b2 = b2  b3 = b3
    Task = {t1, t2}  Admin = {t1}
    File = {f1, f2}  Dir = {d1, d2}  MountRoot = root  Last = root
    Slot = {s1, s2, s3}  Block = {b1}  NULL = NULL
    Races = {}
SYMMETRY Symmetry
INVARIANTS CountIsRefs NamesMatch OneOwner 
