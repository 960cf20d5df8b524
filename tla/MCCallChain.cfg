\* Calls nested, one after the other, or on two goroutines.
SPECIFICATION Spec
CONSTANTS
    f1 = f1
    f2 = f2
    f3 = f3
    Fn = {f1, f2, f3}
SYMMETRY Sym
INVARIANTS LiveIndexed
PROPERTY ReportFaithful
