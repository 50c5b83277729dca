SPECIFICATION Spec
CONSTANTS
    Objs = {o1, o2, o3, o4}
    NoObj = NoObj
SYMMETRY AnyOrder
INVARIANTS TasksMatchFlags NotCalledAgain SkipsAreBounded
