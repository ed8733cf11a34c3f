SPECIFICATION Spec
CONSTANTS
    Writers = {w1, w2}
    Lines = {l1, l2, l3}
    MaxSize = 1
    Rotations = 2
    None = None
INVARIANTS SizeBounded FollowedOnce CountedOnce
PROPERTIES OldestOnly FollowerCatchesUp
