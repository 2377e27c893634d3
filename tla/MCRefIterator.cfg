CONSTANTS
    encryptor = encryptor
    decryptor = decryptor
    plain = plain
    v = v
    w = w
    outer = outer
    inner = inner
    Containers = {encryptor, decryptor, plain}
    Views = {v, w}
    Loops = {outer, inner}
    Elements <- MCElements
    AssignAcross = FALSE
    Null = Null
    Stop = Stop
SPECIFICATION Spec
INVARIANTS TypeOK Coherent LoopInOrder
PROPERTIES ImplementsView LoopsEnd
