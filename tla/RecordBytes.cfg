SPECIFICATION Spec
CONSTANT Seeks = {0, 1, 127, 128, 4095, 4096, 32767, 65535}
INVARIANTS TypeOK PositionIsRecord RandomIsPosition
