SPECIFICATION Spec
INVARIANTS TypeOK DndHolds TiesOnly VipMonotone VerdictCoherent
