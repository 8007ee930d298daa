\* Compressed instructions of a 64-bit RISC-V guest.
SPECIFICATION DecodeSpec
CONSTANT Inputs <- MCRv64Inputs
INVARIANT CJalOnRv32Only
CHECK_DEADLOCK FALSE
